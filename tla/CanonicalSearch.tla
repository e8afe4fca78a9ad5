--------------------------- MODULE CanonicalSearch ---------------------------
(***************************************************************************)
(* vladder/canonical_search.py: CanonicalSearchEngine.run, the search over *)
(* the quotient DAG of canonical states, together with the checkpoint      *)
(* cycle that vladder/production_search.py wraps around it (load, run,     *)
(* save).                                                                  *)
(*                                                                         *)
(* One engine process runs at a time and is sequential.  What varies is    *)
(* the grammar, the order a frontier policy gives to siblings, the cost    *)
(* gate's choice to use partial-order reduction (POR) at a state, where a  *)
(* time or memory limit stops the loop, and where the process dies.        *)
(*                                                                         *)
(* A grammar (the LazyGrammar protocol of lazy_search.py) is external: its *)
(* methods, the canonical identity it induces and the orders on its        *)
(* actions are constant operators whose first argument is the grammar; so  *)
(* are the engine's options for its search.                                *)
(***************************************************************************)
EXTENDS Naturals, Sequences, FiniteSets

CONSTANTS
  States,        \* raw semantic states of every grammar
  Ids,           \* canonical identities
  Actions,       \* actions, the ones that label initial states included
  Grammars,      \* the grammars a search may be given
  InitialStates(_),       \* sequence of [act, st]: initial_states
  EnabledActions(_, _),   \* state -> set of actions: enabled_actions
  ApplyAction(_, _, _),   \* state, action -> state or Nil: apply_action
  TerminalStates(_),      \* the states with terminal = True
  Canon(_, _),            \* state -> identity: Canonicalizer.envelope
  Rank(_, _),             \* action -> place in the grammar's enumeration
  Key(_, _),              \* action -> place in the order of _json_action_key
  Text(_, _),             \* action -> place in the byte order of its JSON
  Footprint(_, _),        \* action -> its ActionFootprint
  Native(_),              \* has enabled_actions and apply_action
  PorPolicy(_),  \* "off", "always" (no por_decider) or "adaptive"
  Learned(_),    \* TRUE: any sibling order; FALSE: StableFrontierPolicy
  NodeBudget(_), \* node_budget
  WorkBudget(_), \* work_budget
  SaveOnCompletion, \* checkpoint_on_completion
  MaxStops(_),   \* bound on the stops by the time or memory limit
  MaxCrashes(_), \* bound on the deaths of the process
  Nil            \* Python's None

ASSUME BudgetAssumption ==
  \A gr \in Grammars :
    /\ NodeBudget(gr) \in Nat \ {0} /\ WorkBudget(gr) \in Nat \ {0}
    /\ MaxStops(gr) \in Nat /\ MaxCrashes(gr) \in Nat


(***************************************************************************)
(* What the engine takes for granted of a grammar: an applicable action is *)
(* enumerated, a terminal state has no actions, finality is part of the    *)
(* canonical bytes, and the orders on actions are total.                   *)
(***************************************************************************)
Footprints ==
  [ complete  : BOOLEAN,
    reads     : SUBSET Actions,  \* resources are named by small sets
    writes    : SUBSET Actions,
    exclusive : SUBSET Actions,  \* aliases, owners, authorities, lifetimes
    ordered   : BOOLEAN,         \* synchronization or external effects
    requires  : SUBSET Actions,
    conflicts : SUBSET Actions ]

IsGrammar(gr) ==
  /\ InitialStates(gr) \in Seq([act : Actions, st : States])
  /\ TerminalStates(gr) \in SUBSET States
  /\ Native(gr) \in BOOLEAN
  /\ \A s \in States :
       /\ Canon(gr, s) \in Ids
       /\ EnabledActions(gr, s) \in SUBSET Actions
       /\ \A a \in Actions :
            /\ ApplyAction(gr, s, a) \in States \cup {Nil}
            /\ ApplyAction(gr, s, a) # Nil => a \in EnabledActions(gr, s)
       /\ s \in TerminalStates(gr) => EnabledActions(gr, s) = {}
       /\ \A t \in States : Canon(gr, s) = Canon(gr, t) =>
            (s \in TerminalStates(gr) <=> t \in TerminalStates(gr))
  /\ \A a \in Actions :
       /\ Rank(gr, a) \in Nat /\ Key(gr, a) \in Nat /\ Text(gr, a) \in Nat
       /\ Footprint(gr, a) \in Footprints
       /\ \A b \in Actions \ {a} :
            Key(gr, a) # Key(gr, b) /\ Text(gr, a) # Text(gr, b) /\ Rank(gr, a) # Rank(gr, b)

ASSUME GrammarAssumption ==
  /\ IsFiniteSet(Actions)
  /\ IsFiniteSet(Ids)
  /\ \A gr \in Grammars : IsGrammar(gr)

VARIABLES
  g,          \* the grammar searched; a resume has the same grammar and options
  phase,      \* where the process is
  table,      \* TranspositionTable.records: id -> record, Nil if absent
  queue,      \* deque of work items
  cur,        \* the work item being expanded, Nil while seeding
  pending,    \* ranked children not yet passed to add_state
  terminals,  \* terminal_ids
  complete,   \* the flag of the result
  built,      \* counts["candidate_constructions"]
  disk,       \* the checkpoint file, Nil if there is none
  stops,      \* time and memory stops so far
  crashes     \* process deaths so far

vars == <<g, phase, table, queue, cur, pending, terminals, complete, built,
          disk, stops, crashes>>
memory == <<table, queue, cur, pending, terminals, complete, built>>

Phases == {"idle", "loop", "expanding", "result", "stopped", "done",
           "crashed", "failed"}
Statuses == {"queued", "expanded", "terminal"}

Paths == Seq(Actions)
Records == [rep : States, path : Paths, dmin : Nat, dmax : Nat, status : Statuses]
WorkItems == [id : Ids, path : Paths, prev : States \cup {Nil}]
Tables == [Ids -> Records \cup {Nil}]
Checkpoints == [table : Tables, terminals : SUBSET Ids, built : Nat]

ASSUME NilAssumption ==
  Nil \notin States /\ Nil \notin Records /\ Nil \notin WorkItems /\ Nil \notin Checkpoints

Known == {id \in Ids : table[id] # Nil}
EmptyTable == [id \in Ids |-> Nil]

Least(m, n) == IF m < n THEN m ELSE n
Greatest(m, n) == IF m < n THEN n ELSE m
LastAction(path) == path[Len(path)]
Elements(seq) == {seq[i] : i \in DOMAIN seq}

(***************************************************************************)
(* Orderings(S): the ways to enumerate S.  The ranking sort is stable, so  *)
(* with a constant score siblings keep the grammar's enumeration order; a  *)
(* learned score may yield any order.                                      *)
(***************************************************************************)
Orderings(S) ==
  {o \in [1..Cardinality(S) -> S] :
     /\ \A x \in S : \E i \in DOMAIN o : o[i] = x
     /\ \A i, j \in DOMAIN o : o[i] = o[j] => i = j}

Ranked(S) ==
  {o \in Orderings(S) :
     Learned(g) \/ \A i, j \in DOMAIN o : i < j => Rank(g, o[i]) < Rank(g, o[j])}

-----------------------------------------------------------------------------
(***************************************************************************)
(* Grammar steps and the two reductions.                                   *)
(***************************************************************************)
Apply(s, a) == IF s = Nil THEN Nil ELSE ApplyAction(g, s, a)

\* IndependenceVerifier.static_screen
StaticScreen(a, b) ==
  LET left == Footprint(g, a)
      right == Footprint(g, b)
  IN  /\ left.complete /\ right.complete
      /\ a \notin right.conflicts /\ b \notin left.conflicts
      /\ left.writes \cap (right.reads \cup right.writes) = {}
      /\ right.writes \cap (left.reads \cup left.writes) = {}
      /\ left.exclusive \cap right.exclusive = {}
      /\ ~left.ordered /\ ~right.ordered

\* Mutant of Independent: trusts the footprints
IndependentByFootprint(s, a, b) == StaticScreen(a, b) /\ Native(g)

\* IndependenceVerifier.verify: both orders legal, same canonical bytes
Independent(s, a, b) ==
  /\ StaticScreen(a, b)
  /\ Native(g)
  /\ LET ab == Apply(Apply(s, a), b)
         ba == Apply(Apply(s, b), a)
     IN  ab # Nil /\ ba # Nil /\ Canon(g, ab) = Canon(g, ba)

\* Mutant of DependencyBlocked: looks at the last action only
BlockedByLast(a, path) == ~(Footprint(g, a).requires \subseteq {LastAction(path)})

\* CanonicalSearchEngine._dependency_blocked
DependencyBlocked(a, path) ==
  \/ ~(Footprint(g, a).requires \subseteq Elements(path))
  \/ Footprint(g, a).conflicts \cap Elements(path) # {}

\* The POR test of the expansion loop, at the item being expanded
PorAvoided(work, a) ==
  /\ Key(g, a) < Key(g, LastAction(work.path))
  /\ Independent(work.prev, LastAction(work.path), a)

\* AdaptiveReductionPolicy.allow_por: gates that are certain, then a cost
\* estimate that may fall either way
PorChoices(actions) ==
  CASE PorPolicy(g) = "off" -> {FALSE}
    [] PorPolicy(g) = "always" -> {TRUE}
    [] OTHER ->
         IF /\ \A a \in actions : Footprint(g, a).complete
            /\ Cardinality(actions) >= 3
         THEN BOOLEAN ELSE {FALSE}

\* The actions of a state that are realized as children
ViableActions(work, por) ==
  {a \in EnabledActions(g, table[work.id].rep) :
     /\ Apply(table[work.id].rep, a) # Nil
     /\ ~DependencyBlocked(a, work.path)
     /\ ~(por /\ PorAvoided(work, a))}

-----------------------------------------------------------------------------
(***************************************************************************)
(* TranspositionTable.intern, and the order on first discovery paths: JSON *)
(* bytes, in which a longer array precedes its own prefix (',' < ']').     *)
(***************************************************************************)
PathLess(p, q) ==
  \/ \E i \in DOMAIN p \cap DOMAIN q :
       /\ \A j \in 1..(i - 1) : p[j] = q[j]
       /\ Text(g, p[i]) < Text(g, q[i])
  \/ Len(q) < Len(p) /\ \A j \in DOMAIN q : p[j] = q[j]

\* Mutant of Interned: a record that is still queued does not match
InternedIfExplored(id) == table[id] # Nil /\ table[id].status # "queued"

\* The bucket scan: a record with these canonical bytes exists
Interned(id) == table[id] # Nil

\* Mutant of NewRecord: the record is not entered as queued
NewRecordUnqueued(state, path, depth) ==
  [rep |-> state, path |-> path, dmin |-> depth, dmax |-> depth, status |-> "unknown"]

NewRecord(state, path, depth) ==
  [rep |-> state, path |-> path, dmin |-> depth, dmax |-> depth, status |-> "queued"]

\* Mutant of Rediscovered: the last discovery sets the minimum depth
RediscoveredLast(record, path, depth) ==
  [record EXCEPT !.dmin = depth, !.dmax = Greatest(@, depth)]

Rediscovered(record, path, depth) ==
  [ rep    |-> record.rep,
    path   |-> IF PathLess(path, record.path) THEN path ELSE record.path,
    dmin   |-> Least(record.dmin, depth),
    dmax   |-> Greatest(record.dmax, depth),
    status |-> record.status ]

WithStatus(record, status) ==
  [ rep |-> record.rep, path |-> record.path, dmin |-> record.dmin,
    dmax |-> record.dmax, status |-> status ]


\* Mutant of ChildPath: the new action is put in front
ChildPathPrepended(act) == IF cur = Nil THEN <<act>> ELSE <<act>> \o cur.path

\* The path of a child of the item being expanded
ChildPath(act) == IF cur = Nil THEN <<act>> ELSE Append(cur.path, act)

\* add_state for the next ranked child (or initial state)
AddState ==
  /\ phase = "expanding"
  /\ pending # <<>>
  /\ LET child == Head(pending)
         id    == Canon(g, child.st)
         path  == ChildPath(child.act)
         prev  == IF cur = Nil THEN Nil ELSE table[cur.id].rep
         depth == IF cur = Nil THEN 0 ELSE table[cur.id].dmin + 1
     IN  IF Interned(id)
         THEN /\ table' = [table EXCEPT ![id] = Rediscovered(@, path, depth)]
              /\ UNCHANGED queue
         ELSE /\ table' = [table EXCEPT ![id] = NewRecord(child.st, path, depth)]
              /\ queue' = Append(queue, [id |-> id, path |-> path, prev |-> prev])
  /\ pending' = Tail(pending)
  /\ UNCHANGED <<g, phase, cur, terminals, complete, built, disk, stops, crashes>>

-----------------------------------------------------------------------------
(***************************************************************************)
(* The loop of CanonicalSearchEngine.run.                                  *)
(***************************************************************************)
\* Mutant of BudgetExhausted: the work budget may be used up before the loop
\* notices
BudgetExhaustedLate == Cardinality(Known) > NodeBudget(g) \/ built > WorkBudget(g)

BudgetExhausted == Cardinality(Known) > NodeBudget(g) \/ built >= WorkBudget(g)

\* A run without resume_from: the grammar's initial states are added first.
\* Only one run of a search is followed, so a checkpoint is resumed if it
\* exists.
Start ==
  /\ phase \in {"idle", "crashed"}
  /\ disk = Nil
  /\ phase' = "expanding"
  /\ pending' = InitialStates(g)
  /\ built' = Len(InitialStates(g))
  /\ UNCHANGED <<g, table, queue, cur, terminals, complete, disk, stops, crashes>>

\* One iteration: skip an expanded record, record a terminal, or start to
\* expand (dependency filter, POR, construction, ranking)
Pop ==
  /\ phase = "loop"
  /\ queue # <<>>
  /\ ~BudgetExhausted
  /\ queue' = Tail(queue)
  /\ LET work   == Head(queue)
         record == table[work.id]
     IN  \/ /\ record.status # "expanded" => record.rep \in TerminalStates(g)
            /\ IF record.status = "expanded"
               THEN UNCHANGED <<table, terminals>>
               ELSE /\ table' = [table EXCEPT ![work.id] = WithStatus(@, "terminal")]
                    /\ terminals' = terminals \cup {work.id}
            /\ UNCHANGED <<phase, cur, pending, built>>
         \/ /\ record.status # "expanded"
            /\ record.rep \notin TerminalStates(g)
            /\ \E por \in PorChoices(EnabledActions(g, record.rep)) :
               \E order \in Ranked(ViableActions(work, por)) :
                 pending' = [i \in DOMAIN order |->
                               [act |-> order[i], st |-> Apply(record.rep, order[i])]]
            /\ built' = built + IF Native(g)
                                THEN Len(pending')
                                ELSE Cardinality({a \in EnabledActions(g, record.rep) :
                                                    Apply(record.rep, a) # Nil})
            /\ cur' = work
            /\ phase' = "expanding"
            /\ UNCHANGED <<table, terminals>>
  /\ UNCHANGED <<g, complete, disk, stops, crashes>>

\* The last child was added: the record becomes "expanded" (the initial
\* states have no parent record)
EndExpansion ==
  /\ phase = "expanding"
  /\ pending = <<>>
  /\ phase' = "loop"
  /\ cur' = Nil
  /\ table' = IF cur = Nil THEN table ELSE [table EXCEPT ![cur.id] = WithStatus(@, "expanded")]
  /\ UNCHANGED <<g, queue, pending, terminals, complete, built, disk, stops, crashes>>

\* Mutant of StopAtBudget: the loop is not left
BudgetIgnored ==
  /\ phase = "loop"
  /\ queue # <<>>
  /\ BudgetExhausted
  /\ complete' = FALSE
  /\ UNCHANGED <<g, phase, table, queue, cur, pending, terminals, built, disk,
                 stops, crashes>>

\* The node or work budget is reached: the result is incomplete
StopAtBudget ==
  /\ phase = "loop"
  /\ queue # <<>>
  /\ BudgetExhausted
  /\ complete' = FALSE
  /\ phase' = "result"
  /\ UNCHANGED <<g, table, queue, cur, pending, terminals, built, disk, stops, crashes>>

\* The time budget is over, or identity records alone exceed the memory
\* ceiling (summaries are dropped first; no record refers to them)
StopAtLimit ==
  /\ phase = "loop"
  /\ queue # <<>>
  /\ stops < MaxStops(g)
  /\ stops' = stops + 1
  /\ complete' = FALSE
  /\ phase' = "result"
  /\ UNCHANGED <<g, table, queue, cur, pending, terminals, built, disk, crashes>>

Finish ==
  /\ phase = "loop"
  /\ queue = <<>>
  /\ phase' = "result"
  /\ UNCHANGED <<g, table, queue, cur, pending, terminals, complete, built,
                 disk, stops, crashes>>

-----------------------------------------------------------------------------
(***************************************************************************)
(* ProductionCheckpointStore: save writes a temporary file and renames it; *)
(* load checks the identity and rematerializes every state.                *)
(***************************************************************************)
ClearMemory ==
  /\ table' = EmptyTable
  /\ queue' = <<>>
  /\ cur' = Nil
  /\ pending' = <<>>
  /\ terminals' = {}
  /\ complete' = TRUE
  /\ built' = 0

\* The checkpoint payload: every record, the terminals and the counters
Checkpoint == [table |-> table, terminals |-> terminals, built |-> built]

Save ==
  /\ phase = "result"
  /\ disk' = IF SaveOnCompletion \/ ~complete THEN Checkpoint ELSE disk
  /\ phase' = IF complete THEN "done" ELSE "stopped"
  /\ UNCHANGED <<g, table, queue, cur, pending, terminals, complete, built,
                 stops, crashes>>

\* The process dies: everything but the renamed checkpoint file is gone
Crash ==
  /\ phase \in {"expanding", "loop", "result"}
  /\ crashes < MaxCrashes(g)
  /\ crashes' = crashes + 1
  /\ phase' = "crashed"
  /\ ClearMemory
  /\ UNCHANGED <<g, disk, stops>>

\* _replay_path_states: the states along a checkpointed path
InitialWith(act) ==
  LET matches == {i \in DOMAIN InitialStates(g) : InitialStates(g)[i].act = act}
  IN  IF matches = {} THEN Nil
      ELSE InitialStates(g)[CHOOSE i \in matches : \A j \in matches : i <= j].st

Replay(path) ==
  LET at[i \in 1..Len(path)] ==
        IF i = 1 THEN InitialWith(path[1]) ELSE Apply(at[i - 1], path[i])
  IN  at

\* The run raises ValueError when a frontier path cannot be replayed
Replayable(path) == Native(g) /\ Replay(path)[Len(path)] # Nil

\* The state before the last action of a path; the root has none
ReplayedParent(path) ==
  LET states == {s \in States : Len(path) > 1 /\ s = Replay(path)[Len(path) - 1]}
  IN  IF states = {} THEN Nil ELSE CHOOSE s \in states : TRUE

RestoredItem(id, path) ==
  [id |-> id, path |-> path, prev |-> ReplayedParent(path)]

\* The records of a checkpoint whose exploration_status is "queued"
Unexplored(saved) == {id \in Ids : saved[id] # Nil /\ saved[id].status = "queued"}

\* A run with resume_from: the frontier is rebuilt from the records that are
\* still "queued", in the order of their state ids, which are digests
Resume ==
  /\ phase \in {"stopped", "crashed"}
  /\ disk # Nil
  /\ LET frontier == Unexplored(disk.table)
     IN  IF \A id \in frontier : Replayable(disk.table[id].path)
         THEN /\ \E order \in Orderings(frontier) :
                   queue' = [i \in DOMAIN order |->
                               RestoredItem(order[i], disk.table[order[i]].path)]
              /\ table' = disk.table
              /\ terminals' = disk.terminals
              /\ built' = disk.built
              /\ complete' = TRUE
              /\ phase' = "loop"
              /\ UNCHANGED <<cur, pending>>
         ELSE /\ phase' = "failed"
              /\ ClearMemory
  /\ UNCHANGED <<g, disk, stops, crashes>>

\* Nothing follows a complete search or a rejected checkpoint
Ended == phase \in {"done", "failed"} /\ UNCHANGED vars

-----------------------------------------------------------------------------
Init ==
  /\ g \in Grammars
  /\ phase = "idle"
  /\ table = EmptyTable
  /\ queue = <<>>
  /\ cur = Nil
  /\ pending = <<>>
  /\ terminals = {}
  /\ complete = TRUE
  /\ built = 0
  /\ disk = Nil
  /\ stops = 0
  /\ crashes = 0

Engine == Start \/ AddState \/ EndExpansion \/ Pop \/ StopAtBudget \/ Finish \/ Save

Next == Engine \/ StopAtLimit \/ Crash \/ Resume \/ Ended

\* The loop runs as long as the process lives; nobody owes it a resume
Spec == Init /\ [][Next]_vars /\ WF_vars(Engine)

-----------------------------------------------------------------------------
(***************************************************************************)
(* Properties.                                                             *)
(***************************************************************************)
\* Every variable has the shape the Python objects have.
TypeOK ==
  /\ g \in Grammars
  /\ phase \in Phases
  /\ table \in Tables
  /\ queue \in Seq(WorkItems)
  /\ cur \in WorkItems \cup {Nil}
  /\ pending \in Seq([act : Actions, st : States])
  /\ terminals \in SUBSET Ids
  /\ complete \in BOOLEAN
  /\ built \in Nat
  /\ disk \in Checkpoints \cup {Nil}
  /\ stops \in Nat
  /\ crashes \in Nat

\* The records whose descendants are still owed are exactly the ones in the
\* deque (plus the one in hand), each exactly once: no canonical state is
\* explored twice and none is forgotten, across stops, crashes and resumes.
QueuedIds == {id \in Known : table[id].status = "queued"}

FrontierOwned ==
  /\ \A i, j \in DOMAIN queue : queue[i].id = queue[j].id => i = j
  /\ QueuedIds = {queue[i].id : i \in DOMAIN queue}
                   \cup (IF cur = Nil THEN {} ELSE {cur.id})
  /\ cur # Nil => \A i \in DOMAIN queue : queue[i].id # cur.id

\* The states some sequence of applicable actions reaches from the roots:
\* the least set that contains the roots and the successors of its members.
ClosedUnderActions(S) ==
  /\ \A i \in DOMAIN InitialStates(g) : InitialStates(g)[i].st \in S
  /\ \A s \in S, a \in Actions : Apply(s, a) # Nil => Apply(s, a) \in S

Reachable == {s \in States : \A S \in SUBSET States : ClosedUnderActions(S) => s \in S}

\* No action declares a requirement or a conflict.
Unconstrained(gr) ==
  \A a \in Actions : Footprint(gr, a).requires = {} /\ Footprint(gr, a).conflicts = {}

\* A search that reports complete = True found exactly the canonical
\* terminals that action sequences reach, whatever the sibling order, the
\* POR choices, and the stops, crashes and resumes on the way
\* (compare_terminal_sets in the qualification scripts).  Declared requirements
\* are left to the dependency filter, which looks at histories.
TerminalsExact ==
  phase \in {"result", "done"} /\ complete /\ Unconstrained(g) =>
    terminals = {Canon(g, s) : s \in Reachable \cap TerminalStates(g)}

\* The actions that some action requires or conflicts with, and whether an
\* action may follow a history in which these of them were taken.
Declared(gr) == UNION {Footprint(gr, a).requires \cup Footprint(gr, a).conflicts : a \in Actions}

Permitted(a, taken) ==
  /\ Footprint(g, a).requires \subseteq taken
  /\ Footprint(g, a).conflicts \cap taken = {}

\* Where histories of permitted actions lead: pairs of a state and the declared
\* actions taken.  Between two of those no identity need come back, which
\* bounds the length of the histories to look at.
LegalRoots ==
  {<<InitialStates(g)[i].st, {InitialStates(g)[i].act} \cap Declared(g)>> :
     i \in DOMAIN InitialStates(g)}

LegalSteps(p) ==
  {<<Apply(p[1], a), p[2] \cup ({a} \cap Declared(g))>> :
     a \in {b \in Actions : Apply(p[1], b) # Nil /\ Permitted(b, p[2])}}

LegalBound == Cardinality(Ids) * (Cardinality(Declared(g)) + 1)

LegalWithin ==
  LET within[n \in 0..LegalBound] ==
        IF n = 0 THEN LegalRoots
        ELSE LET before == within[n - 1]
             IN  before \cup UNION {LegalSteps(p) : p \in before}
  IN  within

LegallyReachable == {p[1] : p \in LegalWithin[LegalBound]}

\* With declared requirements and conflicts, a complete search finds every
\* terminal that a history of permitted actions reaches, and no other, although
\* _dependency_blocked looks at the path of first discovery only.
DependencyTerminalsExact ==
  phase \in {"result", "done"} /\ complete =>
    terminals = {Canon(g, s) : s \in LegallyReachable \cap TerminalStates(g)}

\* The searches in which POR can leave something out
Reduces(gr) == PorPolicy(gr) # "off" /\ Native(gr)

\* The canonical states that n actions or fewer reach
Successors(s) == {Apply(s, a) : a \in Actions} \ {Nil}

WithinActions(n) ==
  LET upTo[k \in 0..n] ==
        IF k = 0 THEN {InitialStates(g)[i].st : i \in DOMAIN InitialStates(g)}
        ELSE LET before == upTo[k - 1]
             IN  before \cup UNION {Successors(s) : s \in before}
  IN  {Canon(g, s) : s \in upTo[n]}

\* When a search is complete, depth_minimum of a record is the least number
\* of actions that reaches its canonical state: POR only reorders, and the
\* deque makes the search breadth-first.  A resume sorts the deque by digest:
\* after one stop the depths still come out right, unless POR, which relies on
\* the path of first discovery, leaves out a successor of a record whose depth
\* was lowered since.
DepthIsDistance ==
  /\ phase = "done" /\ complete /\ Unconstrained(g)
  /\ stops = 0 \/ (stops = 1 /\ ~Reduces(g))
  => \A id \in Known :
       /\ id \in WithinActions(table[id].dmin)
       /\ table[id].dmin > 0 => id \notin WithinActions(table[id].dmin - 1)

\* A checkpointed frontier can always be resumed: a ValueError of
\* _replay_path_states never meets a checkpoint the engine wrote itself.
ResumeAccepted == Native(g) => phase # "failed"

\* A first discovery path leads to its record: replaying it from the roots
\* ends in a state with the record's canonical identity.
PathLeadsTo(path, id) ==
  /\ path # <<>>
  /\ LET s == Replay(path)[Len(path)] IN s # Nil /\ Canon(g, s) = id

PathsLead == \A id \in Known : PathLeadsTo(table[id].path, id)

\* A checkpoint that was stopped by the node or work budget is spent for
\* good: the counters come back with it, so no resume under the same budgets
\* turns it into a complete search.
Spent(checkpoint) ==
  /\ \/ checkpoint.built >= WorkBudget(g)
     \/ Cardinality({id \in Ids : checkpoint.table[id] # Nil}) > NodeBudget(g)
  /\ \E id \in Ids : checkpoint.table[id] # Nil /\ checkpoint.table[id].status = "queued"

BudgetSpentForGood ==
  disk # Nil /\ Spent(disk) => ~(phase \in {"result", "done"} /\ complete)

\* A run that starts ends: the loop visits each canonical state once.
RunEnds ==
  phase \in {"loop", "expanding", "result"}
    ~> phase \in {"stopped", "done", "crashed"}

=============================================================================
