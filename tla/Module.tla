------------------------------- MODULE Module -------------------------------
(***************************************************************************)
(* One EK-KOR v2 Module driving the Field Engine                           *)
(* (ek-kor2/rust/src/module.rs over ek-kor-public/rust/src/field.rs).      *)
(*                                                                         *)
(* The module owns its field, its task table and its lifecycle state, and  *)
(* runs the eight-step tick.  tick takes &mut self and &mut FieldRegion,   *)
(* so a tick is one atomic step; start, stop, add_task, task_ready,        *)
(* task_block and update_field are the other calls on the module.  The     *)
(* peers are the environment: they publish into the shared region, the gc  *)
(* owner reclaims slots, and the clock advances.                           *)
(*                                                                         *)
(* Heartbeat, Topology and Consensus are not part of this source tree;     *)
(* their effect on a tick is modelled from the specification as a choice:  *)
(* the heartbeat may change the health of any listed neighbour and those   *)
(* found Dead are dropped (step 1), and the topology tick may drop listed  *)
(* neighbours or discover new ones with Unknown health (step 5).           *)
(* Consensus (step 4) changes nothing the module reads and is left out.    *)
(*                                                                         *)
(* Data abstraction: my_field and neighbor_aggregate keep the Load         *)
(* component; the aggregate is read only to form the gradient in the same  *)
(* tick and is folded into it.  A task keeps its state, priority and       *)
(* period; next_run, run_count and total_runtime are written and never     *)
(* read by the module and are left out.                                    *)
(***************************************************************************)
EXTENDS FieldEngine, SequencesExt

CONSTANTS
  Self,         \* this module's id
  Peers,        \* ids of the modules that can become its neighbours
  K_NEIGHBORS,  \* K_NEIGHBORS (7 in types.rs)
  TaskPlan,     \* the add_task calls the application makes, in order
  MyLoads       \* Load values update_field is called with

ASSUME Self \in Ids /\ Peers \subseteq Ids \ {Self}
ASSUME Cardinality(Peers) <= K_NEIGHBORS

MAX_TASKS_PER_MODULE == 8

ModuleState ==
  {"Init", "Discovering", "Active", "Degraded", "Isolated", "Reforming", "Shutdown"}
TaskState == {"Idle", "Ready", "Running", "Blocked"}

\* A neighbour slot: not in the topology list, or listed with a health.
Status == Health \cup {"Absent"}

VARIABLES
  state,     \* Module.state
  myLoad,    \* Module.my_field (Load)
  gradient,  \* Module.gradients[Load]
  tasks,     \* Module.tasks, index i holds task id i-1
  nbrs,      \* Topology.neighbors() as peer id -> status
  ran        \* history: the task index step 6 ran in the last tick, 0 for none

(* The Module struct, abstracted to the fields the tick loop and task    *)
(* scheduler read and write.                                              *)
vars == <<state, myLoad, gradient, tasks, nbrs, ran, region, updateFlags>>

Task == [priority : 0..255, period : Nat, st : TaskState]

----------------------------------------------------------------------------
Listed(n) == {p \in Peers : n[p] # "Absent"}

\* topology.neighbor_count()
NeighborCount(n) == Cardinality(Listed(n))

\* The neighbour slice handed to sample_neighbors.
NeighborList(n) == [p \in Listed(n) |-> n[p]]

(* Step 1 (spec-modelled): heartbeat.tick may move any listed neighbour to *)
(* Alive, Suspect or Dead; the Dead ones are collected and then dropped    *)
(* from the topology.                                                      *)
HeartbeatOutcomes(n) ==
  {h \in [Peers -> Status] :
     \A p \in Peers : IF n[p] = "Absent" THEN h[p] = "Absent"
                      ELSE h[p] \in {n[p], "Alive", "Suspect", "Absent"}}

(* Step 5 (spec-modelled): topology.tick may lose listed neighbours and    *)
(* discover new ones, never holding more than K_NEIGHBORS.                 *)
TopologyOutcomes(n) ==
  {t \in [Peers -> Status] :
     /\ \A p \in Peers : IF n[p] = "Absent" THEN t[p] \in {"Absent", "Unknown"}
                         ELSE t[p] \in {n[p], "Absent"}
     /\ NeighborCount(t) <= K_NEIGHBORS}

----------------------------------------------------------------------------
(* select_task.  The backpressure cut-off is Fixed::from_num(-0.2).       *)
IdleThreshold == -FromRatio(1, 5)

(* (task.priority as i8 + priority_boost).max(0) as u8 with boost 0: a    *)
(* priority of 128 or more is negative as i8 and clamps to 0.              *)
EffectivePriority(p) == IF p >= 128 THEN 0 ELSE p

(* Mutant: the running best is replaced on an equal priority too.         *)
SelectTask_ReplacesOnTie(ts, g) ==
  IF g < IdleThreshold THEN 0
  ELSE FoldLeftDomain(
         LAMBDA best, i :
           IF /\ ts[i].st = "Ready"
              /\ \/ best = 0
                 \/ EffectivePriority(ts[i].priority)
                      <= EffectivePriority(ts[best].priority)
           THEN i ELSE best,
         0, ts)

(* The scan over the task table in registration order, keeping the first  *)
(* Ready task of strictly lowest effective priority; 0 is None.            *)
SelectTask(ts, g) ==
  IF g < IdleThreshold THEN 0
  ELSE FoldLeftDomain(
         LAMBDA best, i :
           IF /\ ts[i].st = "Ready"
              /\ \/ best = 0
                 \/ EffectivePriority(ts[i].priority)
                      < EffectivePriority(ts[best].priority)
           THEN i ELSE best,
         0, ts)

(* run_task: Running, the callable, then re-armed Ready if periodic and    *)
(* retired to Idle otherwise; the table is unchanged when nothing ran.     *)
RunTask(ts, i) ==
  IF i = 0 THEN ts
  ELSE [ts EXCEPT ![i].st = IF ts[i].period > 0 THEN "Ready" ELSE "Idle"]

(* Mutant: the Degraded -> Active arm needs more than half the neighbours. *)
UpdateStateFromTopology_OffByOne(s, count) ==
  CASE s = "Discovering" /\ count >= K_NEIGHBORS \div 2 -> "Active"
    [] s = "Active" /\ count = 0                        -> "Isolated"
    [] s = "Active" /\ count # 0 /\ count < K_NEIGHBORS \div 2 -> "Degraded"
    [] s = "Degraded" /\ count > K_NEIGHBORS \div 2     -> "Active"
    [] s = "Isolated" /\ count > 0                      -> "Reforming"
    [] s = "Reforming" /\ count >= K_NEIGHBORS \div 2   -> "Active"
    [] OTHER                                            -> s

(* Mutant: the Isolated -> Reforming arm is missing.                      *)
UpdateStateFromTopology_NoReforming(s, count) ==
  CASE s = "Discovering" /\ count >= K_NEIGHBORS \div 2 -> "Active"
    [] s = "Active" /\ count = 0                        -> "Isolated"
    [] s = "Active" /\ count # 0 /\ count < K_NEIGHBORS \div 2 -> "Degraded"
    [] s = "Degraded" /\ count >= K_NEIGHBORS \div 2    -> "Active"
    [] s = "Reforming" /\ count >= K_NEIGHBORS \div 2   -> "Active"
    [] OTHER                                            -> s

(* update_state_from_topology: the match arms in order (the Active arms   *)
(* are made exclusive as the first-match rule makes them).                 *)
UpdateStateFromTopology(s, count) ==
  CASE s = "Discovering" /\ count >= K_NEIGHBORS \div 2 -> "Active"
    [] s = "Active" /\ count = 0                        -> "Isolated"
    [] s = "Active" /\ count # 0 /\ count < K_NEIGHBORS \div 2 -> "Degraded"
    [] s = "Degraded" /\ count >= K_NEIGHBORS \div 2    -> "Active"
    [] s = "Isolated" /\ count > 0                      -> "Reforming"
    [] s = "Reforming" /\ count >= K_NEIGHBORS \div 2   -> "Active"
    [] OTHER                                            -> s

----------------------------------------------------------------------------
\* Module::new
Init ==
  /\ FEInit
  /\ state = "Init"
  /\ myLoad = 0
  /\ gradient = 0
  /\ tasks = <<>>
  /\ nbrs = [p \in Peers |-> "Absent"]
  /\ ran = 0

(* Mutant: start does not check that the module is in Init.             *)
Start_AnyState ==
  /\ state' = "Discovering"
  /\ UNCHANGED <<myLoad, gradient, tasks, nbrs, ran, region, updateFlags>>

\* start: Init -> Discovering, otherwise InvalidArg and no change.
Start ==
  /\ state = "Init"
  /\ state' = "Discovering"
  /\ UNCHANGED <<myLoad, gradient, tasks, nbrs, ran, region, updateFlags>>

\* stop: unconditional.
Stop ==
  /\ state' = "Shutdown"
  /\ UNCHANGED <<myLoad, gradient, tasks, nbrs, ran, region, updateFlags>>

(* tick: the eight steps in order.  Step 7's `?` returns early when        *)
(* publish fails, after steps 1-6 have taken effect and before step 8.     *)
Tick ==
  \E n1 \in HeartbeatOutcomes(nbrs) : \E n2 \in TopologyOutcomes(n1) :
    LET g   == Gradient(myLoad, SampleNeighbors(NeighborList(n1)))
        sel == SelectTask(tasks, g)
    IN  /\ nbrs' = n2
        /\ gradient' = g
        /\ ran' = sel
        /\ tasks' = RunTask(tasks, sel)
        /\ IF PublishAccepted(Self)
           THEN /\ Publish(Self, myLoad)
                /\ state' = UpdateStateFromTopology(state, NeighborCount(n2))
           ELSE UNCHANGED <<region, updateFlags, state>>
        /\ UNCHANGED myLoad

\* add_task: NoMemory at capacity, else the next dense id, Ready.
AddTask ==
  /\ Len(tasks) < Len(TaskPlan)
  /\ Len(tasks) < MAX_TASKS_PER_MODULE
  /\ tasks' = Append(tasks, [TaskPlan[Len(tasks) + 1] EXCEPT !.st = "Ready"])
  /\ UNCHANGED <<state, myLoad, gradient, nbrs, ran, region, updateFlags>>

\* task_ready / task_block: NotFound (no change) for an unknown id.
TaskReady(i) ==
  /\ tasks' = [tasks EXCEPT ![i].st = "Ready"]
  /\ UNCHANGED <<state, myLoad, gradient, nbrs, ran, region, updateFlags>>

TaskBlock(i) ==
  /\ tasks' = [tasks EXCEPT ![i].st = "Blocked"]
  /\ UNCHANGED <<state, myLoad, gradient, nbrs, ran, region, updateFlags>>

\* update_field: sets the module's own Load.
UpdateField(v) ==
  /\ myLoad' = v
  /\ UNCHANGED <<state, gradient, tasks, nbrs, ran, region, updateFlags>>

\* The rest of the cluster: peers publish, the gc owner runs, time passes.
Environment ==
  /\ \/ \E p \in Peers, v \in Loads : Publish(p, v)
     \/ \E a \in GcAges : Gc(a)
     \/ AdvanceClock
  /\ UNCHANGED <<state, myLoad, gradient, tasks, nbrs, ran>>

Next ==
  \/ Start
  \/ Stop
  \/ Tick
  \/ AddTask
  \/ \E i \in DOMAIN tasks : TaskReady(i) \/ TaskBlock(i)
  \/ \E v \in MyLoads : UpdateField(v)
  \/ Environment

\* The tick is driven by a periodic timer (spec section 5): weakly fair.
Spec == Init /\ [][Next]_vars /\ WF_vars(Tick)

----------------------------------------------------------------------------
(* After every tick the lifecycle state agrees with the neighbour count    *)
(* the topology left (update_state_from_topology runs after topology.tick *)
(* in the same tick): Active has at least K/2 neighbours, Degraded fewer,  *)
(* Isolated none.                                                          *)
LifecycleMatchesNeighbourhood ==
  LET k == NeighborCount(nbrs) IN
  /\ state = "Active"   => k >= K_NEIGHBORS \div 2
  /\ state = "Degraded" => k < K_NEIGHBORS \div 2
  /\ state = "Isolated" => k = 0

(* The task a tick runs is the one the selection policy names: none when   *)
(* the Load gradient is below -0.2, otherwise the Ready task with the      *)
(* lowest priority number, the earliest registered among equals.           *)
PolicyChoice(ts, g) ==
  LET R == {i \in DOMAIN ts : ts[i].st = "Ready"}
      Best == {i \in R : \A j \in R : ts[i].priority <= ts[j].priority}
  IN  IF g < IdleThreshold \/ R = {} THEN 0 ELSE Min(Best)

SelectionFollowsPriority ==
  [][Tick => ran' = PolicyChoice(tasks, gradient')]_vars

(* A module whose neighbourhood eventually stays at K/2 or more reaches    *)
(* Active and stays there, unless it was never started or was stopped.    *)
StableNeighbourhoodReachesActive ==
  (<>[](NeighborCount(nbrs) >= K_NEIGHBORS \div 2))
    => <>[](state \in {"Active", "Init", "Shutdown"})

(* The lifecycle has one way in and no way out: a module leaves Init only *)
(* for Discovering (start) or Shutdown (stop), and once stopped no start, *)
(* tick or topology change brings it back (start refuses every state but *)
(* Init, and update_state_from_topology has no arm for Shutdown).         *)
LifecycleEnds ==
  [][/\ state = "Init" => state' \in {"Init", "Discovering", "Shutdown"}
     /\ state = "Shutdown" => state' = "Shutdown"]_state
=============================================================================
