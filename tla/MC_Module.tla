----------------------------- MODULE MC_Module -----------------------------
(* Model-checking instance of Module: three peers so that K_NEIGHBORS = 7  *)
(* gives the code's threshold of 3, tau of one clock unit, peers that      *)
(* publish Load 1.0, and three registrations: two one-shot tasks of equal  *)
(* priority and a periodic task of higher priority.                        *)
EXTENDS Module

MCPeers == {2, 3, 4}
MCTaskPlan == << [priority |-> 1, period |-> 0, st |-> "Idle"],
                 [priority |-> 1, period |-> 0, st |-> "Idle"],
                 [priority |-> 0, period |-> 1, st |-> "Idle"] >>
\* the task registered with priority 200 (>= 128, negative as i8)
MCTaskPlanHighNumber == << [priority |-> 1, period |-> 0, st |-> "Idle"],
                           [priority |-> 200, period |-> 0, st |-> "Idle"] >>
MCMyLoads == {0, 256}
MCNoTasks == << >>

(* The module's own slot is written by Publish and aged and reclaimed by   *)
(* the environment, and read by nothing this module does; the view leaves *)
(* it out so that its age does not multiply the states.                    *)
MCView == <<state, myLoad, gradient, tasks, nbrs, ran,
            [p \in Peers |-> region[p]], updateFlags>>
=============================================================================
