----------------------------- MODULE MC_SwarmApi -----------------------------
(* Instances of SwarmApi: the deployments of docker-compose.yml (rosbridge,    *)
(* runs in memory) and of flyio/swarmsim-api.fly.toml (simulated, runs in      *)
(* files), each several times with bounds of its own, so that what is          *)
(* independent is not multiplied.                                              *)
EXTENDS SwarmApi

CONSTANTS d1, d2

MCDrones == {d1, d2}
Same == [m \in Missions |-> {d1}]
Both == [m \in Missions |-> {d1, d2}]

Compose(ros, crews, writes, runs, ends, drops_) ==
    [bridge |-> "RosBridge", store |-> "InMemory", ros |-> ros, crew |-> crews,
     writes |-> writes, runs |-> runs, restarts |-> ends, drops |-> drops_]
Fly(writes, runs, ends) ==
    [bridge |-> "Simulated", store |-> "File", ros |-> FALSE, crew |-> Same,
     writes |-> writes, runs |-> runs, restarts |-> ends, drops |-> 0]

MCDeployments ==
    {Compose(TRUE, Same, 2, 0, 0, 0),   \* writes overlap
     Compose(TRUE, Same, 1, 0, 1, 1),   \* the connection and the process end
     Compose(TRUE, Both, 1, 0, 0, 0),   \* two drones fly one mission
     Compose(FALSE, Same, 2, 0, 0, 1),  \* writes overlap and a connection ends
     Compose(FALSE, Same, 3, 0, 0, 0),  \* a log above its capacity
     Compose(FALSE, Same, 0, 3, 1, 0),  \* runs in memory
     Fly(2, 0, 0),                      \* the simulated swarm
     Fly(1, 1, 1),                      \* a write beside a run
     Fly(0, 4, 2)}                      \* runs in files, pushed out and found again

=============================================================================
