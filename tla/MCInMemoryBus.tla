----------------------------- MODULE MCInMemoryBus -----------------------------
(* Two instances of InMemoryBus: the first step's choice of scenario, made in *)
(* the initial state, says what the application does from then on.            *)
EXTENDS InMemoryBus, TLC

VARIABLE scenario

\* What moves ids: joining, leaving, changing address.
Membership == {"Construct", "Stop", "SetAddress"}

\* Identity: commands whose handlers look transports up after a callback, and
\* everything that moves ids, at top level and in every callback, which may raise.
IdentityOps == Membership \cup {"Broadcast", "Unicast"}

\* Traffic: members join and change address at top level and do not leave;
\* callbacks send data and ask for quality.
TrafficOps == {"Construct", "SetAddress", "Reposition", "Ping", "QualityQuery",
               "StatusQuery", "RemoteVoltageQuery", "Echo", "UnicastWithAck",
               "TestRequest", "Broadcast"}
TrafficNestedOps == {"UnicastWithAck", "TestRequest", "QualityQuery"}

Identity == INSTANCE InMemoryBus WITH
    TopOps <- IdentityOps, NestedOps <- Membership, MayRaise <- TRUE
Traffic == INSTANCE InMemoryBus WITH
    TopOps <- TrafficOps, NestedOps <- TrafficNestedOps, MayRaise <- FALSE

AllOps == IdentityOps \cup TrafficOps

MCInit == Init /\ scenario \in {"identity", "traffic"}
MCNext ==
    \/ scenario = "identity" /\ Identity!Next /\ UNCHANGED scenario
    \/ scenario = "traffic" /\ Traffic!Next /\ UNCHANGED scenario
MCSpec == MCInit /\ [][MCNext]_<<vars, scenario>>

Symmetry == Permutations(Transport) \cup Permutations(Id)
================================================================================
