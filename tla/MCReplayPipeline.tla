--------------------------- MODULE MCReplayPipeline ---------------------------
(* Two files dropped in one request; constants for the runs of ReplayPipeline. *)
EXTENDS ReplayPipeline, TLC

CONSTANTS r1, r2, h1, h2, drop

OneFile  == [u \in Uploads |-> <<r1>>]
TwoFiles == [u \in Uploads |-> <<r1, r2>>]

Everything == FaultKinds
LateCalls  == FaultKinds \ {"early", "rerun"}
RepeatOnly == {"repeat"}
NoFaults   == {}
RedisOnly  == {"redis"}
EarlyOnly  == {"early"}


HandlerSymmetry == Permutations(Handlers)
==============================================================================
