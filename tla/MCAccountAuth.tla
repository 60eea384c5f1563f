----------------------------- MODULE MCAccountAuth -----------------------------
(* Constants for the runs of AccountAuth: the four portraits of the code, or  *)
(* two, where requests race.                                                  *)
EXTENDS AccountAuth, TLC

CONSTANTS kachinsky, cade, thatcher, hall, w1, w2

FourPortraits == <<kachinsky, cade, thatcher, hall>>
TwoPortraits  == <<kachinsky, cade>>

Everything == FaultKinds
NoFaults   == {}
RedisDown  == {"redis"}

WorkerSymmetry == Permutations(Workers)
==============================================================================
