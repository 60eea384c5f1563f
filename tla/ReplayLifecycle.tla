--------------------------- MODULE ReplayLifecycle ---------------------------
(***************************************************************************)
(* The life of a replay as the state machine in app/models/replay.rb       *)
(* declares it: a replay is created uploading, is handed over to ESDB and  *)
(* processed, and ends done or failed.  A replay that reached its end      *)
(* stays there.  This is what a reader of the model, and the browser code  *)
(* that waits for a final state, takes the "state" column to do.           *)
(***************************************************************************)
CONSTANT Replays

VARIABLE state      \* the state column; "absent" before the row exists

States == {"uploading", "processing", "done", "failed"}

Final == {"done", "failed"}

TypeOK == state \in [Replays -> States \cup {"absent"}]

Init == state = [r \in Replays |-> "absent"]

(* A transition of one replay along an edge of the declared machine. *)
Move(r, from, to) ==
  /\ state[r] \in from
  /\ state' = [state EXCEPT ![r] = to]

Create(r)    == Move(r, {"absent"}, "uploading")
uploaded(r)  == Move(r, {"uploading"}, "processing")
processed(r) == Move(r, {"processing"}, "done")
failure(r)   == Move(r, {"uploading", "processing"}, "failed")

Next == \E r \in Replays : Create(r) \/ uploaded(r) \/ processed(r) \/ failure(r)

Spec == Init /\ [][Next]_state
==============================================================================
