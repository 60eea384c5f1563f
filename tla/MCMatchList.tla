------------------------------ MODULE MCMatchList ------------------------------
(* Six matches on three full pages; three of race "Z", the second page not full. *)
EXTENDS MatchList

MCMatches == [r \in {Any, "Z"} |-> IF r = Any THEN 6 ELSE 3]

(* Links without a winner or an order, to any page but the first, and one link *)
(* with every key set, for either list.                                        *)
MCLinks ==
  LET plain == {u \in Urls : u.order = Any /\ {u.one_wins, u.two_wins} = {Any} /\ u.page # 1}
  IN [l \in {"matches", "players"} |-> plain \cup
        {u \in Urls : /\ u.race = "Z" /\ u.page = 2 /\ u.two_wins = Any
                      /\ IF l = "matches" THEN u.order = Any /\ u.one_wins = "true"
                         ELSE u.order = <<"_", "matches_count">> /\ u.one_wins = Any}]
================================================================================
