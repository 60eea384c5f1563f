----------------------------- MODULE SearchFilter -----------------------------
(***************************************************************************)
(* What the filter of a searchable list is to its user: one value, of      *)
(* which a click changes one key and the page and nothing else, "all at    *)
(* once" (raceselect.js), whether it is read off the URL, the widgets or   *)
(* the parameters; and a URL that is visited is the filter.                *)
(***************************************************************************)
EXTENDS Naturals

CONSTANTS
  Any,      \* the default of every key
  Races,    \* what the race widget offers
  Columns,  \* the columns by which players can be sorted
  Links     \* the URLs the user visits, by list

VARIABLES
  list,    \* the list that is on the page
  filter,  \* what it is filtered by
  sorted   \* what it was sorted by last: a direction and a column

search == <<list, filter, sorted>>

Init ==
  /\ list \in {"matches", "players"}
  /\ filter \in Links[list]
  /\ sorted = filter.order

(* Choosing the chosen race again takes the choice back. *)
SelectRace(race) ==
  /\ filter' = [filter EXCEPT !.race = IF @ = race THEN Any ELSE race, !.page = 1]
  /\ UNCHANGED <<list, sorted>>

(* Of the two sides, the one clicked has to have won, or neither. *)
ToggleWinner(side) ==
  /\ list = "matches"
  /\ LET toggled(k) == IF k = side /\ filter[k] = Any THEN "true" ELSE Any
     IN filter' = [filter EXCEPT !.one_wins = toggled("one_wins"),
                                 !.two_wins = toggled("two_wins"), !.page = 1]
  /\ UNCHANGED <<list, sorted>>

(* Another column starts over, descending; the same one turns round. *)
Order(column) ==
  /\ list = "players"
  /\ sorted' = IF sorted = <<"_", column>> THEN <<"-", column>> ELSE <<"_", column>>
  /\ filter' = [filter EXCEPT !.order = sorted', !.page = Any]
  /\ UNCHANGED list

TurnPage ==
  /\ filter'.page \in Nat \ {0}
  /\ filter' = [filter EXCEPT !.page = filter'.page]
  /\ UNCHANGED <<list, sorted>>

Visit ==
  /\ filter' \in Links[list]
  /\ sorted' = IF filter'.order = Any THEN sorted ELSE filter'.order
  /\ UNCHANGED list

Next ==
  \/ \E race \in Races : SelectRace(race)
  \/ \E side \in {"one_wins", "two_wins"} : ToggleWinner(side)
  \/ \E column \in Columns : Order(column)
  \/ TurnPage \/ Visit

Spec == Init /\ [][Next]_search
===============================================================================
