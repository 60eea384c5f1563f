------------------------------ MODULE MatchList -------------------------------
(***************************************************************************)
(* The searchable lists in the browser: of matches, whose filter can ask   *)
(* which side won, and of players, whose columns can be sorted.  Copies of *)
(* the filter must agree: the widgets (the scope of the directive), the    *)
(* parameters of the $urlFilter service, the query part of the URL, and in *)
(* the end the list on the screen.  Watches of Angular's digest copy each  *)
(* into the next, in a circle; a change of the parameters asks the server  *)
(* for a new list after 300 ms of quiet, and answers are shown as they     *)
(* arrive.                                                                 *)
(*                                                                         *)
(* JavaScript runs one callback at a time: one step of this module is one  *)
(* event (a click, a visited URL, the timer, an answer) with the whole     *)
(* digest that follows it, pass by pass, as Angular runs it.               *)
(***************************************************************************)
EXTENDS Naturals

CONSTANTS
  Any,          \* the default of every key, the empty string
  Null,         \* what a widget holds when its choice is taken back
  Gone,         \* a key deleted from the parameters
  Unseen,       \* what a watch saw last before it ran
  Races,        \* what the race widget offers
  Columns,      \* the columns by which players can be sorted
  Links,        \* the URLs the user visits, by list: bookmarks, links, the history
  Matches,      \* how many matches there are, by race filter
  Limit,        \* how many of them make a page
  MaxEvents     \* bounds the clicks and the visited URLs

(* What a list is sorted by: "_" is descending, "-" is ascending. *)
Orders == {"_", "-"} \X Columns

ASSUME MatchListAssumption ==
  /\ Any \notin {Null, Gone, Unseen} /\ Null \notin {Gone, Unseen} /\ Gone # Unseen
  /\ {Any, Null, Gone, Unseen} \cap (Races \cup {"true"}) = {}
  /\ {Any, Null, Gone, Unseen} \cap Orders = {}
  /\ {Any, Null, Gone, Unseen} \cap Nat = {}
  /\ Matches \in [Races \cup {Any} -> Nat]
  /\ Limit \in Nat \ {0}
  /\ MaxEvents \in Nat

VARIABLES
  list,        \* the list that is on the page, "matches" or "players"
  scope,       \* the widgets: $scope[k] for every key k of the defaults
  params,      \* $urlFilter.params
  url,         \* $location.search()
  sorted,      \* $urlFilter._order, what was sorted by last; Any when nothing was
  settled,     \* whether the last digest came to an end (history)
  timer,       \* whether $scope.refresh_timer is pending
  requests,    \* requests that wait for their answer
  sent,        \* how many requests were sent
  shown,       \* $scope.collection: the answer on the screen
  events,      \* clicks and visited URLs so far
  cause        \* what the last of them was to bring about (history)

filter == <<list, scope, params, url, sorted>>
server == <<requests, sent, shown>>
vars   == <<filter, settled, timer, server, events, cause>>

-------------------------------------------------------------------------------
(* The keys of the defaults; the setter adds order and page. *)
Keys == {"race", "one_wins", "two_wins", "order", "page"}

Winners == {"one_wins", "two_wins"}

(* How many matches come before page p. *)
Before(p) == (p - 1) * Limit

isEmpty(v) == v \in {Any, Null, Gone}

(* What may be in the URL, of a link to the site as of an entry of the history *)
(* (a key that is not there reads as Any).                                     *)
Urls == {u \in [race : Races \cup {Any}, one_wins : {Any, "true"}, two_wins : {Any, "true"},
                order : {Any} \cup Orders, page : {Any} \cup 1 .. Matches[Any]] :
           /\ Any \in {u.one_wins, u.two_wins}
           /\ u.page # Any => Before(u.page) < Matches[u.race]}

(* Only matches have winners, only players an order. *)
ASSUME LinksAssumption ==
  /\ Links \in [{"matches", "players"} -> SUBSET Urls]
  /\ \A u \in Links["matches"] : u.order = Any
  /\ \A u \in Links["players"] : {u.one_wins, u.two_wins} = {Any}

cleanParams(ps) == [k \in Keys |-> IF isEmpty(ps[k]) THEN Any ELSE ps[k]]

-------------------------------------------------------------------------------
(* One pass of a digest over a record d of the filter's state; d.fresh says    *)
(* that $location.search() is another object than at the last pass, d.saw and  *)
(* d.last are the values the watches of the parameters and of the widgets saw  *)
(* last, d.ask that onChange restarted the timer, d.dirty that a watch fired.  *)

(* Mutants: the defaults are not put back for what the URL lacks; the URL is   *)
(* written again, as another object, when it has been read.                    *)
UpdateWithoutDefaults(d) ==
  [d EXCEPT !.params = [k \in Keys |-> IF d.url[k] = Any THEN @[k] ELSE d.url[k]],
            !.sorted = IF d.url.order = Any THEN @ ELSE d.url.order,
            !.fresh = FALSE, !.dirty = TRUE]

UpdateWritingUrl(d) ==
  [d EXCEPT !.params = d.url,
            !.sorted = IF d.url.order = Any THEN @ ELSE d.url.order,
            !.fresh = TRUE, !.dirty = TRUE]

(* $.extend(this.params, this.defaults, params): what the URL lacks is blanked. *)
update(d) == [d EXCEPT !.params = d.url,
                       !.sorted = IF d.url.order = Any THEN @ ELSE d.url.order,
                       !.fresh = FALSE, !.dirty = TRUE]

WatchUrl(d) == IF d.fresh THEN update(d) ELSE d

(* filter.apply: a deleted key leaves the widget as it is. *)
Applied(d) == [k \in Keys |-> IF d.params[k] = Gone THEN d.scope[k] ELSE d.params[k]]

(* Mutants: onChange does not put the parameters into the widgets; a page      *)
(* alone is not worth a request.                                               *)
ParamsWithoutApply(d) ==
  IF d.params = d.saw THEN d
  ELSE [d EXCEPT !.saw = d.params, !.url = cleanParams(d.params), !.fresh = TRUE,
                 !.ask = TRUE, !.dirty = TRUE]

ParamsIgnoringPages(d) ==
  IF d.params = d.saw THEN d
  ELSE [d EXCEPT !.saw = d.params, !.url = cleanParams(d.params), !.fresh = TRUE,
                 !.scope = Applied(d), !.dirty = TRUE,
                 !.ask = @ \/ \E k \in Keys \ {"page"} : d.params[k] # d.saw[k]]

WatchParams(d) ==
  IF d.params = d.saw THEN d
  ELSE [d EXCEPT !.saw = d.params, !.url = cleanParams(d.params), !.fresh = TRUE,
                 !.scope = Applied(d), !.ask = TRUE, !.dirty = TRUE]

(* Mutant: the page is left alone. *)
WidgetsKeepingPage(d) ==
  LET changed == {k \in Keys : d.scope[k] # d.last[k]}
  IN IF changed = {} THEN d
     ELSE [d EXCEPT !.last = d.scope, !.dirty = TRUE,
                    !.params = [k \in Keys |-> IF k \in changed THEN d.scope[k] ELSE @[k]]]

(* Each widget's watch sets page to 1 and its own key; page's own comes last. *)
WatchWidgets(d) ==
  LET changed == {k \in Keys : d.scope[k] # d.last[k]}
  IN IF changed = {} THEN d
     ELSE [d EXCEPT !.last = d.scope, !.dirty = TRUE,
                    !.params = [k \in Keys |-> IF k \in changed THEN d.scope[k]
                                               ELSE IF k = "page" THEN 1 ELSE @[k]]]

(* Mutant: choosing the second side leaves the first. *)
WinnersOneSided(d, before) ==
  [d EXCEPT !.params = [k \in Keys |->
     IF /\ k = "two_wins"
        /\ before.scope["one_wins"] # before.last["one_wins"]
        /\ ~isEmpty(before.scope["one_wins"])
     THEN Gone ELSE @[k]]]

(* Of two winners the one that is chosen stays. *)
WatchWinners(d, before) ==
  LET chosen(k) == before.scope[k] # before.last[k] /\ ~isEmpty(before.scope[k])
  IN [d EXCEPT !.params = [k \in Keys |->
        IF \/ k = "two_wins" /\ chosen("one_wins")
           \/ k = "one_wins" /\ chosen("two_wins")
        THEN Gone ELSE @[k]]]

Pass(d) ==
  LET root == WatchParams(WatchUrl([d EXCEPT !.dirty = FALSE]))
  IN WatchWinners(WatchWidgets(root), root)

Again(d) == IF d.dirty THEN Pass(d) ELSE d

FiveMore(d) == Again(Again(Again(Again(Again(d)))))

(* Angular gives up, with an error, when the tenth pass after a dirty first    *)
(* one is dirty too (its TTL).                                                 *)
Digest(d) == FiveMore(FiveMore(Pass(d)))

(* The filter's state as a record, changed by an event, and back. *)
State == [scope |-> scope, params |-> params, url |-> url, sorted |-> sorted,
          saw |-> params, last |-> scope, fresh |-> FALSE, ask |-> FALSE,
          dirty |-> FALSE]

DigestAfter(d) ==
  LET e == Digest(d)
  IN /\ list' = list /\ scope' = e.scope /\ params' = e.params /\ url' = e.url /\ sorted' = e.sorted
     /\ settled' = ~e.dirty
     /\ timer' = (timer \/ e.ask)

-------------------------------------------------------------------------------
(* Events that change the filter. *)

Event(what) ==
  /\ events < MaxEvents
  /\ events' = events + 1
  /\ cause' = what
  /\ UNCHANGED server

(* raceselect: the choice, or null when the chosen race is clicked again. *)
SelectRace(race) ==
  /\ Event(<<"choice">>)
  /\ DigestAfter([State EXCEPT
       !.scope.race = IF scope.race = race THEN Null ELSE race])

toggleWinner(k) ==
  /\ list = "matches"
  /\ Event(<<"choice">>)
  /\ DigestAfter([State EXCEPT !.scope[k] = IF isEmpty(scope[k]) THEN "true" ELSE Null])

(* A click on a column's head: descending, or the other way round if that is   *)
(* what it was sorted by last; another column starts over.                     *)
Clicked(field) == <<IF sorted = <<"_", field>> THEN "-" ELSE "_", field>>

order(field) ==
  /\ list = "players"
  /\ Event(<<"choice">>)
  /\ DigestAfter([State EXCEPT !.sorted = Clicked(field),
       !.params.order = Clicked(field), !.params.page = Gone])

(* Next is there when the list on the screen fills its page (collection.length *)
(* == collection.limit), and goes on from the page the answer named.           *)
nextPage ==
  /\ shown # Null
  /\ Before(shown.page + 1) <= Matches[shown.query.race]
  /\ Event(<<"page", shown.page + 1>>)
  /\ DigestAfter([State EXCEPT !.params.page = shown.page + 1])

prevPage ==
  /\ shown # Null
  /\ shown.page > 1
  /\ Event(<<"page", shown.page - 1>>)
  /\ DigestAfter([State EXCEPT !.params.page = shown.page - 1])

(* The user goes back or forward, or follows a link to another search. *)
Visit(u) ==
  /\ u # url
  /\ Event(<<"visit">>)
  /\ DigestAfter([State EXCEPT !.url = u, !.fresh = TRUE])

-------------------------------------------------------------------------------
(* The list. *)

(* Mutant: the page of an answer that names none is 0. *)
AnswerUnnumbered(r) ==
  /\ requests' = requests \ {r}
  /\ shown' = [id |-> r.id, query |-> r.query,
               page |-> IF r.query.page = Any THEN 0 ELSE r.query.page]
  /\ UNCHANGED <<filter, settled, timer, sent, events, cause>>

(* 300 ms have passed since the last change: the list is asked for. *)
Refresh ==
  /\ timer
  /\ timer' = FALSE
  /\ cause' = <<"none">>
  /\ sent' = sent + 1
  /\ requests' = requests \cup {[id |-> sent + 1, query |-> cleanParams(params)]}
  /\ UNCHANGED <<filter, settled, shown, events>>

(* The server names the page it was asked for; the first if there was none.    *)
Answer(r) ==
  /\ requests' = requests \ {r}
  /\ shown' = [id |-> r.id, query |-> r.query,
               page |-> IF r.query.page = Any THEN 1 ELSE r.query.page]
  /\ UNCHANGED <<filter, settled, timer, sent, events, cause>>

(* promiseThen's error handler returns undefined, which the list becomes. *)
Fail(r) ==
  /\ requests' = requests \ {r}
  /\ shown' = Null
  /\ UNCHANGED <<filter, settled, timer, sent, events, cause>>

-------------------------------------------------------------------------------
(* The page is opened at a URL: every watch fires in the first digest. *)
Init ==
  \E l \in {"matches", "players"} : \E u \in Links[l] :
    LET unseen == [k \in Keys |-> Unseen]
        e == Digest([scope |-> [k \in Keys |-> Null], params |-> u, url |-> u,
                     sorted |-> u.order,
                     saw |-> unseen, last |-> unseen, fresh |-> TRUE, ask |-> FALSE,
                     dirty |-> FALSE])
    IN /\ list = l
       /\ scope = e.scope /\ params = e.params /\ url = e.url /\ sorted = e.sorted
       /\ settled = ~e.dirty
       /\ timer = e.ask
       /\ requests = {} /\ sent = 0 /\ shown = Null
       /\ events = 0
       /\ cause = <<"visit">>

Next ==
  \/ \E race \in Races : SelectRace(race)
  \/ \E k \in Winners : toggleWinner(k)
  \/ \E field \in Columns : order(field)
  \/ nextPage \/ prevPage
  \/ \E u \in Links[list] : Visit(u)
  \/ Refresh
  \/ \E r \in requests : Answer(r) \/ Fail(r)

Spec == Init /\ [][Next]_vars

-------------------------------------------------------------------------------
(* Properties. *)

(* The type invariant. *)
TypeOK ==
  /\ params \in [race : Races \cup {Any}, one_wins : {Any, "true"}, two_wins : {Any, "true"},
                 order : {Any} \cup Orders, page : {Any} \cup Nat]
  /\ list \in {"matches", "players"}
  /\ sorted \in {Any} \cup Orders
  /\ settled \in BOOLEAN
  /\ timer \in BOOLEAN
  /\ \A r \in requests : r.id \in 1 .. sent
  /\ shown = Null \/ shown.page \in Nat \ {0}
  /\ events \in 0 .. MaxEvents

(* The watches form a circle (URL, parameters, widgets, parameters, URL); no   *)
(* event makes them chase each other until Angular gives up.                   *)
DigestSettles == settled

(* "Sync back and forth between the URL ($location) and the scope"             *)
(* (url_filter.js): after every digest the URL, the parameters and the widgets *)
(* are the same filter, with nothing deleted or half taken back left in any.   *)
CopiesAgree == url = params /\ scope = params

(* At most one side is asked to have won, though each of the two keys reaches  *)
(* the URL by a watch of its own.                                              *)
OneWinner == Any \in {params.one_wins, params.two_wins}

(* A click on a page leads there; a click on a widget or on a column's head    *)
(* starts over at the first page.                                              *)
ClicksTurnPages ==
  /\ cause[1] = "page" => params.page = cause[2]
  /\ cause[1] = "choice" => params.page \in {Any, 1}

(* When nothing is under way and the newest request is the one answered last,  *)
(* the list is the one the filter asks for.                                    *)
Quiet == ~timer /\ requests = {}

NewestListIsCurrent ==
  Quiet /\ shown # Null => (shown.id = sent => shown.query = params)

(* Whatever goes round in the circle, to the user there is one filter: a click *)
(* changes its key, starts over at the first page and takes the other winner   *)
(* back, all at once; a URL that is opened or gone back to is the filter that  *)
(* results, though the watches set the page to 1 for every key they see        *)
(* change.                                                                     *)
Search == INSTANCE SearchFilter WITH filter <- params

ImplementsSearch == Search!Spec
===============================================================================
