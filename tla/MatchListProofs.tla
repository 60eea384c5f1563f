---------------------------- MODULE MatchListProofs ----------------------------
(***************************************************************************)
(* Proofs about MatchList, for any races, links, pages and numbers of      *)
(* events.  What is to be shown of a digest is that it comes to rest       *)
(* within its passes, where it does, and that it asks for a list.  It does *)
(* so along two states: Loaded, in which all copies of the filter but the  *)
(* parameters are the one that will result, and the URL is about to be     *)
(* read once more; and Rest, in which all copies are.                      *)
(***************************************************************************)
EXTENDS MatchList, TLAPS

Values == Races \cup Orders \cup {Any, Null, Gone, "true"} \cup Nat

Copies == [Keys -> Values]

(* What a watch saw last. *)
Sights == [Keys -> Values \cup {Unseen}]

Digests == [scope : Copies, params : Copies, url : Copies, sorted : Values,
            saw : Sights, last : Sights, fresh : BOOLEAN, ask : BOOLEAN, dirty : BOOLEAN]

(* A filter with nothing deleted or taken back in it. *)
Clean == {p \in Copies : \A k \in Keys : p[k] \notin {Null, Gone}}

(* The parameters that the watch of the parameters sees. *)
Read(d) == IF d.fresh THEN d.url ELSE d.params

Loaded(d, p) ==
  d.fresh /\ d.url = p /\ d.saw = p /\ d.scope = p /\ d.last = p /\ d.ask /\ d.dirty

Rest(d, p) ==
  ~d.fresh /\ d.url = p /\ d.saw = p /\ d.scope = p /\ d.last = p /\ d.params = p

(* Widget k has been given a value. *)
Chosen(d, k) == d.scope[k] # d.last[k] /\ ~isEmpty(d.scope[k])

LEMMA Constants ==
  /\ Any \notin {Null, Gone, Unseen} /\ Null # Gone
  /\ Any # "true" /\ Null # "true" /\ Gone # "true" /\ Unseen # "true"
  /\ \A o \in Orders : o \notin {Any, Null, Gone, Unseen}
  /\ \A n \in Nat : n \notin {Any, Null, Gone, Unseen}
  /\ \A race \in Races : race \notin {Any, Null, Gone, Unseen}
BY MatchListAssumption

LEMMA CleanParams ==
  ASSUME NEW p \in Copies
  PROVE  /\ cleanParams(p) \in Clean
         /\ p \in Clean => cleanParams(p) = p
         /\ \A k \in Keys : cleanParams(p)[k] = IF p[k] \in {Null, Gone} THEN Any ELSE p[k]
<1>1. \A k \in Keys : cleanParams(p)[k] = IF p[k] \in {Null, Gone} THEN Any ELSE p[k]
  BY DEF cleanParams, isEmpty
<1>2. cleanParams(p) \in Copies
  BY DEF cleanParams, Copies, Values
<1>3. cleanParams(p) \in Clean
  BY <1>1, <1>2, Constants DEF Clean
<1>4. ASSUME p \in Clean
      PROVE  cleanParams(p) = p
  <2>1. \A k \in Keys : cleanParams(p)[k] = p[k]
    BY <1>1, <1>4 DEF Clean
  <2> QED BY <1>2, <2>1 DEF Copies
<1> QED BY <1>1, <1>3, <1>4

-------------------------------------------------------------------------------
(* The watches, one by one. *)

LEMMA UrlWatched ==
  ASSUME NEW d \in Digests
  PROVE  LET e == WatchUrl([d EXCEPT !.dirty = FALSE])
         IN /\ e \in Digests
            /\ e.params = Read(d) /\ ~e.fresh /\ e.dirty = d.fresh
            /\ e.sorted = IF d.fresh /\ d.url.order # Any THEN d.url.order ELSE d.sorted
            /\ e.scope = d.scope /\ e.url = d.url /\ e.saw = d.saw /\ e.last = d.last
            /\ e.ask = d.ask
<1>1. d.url.order \in Values
  BY DEF Digests, Copies, Keys
<1> QED BY <1>1 DEF WatchUrl, update, Read, Digests

LEMMA AppliedType ==
  ASSUME NEW d \in Digests
  PROVE  Applied(d) \in Copies
BY DEF Applied, Digests, Copies

LEMMA ParamsWatched ==
  ASSUME NEW d \in Digests
  PROVE  LET e == WatchParams(d)
         IN /\ e \in Digests
            /\ e.params = d.params /\ e.sorted = d.sorted /\ e.last = d.last
            /\ d.params = d.saw => e = d
            /\ d.params # d.saw =>
                 /\ e.saw = d.params /\ e.url = cleanParams(d.params) /\ e.fresh
                 /\ e.scope = Applied(d) /\ e.ask /\ e.dirty
<1>0. d.params \in Sights
  BY DEF Digests, Copies, Sights
<1>1. Applied(d) \in Copies
  BY AppliedType
<1>2. d.params \in Copies
  BY DEF Digests
<1>3. cleanParams(d.params) \in Copies
  BY <1>2, CleanParams DEF Clean
<1> QED BY <1>0, <1>1, <1>3 DEF WatchParams, Digests

LEMMA WidgetsWatched ==
  ASSUME NEW d \in Digests
  PROVE  LET e == WatchWidgets(d)
         IN /\ e \in Digests
            /\ e.last = d.scope /\ e.scope = d.scope /\ e.url = d.url /\ e.sorted = d.sorted
            /\ e.saw = d.saw /\ e.fresh = d.fresh /\ e.ask = d.ask
            /\ d.scope = d.last => e = d
            /\ d.scope # d.last =>
                 /\ e.dirty
                 /\ \A k \in Keys :
                      e.params[k] = IF d.scope[k] # d.last[k] THEN d.scope[k]
                                    ELSE IF k = "page" THEN 1 ELSE d.params[k]
<1> DEFINE changed == {k \in Keys : d.scope[k] # d.last[k]}
           params1 == [k \in Keys |-> IF k \in changed THEN d.scope[k]
                                      ELSE IF k = "page" THEN 1 ELSE d.params[k]]
<1>1. changed = {} <=> d.scope = d.last
  BY DEF Digests, Copies, Sights
<1>2. CASE changed = {}
  BY <1>1, <1>2 DEF WatchWidgets
<1>3. CASE changed # {}
  <2>1. params1 \in Copies
    BY DEF Digests, Copies, Values
  <2>2. WatchWidgets(d) = [d EXCEPT !.last = d.scope, !.dirty = TRUE, !.params = params1]
    BY <1>3 DEF WatchWidgets
  <2>3. \A k \in Keys : params1[k] = IF d.scope[k] # d.last[k] THEN d.scope[k]
                                     ELSE IF k = "page" THEN 1 ELSE d.params[k]
    OBVIOUS
  <2> HIDE DEF params1, changed
  <2>4. d.scope \in Sights
    BY DEF Digests, Copies, Sights
  <2> QED BY <1>1, <1>3, <2>1, <2>2, <2>3, <2>4 DEF Digests
<1> QED BY <1>2, <1>3

LEMMA WinnersWatched ==
  ASSUME NEW d \in Digests, NEW before \in Digests
  PROVE  LET e == WatchWinners(d, before)
         IN /\ e \in Digests
            /\ e.last = d.last /\ e.scope = d.scope /\ e.url = d.url /\ e.sorted = d.sorted
            /\ e.saw = d.saw /\ e.fresh = d.fresh /\ e.ask = d.ask /\ e.dirty = d.dirty
            /\ \A k \in Keys :
                 e.params[k] = IF \/ k = "two_wins" /\ Chosen(before, "one_wins")
                                  \/ k = "one_wins" /\ Chosen(before, "two_wins")
                               THEN Gone ELSE d.params[k]
<1> DEFINE params1 == [k \in Keys |-> IF \/ k = "two_wins" /\ Chosen(before, "one_wins")
                                         \/ k = "one_wins" /\ Chosen(before, "two_wins")
                                      THEN Gone ELSE d.params[k]]
<1>1. WatchWinners(d, before) = [d EXCEPT !.params = params1]
  BY DEF WatchWinners, Chosen
<1>2. params1 \in Copies
  BY DEF Digests, Copies, Values
<1>3. \A k \in Keys : params1[k] = IF \/ k = "two_wins" /\ Chosen(before, "one_wins")
                                      \/ k = "one_wins" /\ Chosen(before, "two_wins")
                                   THEN Gone ELSE d.params[k]
  OBVIOUS
<1> HIDE DEF params1
<1> QED BY <1>1, <1>2, <1>3 DEF Digests

-------------------------------------------------------------------------------
(* One pass. *)

(* The watch of the parameters fires: parameters, URL and widgets are to become *)
(* what it sees.                                                                *)
LEMMA PassParams ==
  ASSUME NEW d \in Digests, Read(d) # d.saw
  PROVE  LET e == Pass(d)
             m == Read(d)
         IN /\ e \in Digests
            /\ e.fresh /\ e.ask /\ e.dirty
            /\ e.saw = m /\ e.url = cleanParams(m)
            /\ e.scope \in Copies /\ e.last = e.scope
            /\ \A k \in Keys : e.scope[k] = IF m[k] = Gone THEN d.scope[k] ELSE m[k]
            /\ e.sorted = IF d.fresh /\ d.url.order # Any THEN d.url.order ELSE d.sorted
<1> DEFINE a == WatchUrl([d EXCEPT !.dirty = FALSE])
           root == WatchParams(a)
           b == WatchWidgets(root)
<1>1. /\ a \in Digests /\ a.params = Read(d) /\ a.saw = d.saw /\ a.scope = d.scope
      /\ a.sorted = IF d.fresh /\ d.url.order # Any THEN d.url.order ELSE d.sorted
  BY UrlWatched
<1>2. /\ root \in Digests /\ root.sorted = a.sorted
      /\ root.saw = Read(d) /\ root.url = cleanParams(Read(d)) /\ root.fresh
      /\ root.scope = Applied(a) /\ root.ask /\ root.dirty
  <2> HIDE DEF a
  <2> QED BY <1>1, ParamsWatched
<1>3. /\ b \in Digests /\ b.last = root.scope /\ b.scope = root.scope /\ b.url = root.url
      /\ b.sorted = root.sorted /\ b.saw = root.saw /\ b.fresh = root.fresh
      /\ b.ask = root.ask /\ b.dirty
  <2> HIDE DEF root
  <2> QED BY <1>2, WidgetsWatched
<1>4. Pass(d) = WatchWinners(b, root)
  BY DEF Pass
<1>5. /\ Applied(a) \in Copies
      /\ \A k \in Keys : Applied(a)[k] = IF Read(d)[k] = Gone THEN d.scope[k] ELSE Read(d)[k]
  <2> HIDE DEF a
  <2> QED BY <1>1, AppliedType DEF Applied
<1> HIDE DEF a, root, b
<1>6. LET e == WatchWinners(b, root)
      IN /\ e \in Digests
         /\ e.last = b.last /\ e.scope = b.scope /\ e.url = b.url /\ e.sorted = b.sorted
         /\ e.saw = b.saw /\ e.fresh = b.fresh /\ e.ask = b.ask /\ e.dirty = b.dirty
  BY <1>2, <1>3, WinnersWatched
<1> QED BY <1>1, <1>2, <1>3, <1>4, <1>5, <1>6

(* Nothing has changed but, perhaps, the URL object. *)
LEMMA PassUrl ==
  ASSUME NEW d \in Digests, Read(d) = d.saw, d.scope = d.last
  PROVE  LET e == Pass(d)
         IN /\ e \in Digests
            /\ ~e.fresh /\ e.dirty = d.fresh /\ e.ask = d.ask
            /\ e.params = d.saw /\ e.saw = d.saw /\ e.url = d.url
            /\ e.scope = d.scope /\ e.last = d.last
            /\ e.sorted = IF d.fresh /\ d.url.order # Any THEN d.url.order ELSE d.sorted
<1> DEFINE a == WatchUrl([d EXCEPT !.dirty = FALSE])
           root == WatchParams(a)
           b == WatchWidgets(root)
<1>1. /\ a \in Digests /\ a.params = d.saw /\ ~a.fresh /\ a.dirty = d.fresh
      /\ a.sorted = IF d.fresh /\ d.url.order # Any THEN d.url.order ELSE d.sorted
      /\ a.scope = d.scope /\ a.url = d.url /\ a.saw = d.saw /\ a.last = d.last
      /\ a.ask = d.ask
  BY UrlWatched
<1>2. root = a
  <2> HIDE DEF a
  <2> QED BY <1>1, ParamsWatched
<1>3. b = a
  <2> HIDE DEF a, root
  <2> QED BY <1>1, <1>2, WidgetsWatched
<1>4. Pass(d) = WatchWinners(b, root)
  BY DEF Pass
<1> HIDE DEF a, root, b
<1>5. /\ Pass(d) \in Digests
      /\ Pass(d).last = a.last /\ Pass(d).scope = a.scope /\ Pass(d).url = a.url
      /\ Pass(d).sorted = a.sorted /\ Pass(d).saw = a.saw /\ Pass(d).fresh = a.fresh
      /\ Pass(d).ask = a.ask /\ Pass(d).dirty = a.dirty
      /\ \A k \in Keys : Pass(d).params[k] = a.params[k]
  <2>1. ~Chosen(a, "one_wins") /\ ~Chosen(a, "two_wins")
    BY <1>1 DEF Chosen
  <2> QED BY <1>1, <1>2, <1>3, <1>4, <2>1, WinnersWatched
<1>6. Pass(d).params = a.params
  BY <1>1, <1>5 DEF Digests, Copies
<1> QED BY <1>1, <1>5, <1>6

(* A widget has changed: its key, the page and the other winner are to follow. *)
LEMMA PassWidgets ==
  ASSUME NEW d \in Digests, ~d.fresh, d.params = d.saw, d.scope # d.last
  PROVE  LET e == Pass(d)
         IN /\ e \in Digests
            /\ ~e.fresh /\ e.dirty /\ e.ask = d.ask /\ e.sorted = d.sorted
            /\ e.saw = d.saw /\ e.url = d.url /\ e.scope = d.scope /\ e.last = d.scope
            /\ \A k \in Keys :
                 e.params[k] = IF \/ k = "two_wins" /\ Chosen(d, "one_wins")
                                  \/ k = "one_wins" /\ Chosen(d, "two_wins") THEN Gone
                               ELSE IF d.scope[k] # d.last[k] THEN d.scope[k]
                               ELSE IF k = "page" THEN 1 ELSE d.params[k]
<1> DEFINE a == WatchUrl([d EXCEPT !.dirty = FALSE])
           root == WatchParams(a)
           b == WatchWidgets(root)
<1>1. /\ a \in Digests /\ a.params = d.params /\ ~a.fresh
      /\ a.sorted = d.sorted
      /\ a.scope = d.scope /\ a.url = d.url /\ a.saw = d.saw /\ a.last = d.last
      /\ a.ask = d.ask
  BY UrlWatched DEF Read
<1>2. root = a
  <2> HIDE DEF a
  <2> QED BY <1>1, ParamsWatched
<1>3. /\ b \in Digests /\ b.last = a.scope /\ b.scope = a.scope /\ b.url = a.url
      /\ b.sorted = a.sorted /\ b.saw = a.saw /\ b.fresh = a.fresh /\ b.ask = a.ask
      /\ b.dirty
      /\ \A k \in Keys : b.params[k] = IF a.scope[k] # a.last[k] THEN a.scope[k]
                                       ELSE IF k = "page" THEN 1 ELSE a.params[k]
  <2> HIDE DEF a, root
  <2> QED BY <1>1, <1>2, WidgetsWatched
<1>4. Pass(d) = WatchWinners(b, a)
  BY <1>2 DEF Pass
<1> HIDE DEF a, root, b
<1>5. \A k : Chosen(a, k) <=> Chosen(d, k)
  BY <1>1 DEF Chosen
<1>6. LET e == WatchWinners(b, a)
      IN /\ e \in Digests
         /\ e.last = b.last /\ e.scope = b.scope /\ e.url = b.url /\ e.sorted = b.sorted
         /\ e.saw = b.saw /\ e.fresh = b.fresh /\ e.ask = b.ask /\ e.dirty = b.dirty
         /\ \A k \in Keys :
              e.params[k] = IF \/ k = "two_wins" /\ Chosen(a, "one_wins")
                               \/ k = "one_wins" /\ Chosen(a, "two_wins")
                            THEN Gone ELSE b.params[k]
  BY <1>1, <1>3, WinnersWatched
<1> QED BY <1>1, <1>3, <1>4, <1>5, <1>6

-------------------------------------------------------------------------------
(* Digests. *)

Sorted(p, before) == IF p.order # Any THEN p.order ELSE before

Settled(e, p, s) ==
  e \in Digests /\ Rest(e, p) /\ ~e.dirty /\ e.ask /\ e.sorted = s

LEMMA LoadedSettles ==
  ASSUME NEW d \in Digests, NEW p \in Clean, Loaded(d, p)
  PROVE  Settled(Again(Again(d)), p, Sorted(p, d.sorted))
<1> DEFINE e == Again(d)
<1>1. Read(d) = d.saw /\ d.scope = d.last
  BY DEF Loaded, Read
<1>2. e = Pass(d)
  BY DEF Loaded, Again
<1>3. e \in Digests /\ Rest(e, p) /\ e.dirty /\ e.ask /\ e.sorted = Sorted(p, d.sorted)
  <2> HIDE DEF e
  <2> QED BY <1>1, <1>2, PassUrl DEF Loaded, Rest, Sorted
<1> HIDE DEF e
<1>4. Read(e) = e.saw /\ e.scope = e.last /\ ~e.fresh
  BY <1>3 DEF Rest, Read
<1>5. Again(e) = Pass(e)
  BY <1>3 DEF Again
<1>6. Settled(Again(e), p, Sorted(p, d.sorted))
  BY <1>3, <1>4, <1>5, PassUrl DEF Rest, Settled
<1> QED BY <1>6 DEF e

(* After the watch of the parameters has fired, the copies are loaded at once, *)
(* or when what was deleted or taken back has come round as the default.       *)
LEMMA ParamsSettle ==
  ASSUME NEW d \in Digests, Read(d) # d.saw, d.fresh => d.url \in Clean
  PROVE  LET p == cleanParams(Read(d))
         IN Settled(Again(Again(Again(Pass(d)))), p, Sorted(p, d.sorted))
<1> DEFINE m == Read(d)
           p == cleanParams(m)
           e == Pass(d)
<1>1. m \in Copies /\ p \in Clean /\ (m \in Clean => p = m) /\ cleanParams(p) = p
  BY CleanParams DEF Read, Digests, Clean
<1>2. /\ e \in Digests /\ e.fresh /\ e.ask /\ e.dirty /\ e.saw = m /\ e.url = p
      /\ e.scope \in Copies /\ e.last = e.scope
      /\ \A k \in Keys : e.scope[k] = IF m[k] = Gone THEN d.scope[k] ELSE m[k]
      /\ e.sorted = IF d.fresh /\ d.url.order # Any THEN d.url.order ELSE d.sorted
  BY PassParams
<1>3. Sorted(p, e.sorted) = Sorted(p, d.sorted)
  <2>1. CASE d.fresh
    <3>1. p = d.url
      BY <1>1, <2>1 DEF Read
    <3> QED BY <1>2, <2>1, <3>1 DEF Sorted
  <2>2. CASE ~d.fresh
    BY <1>2, <2>2 DEF Sorted
  <2> QED BY <2>1, <2>2
<1> HIDE DEF e
<1>4. CASE m = p
  <2>1. \A k \in Keys : e.scope[k] = m[k]
    BY <1>1, <1>2, <1>4 DEF Clean
  <2>2. e.scope = m
    BY <1>1, <1>2, <2>1 DEF Copies
  <2>3. Loaded(e, p)
    BY <1>2, <1>4, <2>2 DEF Loaded
  <2>4. Settled(Again(Again(e)), p, Sorted(p, d.sorted))
    <3> HIDE DEF p
    <3> QED BY <1>1, <1>2, <1>3, <2>3, LoadedSettles
  <2>5. Again(Again(Again(e))) = Again(Again(e))
    <3> HIDE DEF p, m
    <3> QED BY <2>4 DEF Settled, Again
  <2>6. Settled(Again(Again(Again(e))), p, Sorted(p, d.sorted))
    <3> HIDE DEF p
    <3> QED BY <2>4, <2>5
  <2> QED BY <2>6 DEF e
<1>5. CASE m # p
  <2> DEFINE f == Again(e)
  <2>1. f = Pass(e) /\ Read(e) = p /\ Read(e) # e.saw
    BY <1>2, <1>5 DEF Again, Read
  <2>2. /\ f \in Digests /\ f.fresh /\ f.ask /\ f.dirty /\ f.saw = p /\ f.url = p
        /\ f.scope \in Copies /\ f.last = f.scope
        /\ \A k \in Keys : f.scope[k] = IF p[k] = Gone THEN e.scope[k] ELSE p[k]
        /\ f.sorted = IF e.url.order # Any THEN e.url.order ELSE e.sorted
    <3> HIDE DEF f, p
    <3> QED BY <1>1, <1>2, <2>1, PassParams
  <2> HIDE DEF f, p, m
  <2>3. f.scope = p
    <3>1. \A k \in Keys : f.scope[k] = p[k]
      BY <1>1, <2>2 DEF Clean
    <3> QED BY <1>1, <2>2, <3>1 DEF Copies, Clean
  <2>4. Loaded(f, p)
    BY <2>2, <2>3 DEF Loaded
  <2>5. Sorted(p, f.sorted) = Sorted(p, d.sorted)
    BY <1>2, <1>3, <2>2 DEF Sorted
  <2>6. Settled(Again(Again(f)), p, Sorted(p, d.sorted))
    BY <1>1, <2>2, <2>4, <2>5, LoadedSettles
  <2> QED BY <2>6 DEF e, f, p, m
<1> QED BY <1>4, <1>5

LEMMA SettledStays ==
  ASSUME NEW e, NEW p, NEW s, Settled(e, p, s)
  PROVE  Again(e) = e /\ FiveMore(e) = e
BY DEF Settled, Again, FiveMore

(* A digest that begins with the watch of the parameters. *)
LEMMA ParamsDigest ==
  ASSUME NEW d \in Digests, Read(d) # d.saw, d.fresh => d.url \in Clean
  PROVE  LET p == cleanParams(Read(d)) IN Settled(Digest(d), p, Sorted(p, d.sorted))
<1> DEFINE p == cleanParams(Read(d))
           s == Sorted(p, d.sorted)
           e == Again(Again(Again(Pass(d))))
<1>1. Settled(e, p, s)
  BY ParamsSettle
<1>2. FiveMore(Pass(d)) = Again(Again(e))
  BY DEF FiveMore
<1>3. Again(Again(e)) = e /\ FiveMore(e) = e
  <2> HIDE DEF e, p, s
  <2> QED BY <1>1, SettledStays
<1>4. Digest(d) = e
  <2> HIDE DEF e
  <2> QED BY <1>2, <1>3 DEF Digest
<1> HIDE DEF e
<1> QED BY <1>1, <1>4

(* One that begins with the watches of the widgets. *)
LEMMA WidgetsDigest ==
  ASSUME NEW d \in Digests, ~d.fresh, d.params = d.saw, d.scope # d.last,
         Pass(d).params # d.params
  PROVE  LET p == cleanParams(Pass(d).params) IN Settled(Digest(d), p, Sorted(p, d.sorted))
<1> DEFINE f == Pass(d)
           p == cleanParams(f.params)
           s == Sorted(p, d.sorted)
           e == Again(Again(Again(Pass(f))))
<1>1. /\ f \in Digests /\ ~f.fresh /\ f.dirty /\ f.saw = d.params /\ f.sorted = d.sorted
  BY PassWidgets
<1>2. Read(f) = f.params /\ Read(f) # f.saw
  <2> HIDE DEF f
  <2>1. f.params # d.params
    BY DEF f
  <2> QED BY <1>1, <2>1 DEF Read
<1>3. Settled(e, p, s)
  <2> HIDE DEF f
  <2> QED BY <1>1, <1>2, ParamsSettle
<1>4. FiveMore(f) = Again(e)
  <2>1. Again(f) = Pass(f)
    <3> HIDE DEF f
    <3> QED BY <1>1 DEF Again
  <2> HIDE DEF f
  <2> QED BY <2>1 DEF FiveMore
<1>5. Again(e) = e /\ FiveMore(e) = e
  <2> HIDE DEF e, p, s
  <2> QED BY <1>3, SettledStays
<1>6. Digest(d) = e
  <2> HIDE DEF e
  <2> QED BY <1>4, <1>5 DEF Digest
<1> HIDE DEF e
<1> QED BY <1>3, <1>6

(* One in which no watch fires. *)
LEMMA QuietDigest ==
  ASSUME NEW d \in Digests, ~d.fresh, d.params = d.saw, d.scope = d.last
  PROVE  LET e == Digest(d)
         IN /\ ~e.dirty /\ e.ask = d.ask /\ e.sorted = d.sorted
            /\ e.params = d.params /\ e.scope = d.scope /\ e.url = d.url
<1> DEFINE f == Pass(d)
<1>1. /\ ~f.dirty /\ f.ask = d.ask /\ f.sorted = d.sorted
      /\ f.params = d.params /\ f.scope = d.scope /\ f.url = d.url
  BY PassUrl DEF Read
<1>2. Digest(d) = f
  <2> HIDE DEF f
  <2>1. Again(f) = f
    BY <1>1 DEF Again
  <2>2. FiveMore(f) = f
    BY <2>1 DEF FiveMore
  <2> QED BY <2>2 DEF Digest, f
<1> HIDE DEF f
<1> QED BY <1>1, <1>2

-------------------------------------------------------------------------------
(* Events.  Between them all copies are one filter. *)

Filters == [race : Races \cup {Any}, one_wins : {Any, "true"}, two_wins : {Any, "true"},
            order : {Any} \cup Orders, page : {Any} \cup (Nat \ {0})]

FilterInv ==
  /\ params \in Filters /\ scope = params /\ url = params /\ OneWinner
  /\ sorted \in {Any} \cup Orders
  /\ params.order # Any => sorted = params.order
  /\ settled
  /\ list \in {"matches", "players"} /\ timer \in BOOLEAN

(* All copies have become the filter p. *)
Becomes(p, s) ==
  /\ params' = p /\ scope' = p /\ url' = p /\ sorted' = s
  /\ settled' /\ UNCHANGED list

LEMMA FilterKeys ==
  ASSUME NEW p \in Filters
  PROVE  /\ p \in Clean
         /\ p["race"] \in Races \cup {Any} /\ p["one_wins"] \in {Any, "true"}
         /\ p["two_wins"] \in {Any, "true"} /\ p["order"] \in {Any} \cup Orders
         /\ p["page"] \in {Any} \cup (Nat \ {0})
<1>1. /\ p["race"] \in Races \cup {Any} /\ p["one_wins"] \in {Any, "true"}
      /\ p["two_wins"] \in {Any, "true"} /\ p["order"] \in {Any} \cup Orders
      /\ p["page"] \in {Any} \cup (Nat \ {0})
  BY DEF Filters
<1>2. p \in Copies
  BY DEF Filters, Copies, Keys, Values
<1>3. \A k \in Keys : p[k] \notin {Null, Gone}
  BY <1>1, Constants DEF Keys
<1> QED BY <1>1, <1>2, <1>3 DEF Clean

LEMMA LinkIsFilter ==
  ASSUME NEW l \in {"matches", "players"}, NEW u \in Links[l]
  PROVE  u \in Filters /\ Any \in {u.one_wins, u.two_wins}
<1>1. u \in Urls
  BY LinksAssumption
<1>2. 1 .. Matches[Any] \subseteq Nat \ {0}
  <2>1. Matches[Any] \in Nat
    BY MatchListAssumption
  <2> QED BY <2>1
<1> QED BY <1>1, <1>2 DEF Urls, Filters

LEMMA StateType ==
  ASSUME FilterInv
  PROVE  /\ params \in Clean /\ State \in Digests
         /\ State.scope = params /\ State.params = params /\ State.url = params
         /\ State.saw = params /\ State.last = params /\ State.sorted = sorted
         /\ ~State.fresh /\ ~State.ask
<1>1. params \in Clean
  BY FilterKeys DEF FilterInv
<1>2. params \in Copies /\ params \in Sights
  BY <1>1 DEF Clean, Copies, Sights
<1>3. sorted \in Values
  BY DEF FilterInv, Values
<1> QED BY <1>1, <1>2, <1>3 DEF State, Digests, FilterInv

LEMMA SettledBecomes ==
  ASSUME NEW d, NEW p, NEW s, Settled(Digest(d), p, s), DigestAfter(d)
  PROVE  Becomes(p, s) /\ timer'
BY DEF DigestAfter, Settled, Rest, Becomes

LEMMA VisitFilter ==
  ASSUME FilterInv, NEW u \in Links[list], Visit(u)
  PROVE  Becomes(u, Sorted(u, sorted)) /\ timer'
<1> DEFINE d == [State EXCEPT !.url = u, !.fresh = TRUE]
<1>1. u \in Clean /\ u # url
  BY LinkIsFilter, FilterKeys DEF FilterInv, Visit
<1>2. d \in Digests /\ d.fresh /\ d.url = u /\ d.saw = params /\ d.sorted = sorted
  BY <1>1, StateType DEF Digests, Clean
<1>3. DigestAfter(d)
  BY DEF Visit
<1> HIDE DEF d
<1>4. Read(d) = u /\ cleanParams(u) = u /\ u # params
  BY <1>1, <1>2, CleanParams DEF Read, FilterInv, Clean
<1>5. Settled(Digest(d), u, Sorted(u, sorted))
  BY <1>1, <1>2, <1>4, ParamsDigest
<1> QED BY <1>3, <1>5, SettledBecomes

(* A page is turned to, or it is the one that is there. *)
LEMMA PageFilter ==
  ASSUME FilterInv, NEW n \in Nat \ {0}, DigestAfter([State EXCEPT !.params.page = n])
  PROVE  /\ Becomes([params EXCEPT !.page = n], sorted)
         /\ timer' \/ (params' = params /\ timer' = timer)
<1> DEFINE d == [State EXCEPT !.params.page = n]
           p == [params EXCEPT !.page = n]
<1>1. p \in Filters /\ p.order = params.order /\ p.page = n
  BY DEF FilterInv, Filters
<1>2. p \in Clean
  BY <1>1, FilterKeys
<1>3. /\ d \in Digests /\ ~d.fresh /\ ~d.ask /\ d.params = p /\ d.saw = params /\ d.url = params
      /\ d.scope = params /\ d.last = params /\ d.sorted = sorted
  BY <1>2, StateType DEF Digests, Clean
<1>4. DigestAfter(d)
  OBVIOUS
<1> HIDE DEF d, p
<1>5. CASE p = params
  <2>1. LET e == Digest(d)
        IN ~e.dirty /\ ~e.ask /\ e.sorted = sorted /\ e.params = p /\ e.scope = p /\ e.url = p
    BY <1>3, <1>5, QuietDigest
  <2>2. Becomes(p, sorted) /\ timer' = timer
    BY <1>4, <2>1 DEF DigestAfter, Becomes, FilterInv
  <2> QED BY <1>5, <2>2 DEF p, Becomes
<1>6. CASE p # params
  <2>1. Read(d) = p /\ cleanParams(p) = p
    BY <1>2, <1>3, CleanParams DEF Read, Clean
  <2>2. Settled(Digest(d), p, Sorted(p, sorted))
    BY <1>2, <1>3, <1>6, <2>1, ParamsDigest
  <2>3. Sorted(p, sorted) = sorted
    BY <1>1 DEF Sorted, FilterInv
  <2>4. Becomes(p, sorted) /\ timer'
    BY <1>4, <2>2, <2>3, SettledBecomes
  <2> QED BY <2>4 DEF p
<1> QED BY <1>5, <1>6

LEMMA ClickedType ==
  ASSUME NEW field \in Columns
  PROVE  Clicked(field) \in Orders
BY DEF Clicked, Orders

(* A deleted key comes back as the default. *)
LEMMA OrderFilter ==
  ASSUME FilterInv, NEW field \in Columns, order(field)
  PROVE  LET clicked == Clicked(field)
         IN Becomes([params EXCEPT !.order = clicked, !.page = Any], clicked) /\ timer'
<1> DEFINE clicked == Clicked(field)
           d == [State EXCEPT !.sorted = clicked,
                              !.params.order = clicked, !.params.page = Gone]
           m == [params EXCEPT !.order = clicked, !.page = Gone]
           p == [params EXCEPT !.order = clicked, !.page = Any]
<1>1. clicked \in Orders /\ DigestAfter(d)
  BY ClickedType DEF order
<1> HIDE DEF clicked
<1>2. /\ m \in Copies /\ m["page"] = Gone /\ m["order"] = clicked
      /\ \A k \in Keys \ {"page", "order"} : m[k] = params[k]
  <2>1. params \in Copies /\ (Orders \cup {Gone}) \subseteq Values
    BY StateType DEF Clean, Values
  <2> QED BY <1>1, <2>1 DEF Copies, Keys
<1>3. /\ p \in Copies /\ p["page"] = Any /\ p["order"] = clicked
      /\ \A k \in Keys \ {"page", "order"} : p[k] = params[k]
  <2>1. params \in Copies /\ (Orders \cup {Any}) \subseteq Values
    BY StateType DEF Clean, Values
  <2> QED BY <1>1, <2>1 DEF Copies, Keys
<1>4. m # params
  BY <1>2, StateType DEF Clean, Keys
<1>5. cleanParams(m) = p
  <2> HIDE DEF m, p
  <2>1. \A k \in Keys : cleanParams(m)[k] = IF m[k] \in {Null, Gone} THEN Any ELSE m[k]
    BY <1>2, CleanParams
  <2>2. clicked \notin {Null, Gone} /\ \A k \in Keys : params[k] \notin {Null, Gone}
    BY <1>1, StateType, Constants DEF Clean
  <2>3. ASSUME NEW k \in Keys
        PROVE  cleanParams(m)[k] = p[k]
    BY <1>2, <1>3, <2>1, <2>2 DEF Keys
  <2>4. cleanParams(m) \in Copies
    BY <1>2, CleanParams DEF Clean
  <2> QED BY <1>3, <2>3, <2>4 DEF Copies
<1>6. d \in Digests /\ ~d.fresh /\ d.params = m /\ d.saw = params /\ d.sorted = clicked
  <2>1. d = [[State EXCEPT !.sorted = clicked] EXCEPT !.params = m]
    BY StateType DEF State
  <2>2. clicked \in Values
    BY <1>1 DEF Values
  <2> HIDE DEF d, m
  <2> QED BY <1>2, <2>1, <2>2, StateType DEF Digests
<1> HIDE DEF d, m, p
<1>7. Settled(Digest(d), p, Sorted(p, clicked))
  BY <1>4, <1>5, <1>6, ParamsDigest DEF Read
<1>8. Sorted(p, clicked) = clicked
  BY <1>3 DEF Sorted
<1> QED BY <1>1, <1>7, <1>8, SettledBecomes DEF p, clicked

(* Widget k holds v instead of what it held. *)
Choice(k, v) ==
  [x \in Keys |-> IF x = k THEN IF v = Null THEN Any ELSE v
                  ELSE IF x = "page" THEN 1
                  ELSE IF k \in Winners /\ x \in Winners /\ v # Null THEN Any
                  ELSE params[x]]

LEMMA ChoiceFilter ==
  ASSUME FilterInv, NEW k \in {"race", "one_wins", "two_wins"},
         NEW v \in Races \cup {"true", Null}, v # params[k],
         DigestAfter([State EXCEPT !.scope[k] = v])
  PROVE  Becomes(Choice(k, v), sorted) /\ timer'
<1> DEFINE d == [State EXCEPT !.scope[k] = v]
           e == Pass(d)
           p == Choice(k, v)
           m == cleanParams(e.params)
<1>1. k \in Keys /\ k # "page" /\ k # "order" /\ v \in Values /\ v \notin {Any, Gone}
  BY Constants DEF Keys, Values
<1>2. /\ d \in Digests /\ ~d.fresh /\ d.params = params /\ d.saw = params /\ d.last = params
      /\ d.scope = [params EXCEPT ![k] = v] /\ d.sorted = sorted
  <2>1. params \in Copies
    BY StateType DEF Clean
  <2>2. [params EXCEPT ![k] = v] \in Copies
    BY <1>1, <2>1 DEF Copies
  <2>3. d = [State EXCEPT !.scope = [params EXCEPT ![k] = v]]
    BY StateType DEF State
  <2> HIDE DEF d
  <2> QED BY <2>2, <2>3, StateType DEF Digests
<1>3. DigestAfter(d)
  OBVIOUS
<1> HIDE DEF d
<1>4. \A x \in Keys : d.scope[x] = IF x = k THEN v ELSE params[x]
  BY <1>1, <1>2, StateType DEF Clean, Copies
<1>5. d.scope # d.last
  BY <1>1, <1>2, <1>4
<1>6. \A x \in Keys : Chosen(d, x) <=> x = k /\ v # Null
  BY <1>1, <1>2, <1>4 DEF Chosen, isEmpty
<1>7. /\ e \in Digests
      /\ \A x \in Keys :
           e.params[x] = IF \/ x = "two_wins" /\ Chosen(d, "one_wins")
                            \/ x = "one_wins" /\ Chosen(d, "two_wins") THEN Gone
                         ELSE IF d.scope[x] # d.last[x] THEN d.scope[x]
                         ELSE IF x = "page" THEN 1 ELSE d.params[x]
  BY <1>2, <1>5, PassWidgets
<1> HIDE DEF e
<1>8. \A x \in Keys :
        e.params[x] = IF k \in Winners /\ x \in Winners /\ x # k /\ v # Null THEN Gone
                      ELSE IF x = k THEN v ELSE IF x = "page" THEN 1 ELSE params[x]
  BY <1>1, <1>2, <1>4, <1>6, <1>7 DEF Keys, Winners
<1>9. e.params # d.params
  BY <1>1, <1>2, <1>8
<1>10. m \in Copies /\ \A x \in Keys : m[x] = IF e.params[x] \in {Null, Gone} THEN Any
                                             ELSE e.params[x]
  BY <1>7, CleanParams DEF Digests, Clean
<1> HIDE DEF m
<1>11. m = p
  <2>1. \A x \in Keys : params[x] \notin {Null, Gone}
    BY StateType DEF Clean
  <2>2. ASSUME NEW x \in Keys
        PROVE  m[x] = p[x]
    BY <1>1, <1>8, <1>10, <2>1, Constants DEF Choice, Winners
  <2> QED BY <1>10, <2>2 DEF Copies, Choice
<1>12. p["order"] = params["order"]
  BY <1>1 DEF Choice, Keys, Winners
<1>13. Sorted(p, sorted) = sorted
  BY <1>12 DEF Sorted, FilterInv
<1>14. Settled(Digest(d), p, sorted)
  BY <1>2, <1>5, <1>9, <1>11, <1>13, WidgetsDigest DEF e, m
<1> QED BY <1>3, <1>14, SettledBecomes

LEMMA RaceFilter ==
  ASSUME FilterInv, NEW race \in Races, SelectRace(race)
  PROVE  /\ Becomes([params EXCEPT !.race = IF @ = race THEN Any ELSE race, !.page = 1], sorted)
         /\ timer'
<1> DEFINE v == IF params.race = race THEN Null ELSE race
           p == [params EXCEPT !.race = IF @ = race THEN Any ELSE race, !.page = 1]
<1>1. v \in Races \cup {"true", Null} /\ v # params["race"]
  BY Constants
<1>2. DigestAfter([State EXCEPT !.scope["race"] = v])
  BY DEF SelectRace, FilterInv
<1>3. Becomes(Choice("race", v), sorted) /\ timer'
  BY <1>1, <1>2, ChoiceFilter
<1>4. Choice("race", v) = p
  BY Constants DEF FilterInv, Filters, Choice, Keys, Winners
<1> QED BY <1>3, <1>4

LEMMA WinnerFilter ==
  ASSUME FilterInv, NEW side \in Winners, toggleWinner(side)
  PROVE  LET toggled(k) == IF k = side /\ params[k] = Any THEN "true" ELSE Any
         IN /\ Becomes([params EXCEPT !.one_wins = toggled("one_wins"),
                                      !.two_wins = toggled("two_wins"), !.page = 1], sorted)
            /\ timer'
<1> DEFINE v == IF params[side] = Any THEN "true" ELSE Null
           toggled(k) == IF k = side /\ params[k] = Any THEN "true" ELSE Any
           p == [params EXCEPT !.one_wins = toggled("one_wins"),
                               !.two_wins = toggled("two_wins"), !.page = 1]
<1>1. params[side] \in {Any, "true"} /\ (isEmpty(params[side]) <=> params[side] = Any)
  BY Constants, FilterKeys DEF isEmpty, FilterInv, Winners
<1>2. v \in Races \cup {"true", Null} /\ v # params[side]
  BY <1>1, Constants
<1>3. DigestAfter([State EXCEPT !.scope[side] = v])
  BY <1>1 DEF toggleWinner, FilterInv
<1>4. Becomes(Choice(side, v), sorted) /\ timer'
  BY <1>2, <1>3, ChoiceFilter DEF Winners
<1>5. Choice(side, v) = p
  BY <1>1, Constants DEF FilterInv, OneWinner, Filters, Choice, Keys, Winners
<1> QED BY <1>4, <1>5

-------------------------------------------------------------------------------
(* The invariant.  What is known of the newest request is known of its answer,  *)
(* as long as nothing has been changed since (then the timer runs).             *)

ServerType ==
  /\ sent \in Nat
  /\ requests \subseteq [id : 1 .. sent, query : Filters]
  /\ shown = Null \/ shown \in [id : 1 .. sent, query : Filters, page : Nat \ {0}]
  /\ events \in 0 .. MaxEvents

NewestIsCurrent ==
  ~timer => /\ \A r \in requests : r.id = sent => r.query = params
            /\ shown # Null => (shown.id = sent => shown.query = params)

ListInv == FilterInv /\ ServerType /\ NewestIsCurrent /\ ClicksTurnPages

(* An event, whatever it brings about: all copies are a new filter, and a list *)
(* will be asked for unless the filter is the one it was.                      *)
LEMMA EventKeepsInv ==
  ASSUME ListInv, NEW what, Event(what), NEW p \in Filters, NEW s \in {Any} \cup Orders,
         Becomes(p, s), Any \in {p.one_wins, p.two_wins}, p.order # Any => s = p.order,
         timer' \in BOOLEAN, timer' \/ (params' = params /\ timer' = timer),
         ClicksTurnPages'
  PROVE  ListInv'
<1>1. FilterInv'
  BY DEF Becomes, FilterInv, ListInv, OneWinner
<1>2. /\ requests' = requests /\ sent' = sent /\ shown' = shown
      /\ events' = events + 1 /\ events < MaxEvents /\ cause' = what
  BY DEF Event, server
<1>3. ServerType'
  <2>1. events \in 0 .. MaxEvents /\ MaxEvents \in Nat
    BY MatchListAssumption DEF ListInv, ServerType
  <2>2. events' \in 0 .. MaxEvents
    BY <1>2, <2>1
  <2> QED BY <1>2, <2>2 DEF ListInv, ServerType
<1>4. NewestIsCurrent'
  BY <1>2 DEF ListInv, NewestIsCurrent, FilterInv
<1> QED BY <1>1, <1>3, <1>4 DEF ListInv

LEMMA SelectRaceStep ==
  ASSUME ListInv, NEW race \in Races, SelectRace(race)
  PROVE  ListInv' /\ Search!SelectRace(race)
<1> DEFINE p == [params EXCEPT !.race = IF @ = race THEN Any ELSE race, !.page = 1]
<1>1. Becomes(p, sorted) /\ timer'
  BY RaceFilter DEF ListInv
<1>2. /\ p \in Filters /\ p.one_wins = params.one_wins /\ p.two_wins = params.two_wins
      /\ p.order = params.order /\ p.page = 1
  <2>1. params \in Filters
    BY DEF ListInv, FilterInv
  <2>2. (IF params.race = race THEN Any ELSE race) \in Races \cup {Any}
    OBVIOUS
  <2>3. 1 \in {Any} \cup (Nat \ {0})
    OBVIOUS
  <2> QED BY <2>1, <2>2, <2>3 DEF Filters
<1>3. Event(<<"choice">>)
  BY DEF SelectRace
<1>4. timer' = TRUE
  BY <1>1 DEF SelectRace, DigestAfter
<1>5. Search!SelectRace(race)
  BY <1>1 DEF Becomes, Search!SelectRace
<1> HIDE DEF p
<1>6. ClicksTurnPages'
  BY <1>1, <1>2, <1>3 DEF Event, Becomes, ClicksTurnPages
<1>7. /\ sorted \in {Any} \cup Orders /\ Any \in {p.one_wins, p.two_wins}
      /\ p.order # Any => sorted = p.order
  BY <1>2 DEF ListInv, FilterInv, OneWinner
<1>8. ListInv'
  BY <1>1, <1>2, <1>3, <1>4, <1>6, <1>7, EventKeepsInv
<1> QED BY <1>5, <1>8

LEMMA ToggleWinnerStep ==
  ASSUME ListInv, NEW side \in Winners, toggleWinner(side)
  PROVE  ListInv' /\ Search!ToggleWinner(side)
<1> DEFINE toggled(k) == IF k = side /\ params[k] = Any THEN "true" ELSE Any
           p == [params EXCEPT !.one_wins = toggled("one_wins"),
                               !.two_wins = toggled("two_wins"), !.page = 1]
<1>1. Becomes(p, sorted) /\ timer'
  BY WinnerFilter DEF ListInv
<1>2. /\ p \in Filters /\ Any \in {p.one_wins, p.two_wins}
      /\ p.order = params.order /\ p.page = 1
  <2>1. params \in Filters /\ side \in Winners
    BY DEF ListInv, FilterInv
  <2>2. /\ toggled("one_wins") \in {Any, "true"} /\ toggled("two_wins") \in {Any, "true"}
        /\ Any \in {toggled("one_wins"), toggled("two_wins")}
    BY <2>1 DEF Winners
  <2>3. 1 \in {Any} \cup (Nat \ {0})
    OBVIOUS
  <2> HIDE DEF toggled
  <2> QED BY <2>1, <2>2, <2>3 DEF Filters
<1>3. Event(<<"choice">>) /\ list = "matches"
  BY DEF toggleWinner
<1>4. timer' = TRUE
  BY <1>1 DEF toggleWinner, DigestAfter
<1>5. Search!ToggleWinner(side)
  BY <1>1, <1>3 DEF Becomes, Search!ToggleWinner
<1> HIDE DEF p
<1>6. ClicksTurnPages'
  BY <1>1, <1>2, <1>3 DEF Event, Becomes, ClicksTurnPages
<1>7. sorted \in {Any} \cup Orders /\ (p.order # Any => sorted = p.order)
  BY <1>2 DEF ListInv, FilterInv
<1>8. ListInv'
  BY <1>1, <1>2, <1>3, <1>4, <1>6, <1>7, EventKeepsInv
<1> QED BY <1>5, <1>8

LEMMA OrderStep ==
  ASSUME ListInv, NEW field \in Columns, order(field)
  PROVE  ListInv' /\ Search!Order(field)
<1> DEFINE clicked == Clicked(field)
           p == [params EXCEPT !.order = clicked, !.page = Any]
<1>1. Becomes(p, clicked) /\ timer'
  BY OrderFilter DEF ListInv
<1>2. /\ p \in Filters /\ p.one_wins = params.one_wins /\ p.two_wins = params.two_wins
      /\ p.order = clicked /\ p.page = Any /\ clicked \in Orders
  BY ClickedType DEF ListInv, FilterInv, Filters
<1>3. Event(<<"choice">>) /\ list = "players"
  BY DEF order
<1>4. timer' = TRUE
  BY <1>1 DEF order, DigestAfter
<1>5. Search!Order(field)
  BY <1>1, <1>3 DEF Becomes, Clicked, Search!Order
<1> HIDE DEF p, clicked
<1>6. ClicksTurnPages'
  BY <1>1, <1>2, <1>3 DEF Event, Becomes, ClicksTurnPages
<1>7. Any \in {p.one_wins, p.two_wins}
  BY <1>2 DEF ListInv, FilterInv, OneWinner
<1>8. ListInv'
  BY <1>1, <1>2, <1>3, <1>4, <1>6, <1>7, EventKeepsInv
<1> QED BY <1>5, <1>8

LEMMA PageStep ==
  ASSUME ListInv, NEW n \in Nat \ {0}, Event(<<"page", n>>),
         DigestAfter([State EXCEPT !.params.page = n])
  PROVE  ListInv' /\ Search!TurnPage
<1> DEFINE p == [params EXCEPT !.page = n]
<1>1. Becomes(p, sorted) /\ (timer' \/ (params' = params /\ timer' = timer))
  BY PageFilter DEF ListInv
<1>2. /\ p \in Filters /\ p.one_wins = params.one_wins /\ p.two_wins = params.two_wins
      /\ p.order = params.order /\ p.page = n
  BY DEF ListInv, FilterInv, Filters
<1>3. timer' \in BOOLEAN
  BY <1>1 DEF DigestAfter, ListInv, FilterInv
<1>4. Search!TurnPage
  BY <1>1, <1>2 DEF Becomes, Search!TurnPage
<1> HIDE DEF p
<1>5. ClicksTurnPages'
  BY <1>1, <1>2 DEF Event, Becomes, ClicksTurnPages
<1>6. /\ sorted \in {Any} \cup Orders /\ Any \in {p.one_wins, p.two_wins}
      /\ p.order # Any => sorted = p.order
  BY <1>2 DEF ListInv, FilterInv, OneWinner
<1>7. ListInv'
  BY <1>1, <1>2, <1>3, <1>5, <1>6, EventKeepsInv
<1> QED BY <1>4, <1>7

LEMMA VisitStep ==
  ASSUME ListInv, NEW u \in Links[list], Visit(u)
  PROVE  ListInv' /\ Search!Visit
<1>1. Becomes(u, Sorted(u, sorted)) /\ timer'
  BY VisitFilter DEF ListInv
<1>2. u \in Filters /\ Any \in {u.one_wins, u.two_wins}
  BY LinkIsFilter DEF ListInv, FilterInv
<1>3. /\ Sorted(u, sorted) \in {Any} \cup Orders
      /\ u.order # Any => Sorted(u, sorted) = u.order
  BY <1>2 DEF ListInv, FilterInv, Filters, Sorted
<1>4. Event(<<"visit">>)
  BY DEF Visit
<1>5. timer' = TRUE
  BY <1>1 DEF Visit, DigestAfter
<1>6. ListInv'
  <2>1. ClicksTurnPages'
    BY <1>4 DEF Event, ClicksTurnPages
  <2> QED BY <1>1, <1>2, <1>3, <1>4, <1>5, <2>1, EventKeepsInv
<1>7. Search!Visit
  BY <1>1 DEF Becomes, Sorted, Search!Visit
<1> QED BY <1>6, <1>7

LEMMA ServerStep ==
  ASSUME ListInv, Refresh \/ \E r \in requests : Answer(r) \/ Fail(r)
  PROVE  ListInv' /\ UNCHANGED <<list, params, sorted>>
<1>1. UNCHANGED <<list, params, scope, url, sorted, settled>> /\ timer' \in BOOLEAN
  BY DEF Refresh, Answer, Fail, filter, ListInv, FilterInv
<1>2. FilterInv'
  BY <1>1 DEF ListInv, FilterInv, OneWinner
<1>3. CASE Refresh
  <2>1. cleanParams(params) = params /\ params \in Filters
    BY StateType, CleanParams DEF ListInv, FilterInv, Clean
  <2>2. ServerType'
    BY <1>3, <2>1 DEF ListInv, ServerType, Refresh
  <2>3. NewestIsCurrent'
    BY <1>1, <1>3, <2>1 DEF ListInv, ServerType, NewestIsCurrent, Refresh
  <2>4. ClicksTurnPages'
    BY <1>3 DEF ClicksTurnPages, Refresh
  <2> QED BY <1>1, <1>2, <2>2, <2>3, <2>4 DEF ListInv
<1>4. ASSUME NEW r \in requests, Answer(r) \/ Fail(r)
      PROVE  ListInv'
  <2>1. r.query \in Filters /\ r.id \in 1 .. sent
    BY DEF ListInv, ServerType
  <2>2. r.query.page \in {Any} \cup (Nat \ {0})
    BY <2>1 DEF Filters
  <2>3. ServerType'
    BY <1>4, <2>1, <2>2 DEF ListInv, ServerType, Answer, Fail
  <2>4. NewestIsCurrent'
    BY <1>1, <1>4 DEF ListInv, ServerType, NewestIsCurrent, Answer, Fail
  <2>5. ClicksTurnPages'
    BY <1>1, <1>4 DEF ListInv, ClicksTurnPages, Answer, Fail
  <2> QED BY <1>2, <2>3, <2>4, <2>5 DEF ListInv
<1> QED BY <1>1, <1>3, <1>4

LEMMA ListNext ==
  ASSUME ListInv, [Next]_vars
  PROVE  ListInv' /\ [Search!Next]_(Search!search)
<1>1. ASSUME NEW race \in Races, SelectRace(race)
      PROVE  ListInv' /\ Search!Next
  BY <1>1, SelectRaceStep DEF Search!Next
<1>2. ASSUME NEW k \in Winners, toggleWinner(k)
      PROVE  ListInv' /\ Search!Next
  BY <1>2, ToggleWinnerStep DEF Search!Next, Winners
<1>3. ASSUME NEW field \in Columns, order(field)
      PROVE  ListInv' /\ Search!Next
  BY <1>3, OrderStep DEF Search!Next
<1>4. CASE nextPage \/ prevPage
  <2>1. shown.page \in Nat \ {0}
    BY <1>4 DEF nextPage, prevPage, ListInv, ServerType
  <2>2. CASE nextPage
    <3>1. shown.page + 1 \in Nat \ {0}
      BY <2>1
    <3>2. /\ Event(<<"page", shown.page + 1>>)
          /\ DigestAfter([State EXCEPT !.params.page = shown.page + 1])
      BY <2>2 DEF nextPage
    <3> QED BY <3>1, <3>2, PageStep DEF Search!Next
  <2>3. CASE prevPage
    <3>1. shown.page - 1 \in Nat \ {0}
      BY <2>1, <2>3 DEF prevPage
    <3>2. /\ Event(<<"page", shown.page - 1>>)
          /\ DigestAfter([State EXCEPT !.params.page = shown.page - 1])
      BY <2>3 DEF prevPage
    <3> QED BY <3>1, <3>2, PageStep DEF Search!Next
  <2> QED BY <1>4, <2>2, <2>3
<1>5. ASSUME NEW u \in Links[list], Visit(u)
      PROVE  ListInv' /\ Search!Next
  BY <1>5, VisitStep DEF Search!Next
<1>6. CASE Refresh \/ \E r \in requests : Answer(r) \/ Fail(r)
  BY <1>6, ServerStep DEF Search!search
<1>7. CASE UNCHANGED vars
  BY <1>7 DEF vars, filter, server, ListInv, FilterInv, ServerType, NewestIsCurrent,
              OneWinner, ClicksTurnPages, Search!search
<1> QED BY <1>1, <1>2, <1>3, <1>4, <1>5, <1>6, <1>7 DEF Next

(* The first digest, in which no watch has seen anything yet. *)
LEMMA ListInit ==
  ASSUME Init
  PROVE  ListInv /\ Search!Init
<1> DEFINE unseen == [k \in Keys |-> Unseen]
           Opened(u) == [scope |-> [k \in Keys |-> Null], params |-> u, url |-> u,
                         sorted |-> u.order, saw |-> unseen, last |-> unseen,
                         fresh |-> TRUE, ask |-> FALSE, dirty |-> FALSE]
           At(l, u) == LET e == Digest(Opened(u))
                       IN /\ list = l
                          /\ scope = e.scope /\ params = e.params /\ url = e.url
                          /\ sorted = e.sorted
                          /\ settled = ~e.dirty
                          /\ timer = e.ask
                          /\ requests = {} /\ sent = 0 /\ shown = Null
                          /\ events = 0
                          /\ cause = <<"visit">>
<1>0. PICK l \in {"matches", "players"} : \E u \in Links[l] : At(l, u)
  BY DEF Init
<1>1. PICK u \in Links[l] : At(l, u)
  BY <1>0, Zenon
<1> DEFINE first == u.order
           d == Opened(u)
<1>2. u \in Filters /\ Any \in {u.one_wins, u.two_wins} /\ u \in Clean
  BY LinkIsFilter, FilterKeys
<1>3. first \in {Any} \cup Orders
  BY <1>2 DEF Filters
<1>4. d \in Digests /\ Read(d) = u /\ d.fresh /\ d.url = u /\ d.sorted = first /\ d.saw = unseen
  <2>1. [k \in Keys |-> Null] \in Copies /\ unseen \in Sights
    BY DEF Copies, Values, Sights
  <2>2. first \in Values
    BY <1>3 DEF Values
  <2>3. u \in Copies
    BY <1>2 DEF Clean
  <2> DEFINE e == [scope |-> [k \in Keys |-> Null], params |-> u, url |-> u,
                   sorted |-> first, saw |-> unseen, last |-> unseen,
                   fresh |-> TRUE, ask |-> FALSE, dirty |-> FALSE]
  <2>4. d = e
    OBVIOUS
  <2> HIDE DEF first, unseen, d
  <2>5. e \in Digests /\ Read(e) = u
    BY <2>1, <2>2, <2>3 DEF Digests, Read
  <2> QED BY <2>4, <2>5
<1>5. u # unseen
  <2>1. u.order # Unseen /\ unseen["order"] = Unseen
    BY <1>2, Constants DEF Filters, Keys
  <2> QED BY <2>1
<1>6. cleanParams(u) = u
  BY <1>2, CleanParams DEF Clean
<1> HIDE DEF d, unseen, first, Opened, At
<1>7. Settled(Digest(d), u, Sorted(u, first))
  BY <1>2, <1>4, <1>5, <1>6, ParamsDigest
<1>8. Sorted(u, first) = first
  BY DEF first, Sorted
<1>9. /\ list = l /\ scope = u /\ params = u /\ url = u /\ sorted = first
      /\ settled /\ timer = TRUE
      /\ requests = {} /\ sent = 0 /\ shown = Null /\ events = 0 /\ cause = <<"visit">>
  <2>1. /\ list = l /\ scope = Digest(d).scope /\ params = Digest(d).params
        /\ url = Digest(d).url /\ sorted = Digest(d).sorted
        /\ settled = ~Digest(d).dirty /\ timer = Digest(d).ask
        /\ requests = {} /\ sent = 0 /\ shown = Null /\ events = 0 /\ cause = <<"visit">>
    BY <1>1 DEF d, At
  <2>2. Digest(d).ask = TRUE
    BY <1>7 DEF Settled, Digests
  <2> QED BY <1>7, <1>8, <2>1, <2>2 DEF Settled, Rest
<1>10. FilterInv
  BY <1>2, <1>3, <1>9 DEF first, FilterInv, OneWinner
<1>11. ServerType /\ NewestIsCurrent /\ ClicksTurnPages
  <2>0. MaxEvents \in Nat
    BY MatchListAssumption
  <2>1. 0 \in 0 .. MaxEvents
    BY <2>0
  <2>2. ServerType
    BY <1>9, <2>1 DEF ServerType
  <2>3. NewestIsCurrent
    BY <1>9 DEF NewestIsCurrent
  <2>4. ClicksTurnPages
    BY <1>9 DEF ClicksTurnPages
  <2> QED BY <2>2, <2>3, <2>4
<1>12. Search!Init
  BY <1>9 DEF first, Search!Init
<1> QED BY <1>10, <1>11, <1>12 DEF ListInv

-------------------------------------------------------------------------------
(* Results. *)

(* The invariant holds of the lists. *)
THEOREM ListInvariant == Spec => []ListInv
<1>1. Init => ListInv
  BY ListInit
<1>2. ListInv /\ [Next]_vars => ListInv'
  BY ListNext
<1> QED BY <1>1, <1>2, PTL DEF Spec

(* Every state has its type: above all, the parameters are always a filter the *)
(* server knows, and the page on the screen is a page.                         *)
THEOREM ListTypes == Spec => []TypeOK
<1>1. ListInv => TypeOK
  BY DEF ListInv, FilterInv, Filters, ServerType, TypeOK
<1> QED BY <1>1, ListInvariant, PTL

(* Every digest ends within Angular's ten passes, whatever is clicked, opened  *)
(* or gone back to.                                                            *)
THEOREM DigestsSettle == Spec => []DigestSettles
<1>1. ListInv => DigestSettles
  BY DEF ListInv, FilterInv, DigestSettles
<1> QED BY <1>1, ListInvariant, PTL

(* After each the URL, the parameters and the widgets are the same filter. *)
THEOREM CopiesAlwaysAgree == Spec => []CopiesAgree
<1>1. ListInv => CopiesAgree
  BY DEF ListInv, FilterInv, CopiesAgree
<1> QED BY <1>1, ListInvariant, PTL

(* The two keys of the winner are never both set, though they are written one  *)
(* by one.                                                                     *)
THEOREM AtMostOneWinner == Spec => []OneWinner
<1>1. ListInv => OneWinner
  BY DEF ListInv, FilterInv
<1> QED BY <1>1, ListInvariant, PTL

(* A page that is clicked is the page of the filter that results; any other    *)
(* click leads to the first one.                                               *)
THEOREM PagesFollowClicks == Spec => []ClicksTurnPages
<1>1. ListInv => ClicksTurnPages
  BY DEF ListInv
<1> QED BY <1>1, ListInvariant, PTL

(* The answer to the newest request, when nothing is under way, is the list    *)
(* that the filter asks for.                                                   *)
THEOREM NewestAnswerIsCurrent == Spec => []NewestListIsCurrent
<1>1. ListInv => NewestListIsCurrent
  BY DEF ListInv, NewestIsCurrent, NewestListIsCurrent, Quiet
<1> QED BY <1>1, ListInvariant, PTL

(* The circle of copies and watches implements the one filter of SearchFilter: *)
(* every event, with its digest, is one step of it.                            *)
THEOREM SearchImplemented == Spec => ImplementsSearch
<1>1. Init => Search!Init
  BY ListInit
<1>2. ListInv /\ [Next]_vars => [Search!Next]_(Search!search)
  BY ListNext
<1> QED BY <1>1, <1>2, ListInvariant, PTL DEF Spec, ImplementsSearch, Search!Spec
===============================================================================
