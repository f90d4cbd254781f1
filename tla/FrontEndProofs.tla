--------------------------- MODULE FrontEndProofs ---------------------------
(***************************************************************************)
(* For every set of databases and any number of visits: the safety         *)
(* properties of FrontEnd, from one inductive invariant.                   *)
(***************************************************************************)
EXTENDS FrontEnd, TLAPS

\* Nothing has been asked for, or painted, before a database is selected.
Unselected ==
    active = None => browseInitialized = FALSE /\ requests = {} /\ current = {} /\ events < 2

\* What is on screen is what the address says, once its events have run.
Routed ==
    /\ events = 0 => view = hash.route
    /\ events = 2 => hash = At("browse")

\* What must have happened when the selection is no longer that of the last visit
\* to a page: the event that will visit #browse is queued, or #info was left.
Moved(route) ==
    /\ route = "browse" => events > 0 /\ hash.route = "browse"
    /\ route = "info"   => view # "info"

LateAnswers ==
    \A r \in requests :
        /\ r.visit <= last[r.route]
        /\ (r.visit = last[r.route] /\ r.idx # active) => Moved(r.route)

Painted ==
    /\ ("browse" \in current /\ panel # active) => Moved("browse")
    /\ ("info" \in current /\ info # active) => Moved("info")

ListOnlyAfterInit == browseInitialized = FALSE => list.kind \in {"none", "error"}

FrontEndInv ==
    /\ TypeOK /\ DataIsWhatItSays /\ CopiesAgree /\ ResultsNeedAQuery
    /\ Unselected /\ Routed /\ LateAnswers /\ Painted /\ ListOnlyAfterInit

-----------------------------------------------------------------------------
\* visits is the largest number given to a visit.
LEMMA VisitsIsMaximum ==
    ASSUME last \in [DataRoutes -> 0 .. MaxVisits]
    PROVE  visits \in 0 .. MaxVisits /\ \A route \in DataRoutes : last[route] <= visits
  <1> USE FrontEndAssumption
  <1> DEFINE S == {last[route] : route \in DataRoutes}
             IsMax(x) == x \in S /\ \A y \in S : x >= y
  <1>1. S = {last["browse"], last["info"], last["random"]}
    BY DEF DataRoutes
  <1>2. last["browse"] \in 0 .. MaxVisits /\ last["info"] \in 0 .. MaxVisits
        /\ last["random"] \in 0 .. MaxVisits
    BY DEF DataRoutes
  <1>3. IsMax(last["browse"]) \/ IsMax(last["info"]) \/ IsMax(last["random"])
    BY <1>1, <1>2
  <1>4. \E x \in S : \A y \in S : x >= y
    BY <1>3
  <1>5. visits \in S /\ \A y \in S : visits >= y
    BY <1>4 DEF visits, Max
  <1>6. QED
    BY <1>5, <1>1, <1>2

-----------------------------------------------------------------------------
LEMMA InitFrontEndInv == Init => FrontEndInv
  <1> SUFFICES ASSUME Init PROVE FrontEndInv
    OBVIOUS
  <1> USE FrontEndAssumption DEF Init
  <1>1. TypeOK
    <2>1. LocationOK
      <3>1. PICK route \in Routes : hash = [route |-> route, q |-> FALSE]
        BY DEF At
      <3>2. hash \in Hashes
        BY <3>1 DEF Hashes
      <3>3. QED
        BY <3>2 DEF LocationOK
    <2>2. LoadedOK
      BY DEF LoadedOK, Kept
    <2>3. CopiesOK
      BY DEF CopiesOK, Kept
    <2>4. SearchOK
      BY DEF SearchOK
    <2>5. GhostOK
      BY DEF GhostOK
    <2>6. QED
      BY <2>1, <2>2, <2>3, <2>4, <2>5 DEF TypeOK
  <1>2. DataIsWhatItSays /\ CopiesAgree /\ ResultsNeedAQuery
    BY DEF DataIsWhatItSays, CopiesAgree, ResultsNeedAQuery
  <1>3. Unselected /\ Routed /\ LateAnswers /\ Painted /\ ListOnlyAfterInit
    BY DEF Unselected, Routed, LateAnswers, Painted, ListOnlyAfterInit
  <1>4. QED
    BY <1>1, <1>2, <1>3 DEF FrontEndInv

-----------------------------------------------------------------------------
\* Addresses and requests have the shapes that their sets say.
LEMMA Shapes ==
    /\ \A route \in Routes : At(route) \in Hashes /\ At(route).route = route
    /\ \A h \in Hashes : h.route \in Routes /\ h.q \in BOOLEAN
    /\ \A r \in Requests : /\ r.idx \in Databases /\ r.route \in DataRoutes /\ r.q \in BOOLEAN
                           /\ r.visit \in 1 .. MaxVisits /\ r.state \in {"fetch", "lookup"}
                           /\ r.idx # None
  <1>1. \A route \in Routes : At(route) \in Hashes /\ At(route).route = route
    BY DEF At, Hashes
  <1>2. \A h \in Hashes : h.route \in Routes /\ h.q \in BOOLEAN
    BY DEF Hashes
  <1>3. \A r \in Requests : /\ r.idx \in Databases /\ r.route \in DataRoutes /\ r.q \in BOOLEAN
                            /\ r.visit \in 1 .. MaxVisits /\ r.state \in {"fetch", "lookup"}
                            /\ r.idx # None
    BY FrontEndAssumption DEF Requests, None
  <1>4. QED
    BY <1>1, <1>2, <1>3

-----------------------------------------------------------------------------
(***************************************************************************)
(* The steps of the location: nothing is painted, asked for or filed.      *)
(***************************************************************************)
LEMMA LocationStep ==
    ASSUME FrontEndInv, LocationOK', Unselected', Routed', LateAnswers', Painted',
           UNCHANGED <<loaded, requests, copies, screen, search, ghost>>
    PROVE  FrontEndInv'
  <1> USE DEF FrontEndInv, loaded, copies, screen, search, ghost
  <1>1. TypeOK'
    BY DEF TypeOK, LoadedOK, CopiesOK, SearchOK, GhostOK
  <1>2. DataIsWhatItSays' /\ CopiesAgree' /\ ResultsNeedAQuery' /\ ListOnlyAfterInit'
    BY DEF DataIsWhatItSays, CopiesAgree, ResultsNeedAQuery, ListOnlyAfterInit
  <1>3. QED
    BY <1>1, <1>2

LEMMA NavigateStep ==
    ASSUME FrontEndInv, NEW h \in Hashes, Navigate(h)
    PROVE  FrontEndInv'
  <1> USE DEF FrontEndInv, Navigate, GoTo, loaded, copies, screen, search, ghost
  <1>1. LocationOK'
    BY DEF TypeOK, LocationOK
  <1>2. Unselected' /\ Routed'
    BY DEF Unselected, Routed
  <1>3. LateAnswers' /\ Painted'
    BY DEF LateAnswers, Painted, Moved
  <1>4. QED
    BY <1>1, <1>2, <1>3, LocationStep

\* The selector is on screen, so #info is not, and #browse is about to be visited.
LEMMA SelectDatabaseStep ==
    ASSUME FrontEndInv, NEW idx \in Databases, SelectDatabase(idx)
    PROVE  FrontEndInv'
  <1> USE DEF FrontEndInv, SelectDatabase, loaded, copies, screen, search, ghost
  <1>1. hash # At("browse") /\ At("browse") \in Hashes /\ At("browse").route = "browse"
    BY Shapes DEF Routed, Routes, DataRoutes
  <1>2. hash' = At("browse") /\ events' = 1 /\ hash'.route = "browse"
    BY <1>1 DEF GoTo
  <1>3. LocationOK'
    BY <1>1, <1>2 DEF TypeOK, LocationOK, Kept
  <1>4. Unselected'
    BY FrontEndAssumption DEF Unselected, None
  <1>5. Routed'
    BY <1>2 DEF Routed
  <1>6. LateAnswers' /\ Painted'
    BY <1>2 DEF LateAnswers, Painted, Moved
  <1>7. QED
    BY <1>3, <1>4, <1>5, <1>6, LocationStep

LEMMA RenderDatabasesStep ==
    ASSUME FrontEndInv, RenderDatabases
    PROVE  FrontEndInv'
  <1> USE DEF FrontEndInv, RenderDatabases, loaded, copies, screen, search, ghost
  <1>1. hash # At("browse") /\ events = 1
    BY Shapes DEF TypeOK, LocationOK, Routed, Routes, DataRoutes
  <1>2. LocationOK'
    BY <1>1 DEF TypeOK, LocationOK, Routes
  <1>3. Unselected' /\ Routed'
    BY <1>1 DEF Unselected, Routed
  <1>4. LateAnswers' /\ Painted'
    BY DEF LateAnswers, Painted, Moved
  <1>5. QED
    BY <1>2, <1>3, <1>4, LocationStep

LEMMA RenderUnselectedStep ==
    ASSUME FrontEndInv, RenderUnselected
    PROVE  FrontEndInv'
  <1> USE DEF FrontEndInv, RenderUnselected, loaded, copies, screen, search, ghost
  <1>1. requests = {} /\ current = {} /\ events = 1
    BY DEF Unselected, TypeOK, LocationOK
  <1>2. LocationOK'
    BY Shapes DEF TypeOK, LocationOK, Routes
  <1>3. Unselected' /\ Routed'
    BY <1>1 DEF Unselected, Routed
  <1>4. LateAnswers' /\ Painted'
    BY <1>1 DEF LateAnswers, Painted
  <1>5. QED
    BY <1>2, <1>3, <1>4, LocationStep

-----------------------------------------------------------------------------
(***************************************************************************)
(* The steps of the search box and of the list: whose bookmarks the copies *)
(* hold, and the requests, stay as they are.                               *)
(***************************************************************************)
LEMMA SearchStep ==
    ASSUME FrontEndInv, UNCHANGED <<location, loaded, requests, copies, info, ghost>>,
           SearchOK', CopiesOK', CopiesAgree', ResultsNeedAQuery', ListOnlyAfterInit'
    PROVE  FrontEndInv'
  <1> USE DEF FrontEndInv, location, loaded, copies, ghost
  <1>1. TypeOK'
    BY DEF TypeOK, LocationOK, LoadedOK, GhostOK
  <1>2. DataIsWhatItSays' /\ Unselected' /\ Routed'
    BY DEF DataIsWhatItSays, Unselected, Routed
  <1>3. LateAnswers' /\ Painted'
    BY DEF LateAnswers, Painted, Moved
  <1>4. QED
    BY <1>1, <1>2, <1>3

\* renderPanel shows the panel, or leaves the list alone for want of a category.
LEMMA Rendered ==
    ASSUME NEW db \in Kept, list' = RenderPanel(db)
    PROVE  \/ list' = [kind |-> "panel", db |-> db]
           \/ list' = list /\ db \in Uncategorised
  BY DEF RenderPanel

\* The list is drawn from the copies.
LEMMA Listing ==
    ASSUME CopiesOK, CopiesAgree, UNCHANGED <<copies, info>>,
           \/ list' = list
           \/ list' = [kind |-> "panel", db |-> panel]
           \/ list' = [kind |-> "search", db |-> index]
    PROVE  CopiesOK' /\ CopiesAgree'
  <1> USE DEF CopiesOK, CopiesAgree, copies
  <1>1. /\ panel' \in Kept /\ index' \in Kept /\ pool' \in Kept /\ info' \in Kept
        /\ browseInitialized' \in BOOLEAN
        /\ panel' = panel /\ panel' = index' /\ panel' = pool'
    OBVIOUS
  <1>2. CASE list' = list
    BY <1>1, <1>2
  <1>3. CASE list' = [kind |-> "panel", db |-> panel]
    BY <1>1, <1>3
  <1>4. CASE list' = [kind |-> "search", db |-> index]
    BY <1>1, <1>4
  <1>5. QED
    BY <1>2, <1>3, <1>4

LEMMA TypeStep ==
    ASSUME FrontEndInv, NEW text \in BOOLEAN, Type(text)
    PROVE  FrontEndInv'
  <1> USE DEF FrontEndInv, Type, screen
  <1>1. SearchOK'
    BY DEF TypeOK, SearchOK, CopiesOK
  <1>2. CopiesOK' /\ CopiesAgree'
    BY Listing DEF TypeOK
  <1>3. ResultsNeedAQuery' /\ ListOnlyAfterInit'
    BY DEF ResultsNeedAQuery, ListOnlyAfterInit, copies
  <1>4. QED
    BY <1>1, <1>2, <1>3, SearchStep

LEMMA ClearSearchStep ==
    ASSUME FrontEndInv, ClearSearch
    PROVE  FrontEndInv'
  <1> USE DEF FrontEndInv, ClearSearch
  <1>1. SearchOK'
    BY DEF TypeOK, SearchOK
  <1>2. \/ list' = [kind |-> "panel", db |-> panel]
        \/ list' = list /\ panel \in Uncategorised
    BY Rendered DEF TypeOK, CopiesOK
  <1>3. CopiesOK' /\ CopiesAgree'
    BY <1>2, Listing DEF TypeOK
  <1>4. ResultsNeedAQuery' /\ ListOnlyAfterInit'
    BY <1>2 DEF ResultsNeedAQuery, ListOnlyAfterInit, copies
  <1>5. QED
    BY <1>1, <1>3, <1>4, SearchStep

LEMMA PickCategoryStep ==
    ASSUME FrontEndInv, PickCategory
    PROVE  FrontEndInv'
  <1> USE DEF FrontEndInv, PickCategory
  <1>1. SearchOK'
    BY DEF TypeOK, SearchOK
  <1>2. \/ list' = [kind |-> "panel", db |-> panel]
        \/ list' = list /\ panel \in Uncategorised
    BY Rendered DEF TypeOK, CopiesOK
  <1>3. CopiesOK' /\ CopiesAgree'
    BY <1>2, Listing DEF TypeOK
  <1>4. ResultsNeedAQuery' /\ ListOnlyAfterInit'
    BY <1>2 DEF ResultsNeedAQuery, ListOnlyAfterInit, copies
  <1>5. QED
    BY <1>1, <1>3, <1>4, SearchStep

LEMMA FilterPanelStep ==
    ASSUME FrontEndInv, FilterPanel
    PROVE  FrontEndInv'
  <1> USE DEF FrontEndInv, FilterPanel, search
  <1>1. SearchOK'
    BY DEF TypeOK, SearchOK
  <1>2. \/ list' = [kind |-> "panel", db |-> panel]
        \/ list' = list /\ panel \in Uncategorised
    BY Rendered DEF TypeOK, CopiesOK
  <1>3. CopiesOK' /\ CopiesAgree'
    BY <1>2, Listing DEF TypeOK
  <1>4. ResultsNeedAQuery' /\ ListOnlyAfterInit'
    BY <1>2 DEF ResultsNeedAQuery, ListOnlyAfterInit, copies
  <1>5. QED
    BY <1>1, <1>3, <1>4, SearchStep

\* The search that the timer starts may also go to #browse.
LEMMA RunSearchStep ==
    ASSUME FrontEndInv, RunSearch
    PROVE  FrontEndInv'
  <1> USE DEF FrontEndInv, RunSearch, loaded, copies, ghost
  <1>1. At("browse") \in Hashes /\ At("browse").route = "browse"
    BY Shapes DEF Routes, DataRoutes
  <1>2. \/ UNCHANGED <<hash, events>>
        \/ hash # At("browse") /\ hash' = At("browse") /\ events' = events + 1
    BY DEF GoTo
  <1>3. LocationOK'
    BY <1>1, <1>2 DEF TypeOK, LocationOK, Routed
  <1>4. SearchOK'
    BY DEF TypeOK, SearchOK
  <1>a. \/ box /\ list' = [kind |-> "search", db |-> index]
        \/ list' = [kind |-> "panel", db |-> panel]
        \/ list' = list /\ panel \in Uncategorised
    BY Rendered DEF TypeOK, CopiesOK
  <1>5. CopiesOK' /\ CopiesAgree'
    BY <1>a, Listing DEF TypeOK
  <1>6. LoadedOK' /\ GhostOK'
    BY DEF TypeOK, LoadedOK, GhostOK
  <1>7. DataIsWhatItSays' /\ ResultsNeedAQuery' /\ ListOnlyAfterInit'
    BY <1>a DEF DataIsWhatItSays, ResultsNeedAQuery, ListOnlyAfterInit
  <1>8. Unselected'
    BY DEF Unselected, TypeOK, CopiesOK
  <1>9. Routed'
    BY <1>1, <1>2 DEF Routed, TypeOK, LocationOK
  <1>10. LateAnswers' /\ Painted'
    BY <1>1, <1>2 DEF LateAnswers, Painted, Moved, TypeOK, LocationOK
  <1>11. QED
    BY <1>3, <1>4, <1>5, <1>6, <1>7, <1>8, <1>9, <1>10 DEF TypeOK

-----------------------------------------------------------------------------
(* The steps of a request that bring no data. *)

LEMMA FetchFailsStep ==
    ASSUME FrontEndInv, NEW r \in requests, FetchFails(r)
    PROVE  FrontEndInv'
  <1> USE DEF FrontEndInv, FetchFails, location, loaded, copies, screen, search, ghost
  <1> DEFINE s == [r EXCEPT !.state = "lookup"]
  <1>1. /\ s \in Requests /\ requests' \subseteq requests \union {s}
        /\ s.visit = r.visit /\ s.route = r.route /\ s.idx = r.idx
    BY DEF TypeOK, LoadedOK, Requests
  <1>2. TypeOK'
    BY <1>1 DEF TypeOK, LocationOK, LoadedOK, CopiesOK, SearchOK, GhostOK
  <1>3. DataIsWhatItSays' /\ CopiesAgree' /\ ResultsNeedAQuery' /\ ListOnlyAfterInit'
    BY DEF DataIsWhatItSays, CopiesAgree, ResultsNeedAQuery, ListOnlyAfterInit
  <1>4. Unselected' /\ Routed' /\ Painted'
    BY DEF Unselected, Routed, Painted, Moved
  <1>5. LateAnswers'
    <2> SUFFICES ASSUME NEW q \in requests'
                 PROVE  /\ q.visit <= last[q.route]
                        /\ (q.visit = last[q.route] /\ q.idx # active) => Moved(q.route)
      BY DEF LateAnswers, Moved
    <2>1. PICK p \in requests : q.visit = p.visit /\ q.route = p.route /\ q.idx = p.idx
      BY <1>1
    <2>2. QED
      BY <2>1 DEF LateAnswers, Moved
  <1>6. QED
    BY <1>2, <1>3, <1>4, <1>5

LEMMA RejectsStep ==
    ASSUME FrontEndInv, NEW r \in requests, Rejects(r)
    PROVE  FrontEndInv'
  <1> USE DEF FrontEndInv, Rejects, location, loaded, copies, search, ghost
  <1>1. list' = list \/ list' = [kind |-> "error", db |-> None]
    OBVIOUS
  <1>2. LocationOK' /\ LoadedOK' /\ SearchOK' /\ GhostOK'
    BY DEF TypeOK, LocationOK, LoadedOK, SearchOK, GhostOK
  <1>3. CopiesOK' /\ CopiesAgree'
    BY <1>1 DEF TypeOK, CopiesOK, CopiesAgree, Kept
  <1>4. DataIsWhatItSays' /\ ResultsNeedAQuery' /\ ListOnlyAfterInit'
    BY <1>1 DEF DataIsWhatItSays, ResultsNeedAQuery, ListOnlyAfterInit
  <1>5. Unselected' /\ Routed' /\ Painted' /\ LateAnswers'
    BY DEF Unselected, Routed, Painted, LateAnswers, Moved
  <1>6. QED
    BY <1>2, <1>3, <1>4, <1>5 DEF TypeOK

-----------------------------------------------------------------------------
(***************************************************************************)
(* What the continuation of renderRoute leaves behind, for the data d.     *)
(***************************************************************************)
LEMMA Continuation ==
    ASSUME TypeOK, CopiesAgree, ResultsNeedAQuery, ListOnlyAfterInit,
           NEW w \in Requests, NEW d \in Databases, Continue(w, d)
    PROVE  /\ CopiesOK' /\ SearchOK' /\ current' \subseteq DataRoutes
           /\ CopiesAgree' /\ ResultsNeedAQuery' /\ ListOnlyAfterInit'
           /\ panel' = IF w.route = "browse" THEN d ELSE panel
           /\ info'  = IF w.route = "info"   THEN d ELSE info
           /\ \A route \in DataRoutes :
                route \in current' <=>
                    IF route = w.route THEN w.visit = last'[w.route] ELSE route \in current
  <1> USE DEF TypeOK
  <1>1. w.route \in DataRoutes /\ w.q \in BOOLEAN /\ hash.q \in BOOLEAN /\ d \in Kept
    BY Shapes DEF LocationOK, Kept
  <1>2. /\ current' \subseteq DataRoutes
        /\ \A route \in DataRoutes :
                route \in current' <=>
                    IF route = w.route THEN w.visit = last'[w.route] ELSE route \in current
    BY <1>1 DEF Continue, GhostOK
  <1>3. CASE w.route = "browse" /\ PaintBrowse(w, d)
    <2> USE <1>1, <1>3 DEF PaintBrowse, IndexOnUpdate, QueryOnUpdate
    <2>1. /\ panel' = d /\ index' = d /\ pool' = d /\ info' = info
          /\ browseInitialized' = TRUE /\ timer' = timer
          /\ box' = (box \/ w.q \/ hash.q) /\ searchQuery' = (box \/ w.q \/ hash.q \/ FALSE)
          /\ \/ list' = [kind |-> "search", db |-> d] /\ (box \/ w.q \/ hash.q)
             \/ list' = [kind |-> "panel", db |-> d]
             \/ list' = list /\ d \in Uncategorised
      BY Rendered
    <2>2. SearchOK'
      BY <2>1 DEF SearchOK
    <2>3. CopiesOK' /\ CopiesAgree'
      BY <2>1 DEF CopiesOK, CopiesAgree
    <2>4. ListOnlyAfterInit'
      BY <2>1 DEF ListOnlyAfterInit
    <2>5. ResultsNeedAQuery'
      <3>1. CASE list' = [kind |-> "search", db |-> d] /\ (box \/ w.q \/ hash.q)
        BY <2>1, <3>1 DEF ResultsNeedAQuery
      <3>2. CASE list' = [kind |-> "panel", db |-> d]
        BY <3>2 DEF ResultsNeedAQuery
      <3>3. CASE d \in Uncategorised
        BY <2>1, <3>3 DEF ResultsNeedAQuery
      <3>4. QED
        BY <2>1, <3>1, <3>2, <3>3
    <2>6. QED
      BY <1>2, <2>1, <2>2, <2>3, <2>4, <2>5
  <1>4. CASE w.route = "info" /\ PaintInfo(d)
    <2> USE <1>1, <1>4 DEF PaintInfo, copies, search
    <2>1. CopiesOK' /\ SearchOK' /\ CopiesAgree' /\ ResultsNeedAQuery' /\ ListOnlyAfterInit'
      BY DEF CopiesOK, SearchOK, CopiesAgree, ResultsNeedAQuery, ListOnlyAfterInit
    <2>2. QED
      BY <1>2, <2>1
  <1>5. CASE w.route = "random" /\ PaintRandom
    <2> USE <1>1, <1>5 DEF PaintRandom, copies, search, screen
    <2>1. CopiesOK' /\ SearchOK' /\ CopiesAgree' /\ ResultsNeedAQuery' /\ ListOnlyAfterInit'
      BY DEF CopiesOK, SearchOK, CopiesAgree, ResultsNeedAQuery, ListOnlyAfterInit
    <2>2. QED
      BY <1>2, <2>1
  <1>6. QED
    BY <1>3, <1>4, <1>5 DEF Continue

-----------------------------------------------------------------------------
(***************************************************************************)
(* A visit to a page with data: with a new number, from the address.       *)
(***************************************************************************)
LEMMA VisitNumbers ==
    ASSUME FrontEndInv, Visit
    PROVE  /\ Waiter \in Requests /\ hash.route \in DataRoutes /\ active \in Databases
           /\ Waiter.idx = active /\ Waiter.route = hash.route /\ Waiter.visit = visits + 1
           /\ last' \in [DataRoutes -> 0 .. MaxVisits]
           /\ last'[hash.route] = visits + 1
           /\ \A route \in DataRoutes \ {hash.route} : last'[route] = last[route]
           /\ \A r \in requests :
                r.visit < last'[r.route] \/ (r.route # hash.route /\ r.visit <= last'[r.route])
           /\ LocationOK' /\ Routed'
           /\ (events' > 0 => hash'.route = "browse")
  <1> USE FrontEndAssumption DEF FrontEndInv, Visit
  <1>1. hash.route \in DataRoutes /\ hash.q \in BOOLEAN /\ active \in Databases
    BY Shapes DEF TypeOK, LocationOK, Kept, Routes
  <1>2. visits \in 0 .. MaxVisits /\ \A route \in DataRoutes : last[route] <= visits
    BY VisitsIsMaximum DEF TypeOK, GhostOK
  <1>3. visits + 1 \in 1 .. MaxVisits
    BY <1>2
  <1>4. Waiter \in Requests
    BY <1>1, <1>3 DEF Waiter, Requests
  <1>5. Waiter.idx = active /\ Waiter.route = hash.route /\ Waiter.visit = visits + 1
    BY DEF Waiter
  <1>6. /\ last' \in [DataRoutes -> 0 .. MaxVisits]
        /\ last'[hash.route] = visits + 1
        /\ \A route \in DataRoutes \ {hash.route} : last'[route] = last[route]
    BY <1>1, <1>3 DEF TypeOK, GhostOK
  <1>7. \A r \in requests :
            r.visit < last'[r.route] \/ (r.route # hash.route /\ r.visit <= last'[r.route])
    <2> TAKE r \in requests
    <2>1. r.route \in DataRoutes /\ r.visit \in 1 .. MaxVisits /\ r.visit <= last[r.route]
      BY Shapes DEF TypeOK, LoadedOK, LateAnswers
    <2>2. last[r.route] \in 0 .. MaxVisits
      BY <2>1 DEF TypeOK, GhostOK
    <2>3. CASE r.route = hash.route
      BY <2>1, <2>2, <2>3, <1>2, <1>6
    <2>4. CASE r.route # hash.route
      BY <2>1, <2>2, <2>4, <1>6
    <2>5. QED
      BY <2>3, <2>4
  <1>8. LocationOK'
    BY <1>1 DEF TypeOK, LocationOK, Routes
  <1>9. events' > 0 => hash'.route = "browse"
    BY Shapes DEF TypeOK, LocationOK, Routed, Routes, DataRoutes
  <1>10. Routed'
    BY DEF TypeOK, LocationOK, Routed
  <1>11. QED
    BY <1>1, <1>4, <1>5, <1>6, <1>7, <1>8, <1>9, <1>10

\* The requests of older visits are late now, or were for another page.
LEMMA VisitKeepsLateAnswers ==
    ASSUME FrontEndInv, Visit, NEW r \in requests
    PROVE  /\ r.visit <= last'[r.route]
           /\ (r.visit = last'[r.route] /\ r.idx # active) => Moved(r.route)'
  <1> USE DEF FrontEndInv
  <1>1. r \in Requests /\ r.route \in DataRoutes /\ r.visit \in 1 .. MaxVisits
    BY Shapes DEF TypeOK, LoadedOK
  <1>2. CASE r.visit < last'[r.route]
    BY <1>1, <1>2, VisitNumbers
  <1>3. CASE r.route # hash.route /\ r.visit <= last'[r.route]
    <2>1. last'[r.route] = last[r.route]
      BY <1>1, <1>3, VisitNumbers
    <2>2. (r.visit = last[r.route] /\ r.idx # active) => Moved(r.route)
      BY DEF LateAnswers
    <2>3. Moved(r.route) => Moved(r.route)'
      BY <1>3 DEF Moved, Visit
    <2>4. QED
      BY <1>3, <2>1, <2>2, <2>3
  <1>4. QED
    BY <1>2, <1>3, VisitNumbers

\* A request of its own: what an older visit left is no longer current.
LEMMA RenderRequestStep ==
    ASSUME FrontEndInv, RenderRequest
    PROVE  FrontEndInv'
  <1> USE DEF FrontEndInv, RenderRequest, copies, screen, search
  <1>1. Visit
    OBVIOUS
  <1> HIDE DEF Visit
  <1>2. /\ hash' = hash /\ active' = active /\ view' = hash.route
        /\ UNCHANGED <<data, loadedDbIdx, cached>>
        /\ (events' > 0 => events > 0) /\ active # None
    BY DEF Visit, loaded, TypeOK, LocationOK
  <1>3. CopiesOK' /\ SearchOK' /\ LoadedOK' /\ GhostOK'
    BY <1>1, <1>2, VisitNumbers DEF TypeOK, CopiesOK, SearchOK, LoadedOK, GhostOK
  <1>4. DataIsWhatItSays' /\ CopiesAgree' /\ ResultsNeedAQuery' /\ ListOnlyAfterInit'
    BY <1>2 DEF DataIsWhatItSays, CopiesAgree, ResultsNeedAQuery, ListOnlyAfterInit
  <1>5. Unselected'
    BY <1>2 DEF Unselected
  <1>6. Painted'
    BY <1>1, <1>2, VisitNumbers DEF Painted, Moved, DataRoutes
  <1>7. LateAnswers'
    <2> SUFFICES ASSUME NEW r \in requests'
                 PROVE  /\ r.visit <= last'[r.route]
                        /\ (r.visit = last'[r.route] /\ r.idx # active) => Moved(r.route)'
      BY <1>2 DEF LateAnswers
    <2>1. CASE r = Waiter
      BY <1>1, <2>1, VisitNumbers, VisitsIsMaximum DEF TypeOK, GhostOK
    <2>2. CASE r \in requests
      BY <2>2, <1>1, VisitKeepsLateAnswers
    <2>3. QED
      BY <2>1, <2>2
  <1>8. QED
    BY <1>1, <1>3, <1>4, <1>5, <1>6, <1>7, VisitNumbers DEF TypeOK

\* The data is there already: the page is painted in the same task.
LEMMA RenderLoadedStep ==
    ASSUME FrontEndInv, RenderLoaded
    PROVE  FrontEndInv'
  <1> USE DEF FrontEndInv, RenderLoaded
  <1>1. Visit /\ Fresh /\ Continue(Waiter, data) /\ UNCHANGED requests
    OBVIOUS
  <1> HIDE DEF RenderLoaded
  <1>2. /\ hash' = hash /\ active' = active /\ view' = hash.route
        /\ UNCHANGED <<data, loadedDbIdx, cached>>
        /\ (events' > 0 => events > 0) /\ active # None
    BY <1>1 DEF Visit, loaded, TypeOK, LocationOK
  <1>3. data = active /\ data \in Databases
    BY <1>1 DEF Fresh, DataIsWhatItSays, TypeOK, LoadedOK, Kept
  <1>4. Waiter \in Requests /\ Waiter.route = hash.route /\ Waiter.visit = last'[hash.route]
    BY <1>1, VisitNumbers
  <1>5. /\ CopiesOK' /\ SearchOK' /\ current' \subseteq DataRoutes
        /\ CopiesAgree' /\ ResultsNeedAQuery' /\ ListOnlyAfterInit'
        /\ panel' = IF hash.route = "browse" THEN active ELSE panel
        /\ info'  = IF hash.route = "info"   THEN active ELSE info
        /\ \A route \in DataRoutes :
                route \in current' <=> (route = hash.route \/ route \in current)
    BY <1>1, <1>3, <1>4, Continuation
  <1>6. LoadedOK' /\ GhostOK' /\ DataIsWhatItSays' /\ Unselected'
    BY <1>1, <1>2, <1>5, VisitNumbers
       DEF TypeOK, LoadedOK, GhostOK, DataIsWhatItSays, Unselected
  <1>7. Painted'
    BY <1>2, <1>5 DEF Painted, Moved, DataRoutes
  <1>8. LateAnswers'
    BY <1>1, <1>2, VisitKeepsLateAnswers DEF LateAnswers
  <1>9. QED
    BY <1>1, <1>5, <1>6, <1>7, <1>8, VisitNumbers DEF TypeOK

-----------------------------------------------------------------------------
(***************************************************************************)
(* An answer, or a copy in its place, is filed under its own database and  *)
(* painted, however late.                                                  *)
(***************************************************************************)
LEMMA LoadStep ==
    ASSUME FrontEndInv, NEW r \in requests, Load(r, r.idx),
           cached' \in [Databases -> Kept], \A db \in Databases : cached'[db] \in {db, None}
    PROVE  FrontEndInv'
  <1> USE DEF FrontEndInv, Load, location, FiledUnder
  <1>1. /\ r \in Requests /\ r.route \in DataRoutes /\ r.idx \in Databases
        /\ r.visit \in 1 .. MaxVisits
    BY Shapes DEF TypeOK, LoadedOK
  <1>2. /\ CopiesOK' /\ SearchOK' /\ current' \subseteq DataRoutes
        /\ CopiesAgree' /\ ResultsNeedAQuery' /\ ListOnlyAfterInit'
        /\ panel' = IF r.route = "browse" THEN r.idx ELSE panel
        /\ info'  = IF r.route = "info"   THEN r.idx ELSE info
        /\ \A route \in DataRoutes :
                route \in current' <=>
                    IF route = r.route THEN r.visit = last'[r.route] ELSE route \in current
    BY <1>1, Continuation
  <1>3. LocationOK' /\ LoadedOK' /\ GhostOK'
    BY <1>1, <1>2 DEF TypeOK, LocationOK, LoadedOK, GhostOK, Kept
  <1>4. DataIsWhatItSays'
    BY DEF DataIsWhatItSays
  <1>5. Unselected' /\ Routed'
    BY DEF Unselected, Routed
  <1>6. LateAnswers'
    BY DEF LateAnswers, Moved
  <1>7. Painted'
    <2>1. (r.visit = last[r.route] /\ r.idx # active) => Moved(r.route)
      BY DEF LateAnswers
    <2>2. ("browse" \in current' /\ panel' # active) => Moved("browse")
      BY <1>2, <2>1 DEF Painted, DataRoutes
    <2>3. ("info" \in current' /\ info' # active) => Moved("info")
      BY <1>2, <2>1 DEF Painted, DataRoutes
    <2>4. QED
      BY <2>2, <2>3 DEF Painted, Moved
  <1>8. QED
    BY <1>2, <1>3, <1>4, <1>5, <1>6, <1>7 DEF TypeOK

LEMMA AnswerStep ==
    ASSUME FrontEndInv, NEW r \in requests, Answer(r)
    PROVE  FrontEndInv'
  <1>1. r.idx \in Databases
    BY Shapes DEF FrontEndInv, TypeOK, LoadedOK
  <1>2. cached \in [Databases -> Kept] /\ \A db \in Databases : cached[db] \in {db, None}
    BY DEF FrontEndInv, TypeOK, LoadedOK, DataIsWhatItSays
  <1>3. cached' \in [Databases -> Kept] /\ \A db \in Databases : cached'[db] \in {db, None}
    BY <1>1, <1>2 DEF Answer, Kept
  <1>4. QED
    BY <1>3, LoadStep DEF Answer

\* The browser's database keeps under an index what was fetched for it.
LEMMA FallbackStep ==
    ASSUME FrontEndInv, NEW r \in requests, Fallback(r)
    PROVE  FrontEndInv'
  <1>1. r.idx \in Databases
    BY Shapes DEF FrontEndInv, TypeOK, LoadedOK
  <1>2. cached \in [Databases -> Kept] /\ \A db \in Databases : cached[db] \in {db, None}
    BY DEF FrontEndInv, TypeOK, LoadedOK, DataIsWhatItSays
  <1>3. cached[r.idx] = r.idx
    BY <1>1, <1>2 DEF Fallback
  <1>4. QED
    BY <1>2, <1>3, LoadStep DEF Fallback

-----------------------------------------------------------------------------
LEMMA StutteringStep == FrontEndInv /\ UNCHANGED vars => FrontEndInv'
  <1> SUFFICES ASSUME FrontEndInv, UNCHANGED vars PROVE FrontEndInv'
    OBVIOUS
  <1>1. UNCHANGED <<loaded, requests, copies, screen, search, ghost>>
    BY DEF vars
  <1>2. LocationOK' /\ Unselected' /\ Routed' /\ LateAnswers' /\ Painted'
    BY DEF vars, location, loaded, copies, screen, search, ghost, FrontEndInv, TypeOK,
           LocationOK, Unselected, Routed, LateAnswers, Painted, Moved
  <1>3. QED
    BY <1>1, <1>2, LocationStep

\* For every set of databases, with categories or without: the conjuncts of
\* FrontEndInv hold after every task, in every order of clicks, answers and timers.
THEOREM FrontEndInvariant == Spec => []FrontEndInv
  <1>1. FrontEndInv /\ [Next]_vars => FrontEndInv'
    <2> SUFFICES ASSUME FrontEndInv, [Next]_vars PROVE FrontEndInv'
      OBVIOUS
    <2>1. CASE Router
      BY <2>1, RenderDatabasesStep, RenderUnselectedStep, RenderLoadedStep,
         RenderRequestStep DEF Router
    <2>2. CASE Network
      BY <2>2, AnswerStep, FetchFailsStep, FallbackStep, RejectsStep DEF Network
    <2>3. CASE User
      BY <2>3, NavigateStep, SelectDatabaseStep, TypeStep, ClearSearchStep,
         PickCategoryStep, FilterPanelStep DEF User
    <2>4. CASE RunSearch
      BY <2>4, RunSearchStep
    <2>5. CASE UNCHANGED vars
      BY <2>5, StutteringStep
    <2>6. QED
      BY <2>1, <2>2, <2>3, <2>4, <2>5 DEF Next
  <1>2. QED
    BY <1>1, InitFrontEndInv, PTL DEF Spec

\* Every variable of the front end keeps its type.
THEOREM FrontEndTypeOK == Spec => []TypeOK
  <1>1. FrontEndInv => TypeOK
    BY DEF FrontEndInv
  <1>2. QED
    BY <1>1, FrontEndInvariant, PTL

\* The bookmarks in memory are those of the database main.js files them under, and
\* each copy in the browser is of the database it is kept for.
THEOREM FrontEndDataIsWhatItSays == Spec => []DataIsWhatItSays
  <1>1. FrontEndInv => DataIsWhatItSays
    BY DEF FrontEndInv
  <1>2. QED
    BY <1>1, FrontEndInvariant, PTL

\* A page that its last visit has painted, and no late answer since, has its copies
\* of the selected database.
THEOREM FrontEndPaintsSelected == Spec => []LatestVisitPaintsSelected
  <1>1. FrontEndInv => LatestVisitPaintsSelected
    BY DEF FrontEndInv, Painted, Moved, LatestVisitPaintsSelected
  <1>2. QED
    BY <1>1, FrontEndInvariant, PTL

\* Sidebar, panel, search index and random page agree on the database, and the list
\* with them wherever that database has a category (renderPanel's early return).
THEOREM FrontEndCopiesAgree == Spec => []CopiesAgree
  <1>1. FrontEndInv => CopiesAgree
    BY DEF FrontEndInv
  <1>2. QED
    BY <1>1, FrontEndInvariant, PTL

\* Search results stand only under a box with text, wherever the database has a
\* category to show instead.
THEOREM FrontEndResultsNeedAQuery == Spec => []ResultsNeedAQuery
  <1>1. FrontEndInv => ResultsNeedAQuery
    BY DEF FrontEndInv
  <1>2. QED
    BY <1>1, FrontEndInvariant, PTL
=============================================================================
