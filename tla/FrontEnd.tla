------------------------------ MODULE FrontEnd ------------------------------
(***************************************************************************)
(* One tab of the single-page front end: the router of main.js, the data   *)
(* layer of data.js, the copies of the bookmarks that browse.js, panel.js, *)
(* search.js and random.js keep, and the search box.                       *)
(*                                                                         *)
(* Script runs to the end of a task: a step is one task with the promise   *)
(* callbacks it runs.  What separates tasks, and may come in any order, is *)
(* the user, the hashchange event, the search timer, the answer of each    *)
(* fetch and the browser's own database.  The contents of a database are   *)
(* its index.                                                              *)
(***************************************************************************)
EXTENDS Integers, FiniteSetsExt

CONSTANTS Databases,        \* the indices of the databases the server lists
          Uncategorised,    \* those without a category: their book_Marks is []
          MaxVisits         \* bound: pages with data the user goes to

ASSUME FrontEndAssumption ==
    Databases \subseteq Nat /\ Uncategorised \subseteq Databases /\ MaxVisits \in Nat

None == -1

VARIABLES
    active,             \* localStorage: the selected database
    cached,             \* IndexedDB: what is kept under each index
    hash, events,       \* location.hash; its hashchange events not yet run
    view,               \* the view that renderRoute has put on screen
    data, loadedDbIdx,  \* main.js
    requests,           \* the calls of fetchBookmarks under way
    browseInitialized,
    panel, index, pool, \* whose bookmarks sidebar and panel, search and random hold
    list, info,         \* whose bookmarks are on screen, in #browse and #info
    box, searchQuery, timer,    \* is there text, a query, a search to come
    last, current       \* ghost: the number of the last visit to each view; the
                        \* views that were painted by the last visit to them

location == <<active, hash, events, view>>
loaded   == <<data, loadedDbIdx, cached>>
copies   == <<browseInitialized, panel, index, pool>>
screen   == <<list, info>>
search   == <<box, searchQuery, timer>>
ghost    == <<last, current>>
vars     == <<location, loaded, requests, copies, screen, search, ghost>>

DataRoutes == {"browse", "info", "random"}
Routes     == DataRoutes \union {"databases"}
Hashes     == [route : Routes, q : BOOLEAN]      \* q: #browse?q=...

At(route)  == [route |-> route, q |-> FALSE]

Requests == [idx : Databases, route : DataRoutes, q : BOOLEAN,
             visit : 1 .. MaxVisits, state : {"fetch", "lookup"}]

Kept == Databases \union {None}

LocationOK ==
    /\ active \in Kept /\ hash \in Hashes /\ events \in 0 .. 2
    /\ view \in Routes \union {"none"}

LoadedOK ==
    /\ data \in Kept /\ loadedDbIdx \in Kept /\ cached \in [Databases -> Kept]
    /\ requests \subseteq Requests

CopiesOK ==
    /\ browseInitialized \in BOOLEAN
    /\ panel \in Kept /\ index \in Kept /\ pool \in Kept /\ info \in Kept
    /\ list \in [kind : {"none", "panel", "search", "error"}, db : Kept]

SearchOK == box \in BOOLEAN /\ searchQuery \in BOOLEAN /\ timer \in BOOLEAN
GhostOK  == last \in [DataRoutes -> 0 .. MaxVisits] /\ current \subseteq DataRoutes

TypeOK == LocationOK /\ LoadedOK /\ CopiesOK /\ SearchOK /\ GhostOK

(***************************************************************************)
(* The page is opened, or reloaded, at any address; what an earlier visit  *)
(* has left in the browser is there.  bootRouter calls renderRoute.        *)
(***************************************************************************)
Init ==
    /\ active \in Kept
    /\ cached \in {c \in [Databases -> Kept] :
                        \A db \in Databases : c[db] \in {db, None}}
    /\ hash \in {At(route) : route \in Routes} /\ events = 1 /\ view = "none"
    /\ data = None /\ loadedDbIdx = None /\ requests = {}
    /\ browseInitialized = FALSE /\ panel = None /\ index = None /\ pool = None
    /\ list = [kind |-> "none", db |-> None] /\ info = None
    /\ box = FALSE /\ searchQuery = FALSE /\ timer = FALSE
    /\ last = [route \in DataRoutes |-> 0] /\ current = {}

-----------------------------------------------------------------------------
GoToAlways(h) == hash' = h /\ events' = events + 1      \* faulty: an event in any case

\* Setting location.hash queues an event, unless it is what it was.
GoTo(h) == hash' = h /\ events' = IF h = hash THEN events ELSE events + 1

\* What updateCategories leaves of the query, and in the search index.
QueryKept     == searchQuery            \* faulty: the query survives
QueryOnUpdate == FALSE

IndexOnce(d)     == IF browseInitialized THEN index ELSE d  \* faulty: built once
IndexOnUpdate(d) == d

\* renderPanel, for a panel that holds db: without a category to show it returns,
\* and what is listed stays.  (Favourites are only listed where there are some.)
RenderPanel(db) == IF db \in Uncategorised THEN list ELSE [kind |-> "panel", db |-> db]

\* The continuation of #browse: initBrowse and initRandom, or their updates,
\* then renderBrowse, which looks at the address as it is now.
PaintBrowse(w, d) ==
    LET text  == box \/ w.q \/ hash.q
        query == text \/ QueryOnUpdate
    IN  /\ browseInitialized' = TRUE
        /\ panel' = d /\ index' = IndexOnUpdate(d) /\ pool' = d
        /\ box' = text /\ searchQuery' = query /\ UNCHANGED timer
        /\ list' = IF query THEN [kind |-> "search", db |-> index'] ELSE RenderPanel(d)
        /\ UNCHANGED info

PaintInfo(d) ==
    /\ info' = d
    /\ UNCHANGED <<copies, search, list>>

\* renderRandom draws from the pool that #browse has filled; before that it throws.
PaintRandom == UNCHANGED <<copies, search, screen>>

\* What follows ensureDataLoaded in renderRoute, for the visit w.
Continue(w, d) ==
    /\ \/ w.route = "browse" /\ PaintBrowse(w, d)
       \/ w.route = "info"   /\ PaintInfo(d)
       \/ w.route = "random" /\ PaintRandom
    /\ current' = IF w.visit = last'[w.route] THEN current \union {w.route}
                                              ELSE current \ {w.route}

-----------------------------------------------------------------------------
\* The user follows a link, presses back or edits the address.
Navigate(h) ==
    /\ events = 0 /\ h # hash /\ (h.q => h.route = "browse")
    /\ GoTo(h)
    /\ UNCHANGED <<active, view, loaded, requests, copies, screen, search, ghost>>

\* A click on a card of the database selector.
SelectDatabase(idx) ==
    /\ events = 0 /\ view = "databases"
    /\ active' = idx
    /\ GoTo(At("browse"))
    /\ UNCHANGED <<view, loaded, requests, copies, screen, search, ghost>>

\* renderRoute without data: the selector, or the way to it.
RenderDatabases ==
    /\ events > 0 /\ hash.route = "databases"
    /\ events' = events - 1 /\ view' = "databases"
    /\ UNCHANGED <<active, hash, loaded, requests, copies, screen, search, ghost>>

RenderUnselected ==
    /\ events > 0 /\ hash.route # "databases" /\ active = None
    /\ view' = hash.route
    /\ hash' = At("databases") /\ UNCHANGED events      \* one run, one queued
    /\ UNCHANGED <<active, loaded, requests, copies, screen, search, ghost>>

visits == Max({last[route] : route \in DataRoutes})     \* so far

Visit ==
    /\ events > 0 /\ hash.route # "databases" /\ active # None
    /\ visits < MaxVisits
    /\ events' = events - 1 /\ view' = hash.route
    /\ last' = [last EXCEPT ![hash.route] = visits + 1]
    /\ UNCHANGED <<active, hash, loaded>>

Waiter == [idx |-> active, route |-> hash.route, q |-> hash.q,
           visit |-> visits + 1, state |-> "fetch"]

\* The test of ensureDataLoaded.
AnyData == data # None                  \* faulty: forgets whose data it is
Fresh   == data # None /\ loadedDbIdx = active

RenderLoaded ==
    /\ Visit /\ Fresh
    /\ Continue(Waiter, data)
    /\ UNCHANGED requests

\* Every other visit makes a request of its own: a pending one is shared only
\* when loadedDbIdx is active already, and then data is there.
RenderRequest ==
    /\ Visit /\ ~Fresh
    /\ requests' = requests \union {Waiter}
    /\ current' = current \ {hash.route}
    /\ UNCHANGED <<copies, screen, search>>

-----------------------------------------------------------------------------
\* data.js and the callback of ensureDataLoaded.  What the answer is filed under:
FiledUnderActive(r) == active           \* faulty: reads the selection again
FiledUnder(r)       == r.idx

Load(r, d) ==
    /\ data' = d /\ loadedDbIdx' = FiledUnder(r)
    /\ requests' = requests \ {r}
    /\ UNCHANGED <<location, last>>
    /\ Continue(r, d)

\* The server answers.  The copy for later may fail to be kept.
Answer(r) ==
    /\ r.state = "fetch"
    /\ cached' \in {cached, [cached EXCEPT ![r.idx] = r.idx]}
    /\ Load(r, r.idx)

FetchFails(r) ==
    /\ r.state = "fetch"
    /\ requests' = (requests \ {r}) \union {[r EXCEPT !.state = "lookup"]}
    /\ UNCHANGED <<location, loaded, copies, screen, search, ghost>>

Fallback(r) ==
    /\ r.state = "lookup" /\ cached[r.idx] # None
    /\ Load(r, cached[r.idx])
    /\ UNCHANGED cached

\* Nothing kept, or not readable.  Only #browse handles the rejection.
Rejects(r) ==
    /\ r.state = "lookup"
    /\ requests' = requests \ {r}
    /\ list' = IF r.route = "browse" THEN [kind |-> "error", db |-> None] ELSE list
    /\ UNCHANGED <<location, loaded, copies, info, search, ghost>>

-----------------------------------------------------------------------------
\* keyboard.js listens to the box once initBrowse has run.
Type(text) ==
    /\ box' = text
    /\ timer' = browseInitialized
    /\ UNCHANGED <<searchQuery, location, loaded, requests, copies, screen, ghost>>

\* The search that the timer starts, or Enter.  An empty box leaves the query.
RunSearch ==
    /\ browseInitialized /\ timer' = FALSE
    /\ IF box /\ view # "browse" THEN GoTo(At("browse")) ELSE UNCHANGED <<hash, events>>
    /\ searchQuery' = (searchQuery \/ box)
    /\ list' = IF box THEN [kind |-> "search", db |-> index] ELSE RenderPanel(panel)
    /\ UNCHANGED <<active, view, box, loaded, requests, copies, info, ghost>>

\* The clear button, or Escape on the cards.
ClearSearch ==
    /\ browseInitialized /\ view = "browse"
    /\ box' = FALSE /\ searchQuery' = FALSE
    /\ list' = RenderPanel(panel)
    /\ UNCHANGED <<timer, location, loaded, requests, copies, info, ghost>>

\* A category of the sidebar, which lists those of the panel's database: ends a
\* search, if there is a query.
PickCategory ==
    /\ browseInitialized /\ view = "browse" /\ panel \notin Uncategorised
    /\ box' = (box /\ ~searchQuery) /\ searchQuery' = FALSE
    /\ list' = RenderPanel(panel)
    /\ UNCHANGED <<timer, location, loaded, requests, copies, info, ghost>>

\* Tags and stars, of the old cards too: the panel takes the place of whatever is
\* listed.
FilterPanel ==
    /\ browseInitialized /\ view = "browse"
    /\ list' = RenderPanel(panel)
    /\ UNCHANGED <<location, loaded, requests, copies, info, search, ghost>>

Router  == RenderDatabases \/ RenderUnselected \/ RenderLoaded \/ RenderRequest
Network == \E r \in requests : Answer(r) \/ FetchFails(r) \/ Fallback(r) \/ Rejects(r)
User    ==
    \/ \E h \in Hashes : Navigate(h)
    \/ \E idx \in Databases : SelectDatabase(idx)
    \/ \E text \in BOOLEAN : Type(text)
    \/ ClearSearch \/ PickCategory \/ FilterPanel

Next == Router \/ Network \/ User \/ RunSearch

Spec == Init /\ [][Next]_vars

-----------------------------------------------------------------------------
\* main.js:159 says that loadedDbIdx tells which database data is of.  It must
\* hold whatever is selected while requests are under way, and through the copy
\* in the browser.  It is also why a pending request is never shared.
DataIsWhatItSays ==
    /\ data = loadedDbIdx
    /\ \A db \in Databases : cached[db] \in {db, None}

\* When the last visit to a page has painted it, the page's copies are of the
\* selected database: they can only be of another one when the answer to an older
\* visit has come later (which is not prevented, and takes the page out of current).
LatestVisitPaintsSelected ==
    events = 0 =>
        /\ "browse" \in current => panel = active
        /\ (view = "info" /\ "info" \in current) => info = active

\* The sidebar, the panel, the search index and the random page hold the same
\* database, and the list on screen is made from it, whatever mix of searches,
\* failures and late answers came before; unless that database has no category:
\* then renderPanel leaves the cards, or the results, of another one standing.
CopiesAgree ==
    /\ panel = index /\ panel = pool
    /\ (list.kind \in {"panel", "search"} /\ panel \notin Uncategorised) => list.db = panel

\* Once typing has settled, search results stand only under a box with text,
\* although emptying the box leaves browse.js's query as it was; unless the
\* database has no category to show in their place.
ResultsNeedAQuery ==
    (list.kind = "search" /\ ~timer /\ panel \notin Uncategorised) => box
=============================================================================
