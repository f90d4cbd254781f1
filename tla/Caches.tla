------------------------------- MODULE Caches --------------------------------
(***************************************************************************)
(* The two caches that the workers share, together: the bookmark file      *)
(* (BookmarkCache.tla), asked for by api_handle_request, and the Date      *)
(* header (HeaderCache.tla), asked for by every response_send, that of the *)
(* bookmarks included.  A worker is in one of the two at a time, and they  *)
(* go by the same clock.                                                   *)
(***************************************************************************)
EXTENDS BookmarkCache

VARIABLES hc_date, last_update, at, now

date == <<hc_date, last_update, at, now>>

Date == INSTANCE HeaderCache WITH Threads <- Readers

CachesInit == Init /\ Date!Init

Bookmarks(r) ==
    /\ at[r] = "out"
    /\ Request(r)
    /\ UNCHANGED date

DateHeader(r) ==
    /\ pc[r] = "idle"
    /\ Date!DateCopy(r)
    /\ UNCHANGED vars

World == (Tick \/ Edit \/ Remove) /\ UNCHANGED date

CachesNext == World \/ \E r \in Readers : Bookmarks(r) \/ DateHeader(r)

CachesSpec == CachesInit /\ [][CachesNext]_<<vars, date>>

-----------------------------------------------------------------------------
(* Properties *)

\* TypeOK of both; and a worker holds one of the two locks at most.
CachesTypeOK ==
    /\ TypeOK
    /\ Date!DateTypeOK
    /\ \A r \in Readers : pc[r] = "idle" \/ at[r] = "out"

\* As in HeaderCache: the Date header never goes back, and no response is dated
\* before the moment it began to be made.
DatesMoveForward == [][Date!Forward]_<<clock, date>>

=============================================================================
