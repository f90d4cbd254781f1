----------------------------- MODULE HeaderCache -----------------------------
(***************************************************************************)
(* src/header_cache.c: the Date header that the workers share.  A worker   *)
(* reads the time, takes the mutex, formats the date again unless the last *)
(* time seen was the same, and copies it.  Seconds only; the clock is not  *)
(* set back, and what moves it is in the module that uses this one.        *)
(***************************************************************************)
EXTENDS Naturals

CONSTANT Threads    \* the workers

VARIABLES clock,
          hc_date,      \* the second that the cached string shows
          last_update,
          at,           \* at[w]: where w is in header_cache_date_copy
          now           \* now[w]: the second w has read

date == <<hc_date, last_update, at, now>>

Locked == {"update", "copy"}

\* header_cache_init: last_update keeps its zero.
Init ==
    /\ clock \in Nat \ {0}
    /\ hc_date = clock /\ last_update = 0
    /\ at = [w \in Threads |-> "out"]
    /\ now = [w \in Threads |-> 0]

Tick ==
    /\ clock' \in Nat /\ clock' >= clock
    /\ UNCHANGED date

Go(w, from, to) == at[w] = from /\ at' = [at EXCEPT ![w] = to]

\* The first time(NULL), before the mutex.
ReadTime(w) ==
    /\ Go(w, "out", "wait")
    /\ now' = [now EXCEPT ![w] = clock]
    /\ UNCHANGED <<clock, hc_date, last_update>>

Lock(w) ==
    /\ \A v \in Threads : at[v] \notin Locked
    /\ Go(w, "wait", IF now[w] # last_update THEN "update" ELSE "copy")
    /\ UNCHANGED <<clock, hc_date, last_update, now>>

UpdateToNow(w) ==               \* faulty: formats the second read before the lock
    /\ Go(w, "update", "copy")
    /\ hc_date' = now[w]
    /\ last_update' = now[w]
    /\ UNCHANGED <<clock, now>>

\* header_cache_update_date asks for the time again.
Update(w) ==
    /\ Go(w, "update", "copy")
    /\ hc_date' = clock
    /\ last_update' = now[w]
    /\ UNCHANGED <<clock, now>>

\* The copy, and the mutex is free again.
Copy(w) ==
    /\ Go(w, "copy", "out")
    /\ now' = [now EXCEPT ![w] = 0]
    /\ UNCHANGED <<clock, hc_date, last_update>>

DateCopy(w) == ReadTime(w) \/ Lock(w) \/ Update(w) \/ Copy(w)

Next == Tick \/ \E w \in Threads : DateCopy(w)

Spec == Init /\ [][Next]_<<clock, date>>

-----------------------------------------------------------------------------
(* Properties *)

DateTypeOK ==
    /\ clock \in Nat /\ hc_date \in Nat /\ last_update \in Nat
    /\ at \in [Threads -> {"out", "wait"} \union Locked]
    /\ now \in [Threads -> Nat]

\* No response is dated before the moment it began to be made, and the date that
\* is copied never goes back, whichever workers make the copies: although the
\* second is read before the mutex is taken, so that an older one may replace a
\* newer one in last_update.
Forward ==
    /\ hc_date' >= hc_date
    /\ \A w \in Threads : at[w] = "copy" /\ at'[w] = "out" => hc_date >= now[w]

=============================================================================
