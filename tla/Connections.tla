---------------------------- MODULE Connections ----------------------------
(***************************************************************************)
(* What the exporter promises about its *sql.DBs, without saying how: a    *)
(* handle is opened, becomes current, is retired and is closed, in that    *)
(* order and never back; a query starts to use a handle only while it is   *)
(* current and uses one handle at a time; what a query uses is not closed; *)
(* and nothing that was opened is lost before it is closed.                *)
(***************************************************************************)
CONSTANTS Query, Handle

VARIABLES
    fresh,    \* dialled, and nobody may use them yet
    current,  \* new work goes to these
    retired,  \* no new work; old work may still be on them
    closed,
    users     \* <<query, handle>>: a worker of the query holds the handle

connVars == <<fresh, current, retired, closed, users>>

Init ==
    /\ fresh = {} /\ current = {} /\ retired = {} /\ closed = {}
    /\ users = {}

Unused(H) == \A u \in users : u[2] \notin H

(***************************************************************************)
(* Each of the next three may take several handles at once: those by which *)
(* the sets differ before and after.                                       *)
(***************************************************************************)
Open ==
    /\ fresh \subseteq fresh'
    /\ fresh' \ fresh \subseteq
           Handle \ (fresh \cup current \cup retired \cup closed)
    /\ UNCHANGED <<current, retired, closed, users>>

Switch ==
    /\ fresh' \subseteq fresh
    /\ retired \subseteq retired'
    /\ retired' \ retired \subseteq current
    /\ current' = (current \ retired') \cup (fresh \ fresh')
    /\ UNCHANGED <<closed, users>>

Close ==
    /\ closed \subseteq closed'
    /\ closed' \ closed \subseteq fresh \cup retired
    /\ Unused(closed' \ closed)
    /\ fresh' = fresh \ closed'
    /\ retired' = retired \ closed'
    /\ UNCHANGED <<current, users>>

StartUse(n, h) ==
    /\ h \in current
    /\ \A u \in users : u[1] # n
    /\ users' = users \cup {<<n, h>>}
    /\ UNCHANGED <<fresh, current, retired, closed>>

EndUse(u) ==
    /\ users' = users \ {u}
    /\ UNCHANGED <<fresh, current, retired, closed>>

(***************************************************************************)
(* Shutdown.                                                               *)
(***************************************************************************)
CloseCurrent ==
    /\ users = {}
    /\ current' = {}
    /\ closed' = closed \cup current
    /\ UNCHANGED <<fresh, retired, users>>

Next ==
    \/ Open \/ Switch \/ Close \/ CloseCurrent
    \/ \E n \in Query : \E h \in current : StartUse(n, h)
    \/ \E u \in users : EndUse(u)

Spec == Init /\ [][Next]_connVars
=============================================================================
