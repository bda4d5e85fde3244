------------------------------- MODULE Depots -------------------------------
(***************************************************************************)
(* The depots of a tenant, modules/depots/routes.ts, one of which is the   *)
(* main one: a request reads what it needs and then writes in a            *)
(* transaction.  The transaction is one step: how the statements of two    *)
(* transactions mix is left out, and nothing is said of requests that      *)
(* crossed.                                                                *)
(***************************************************************************)
EXTENDS Naturals, FiniteSets

CONSTANTS Ids, Requests

VARIABLES
    depots,    \* the rows of Depot, the oldest first
    main,      \* those with isMain
    used,      \* the ids given so far
    req,       \* what each request is doing
    unmarked,  \* history: the main depot was unmarked by hand
    raced      \* history: two requests crossed

vars == <<depots, main, used, req, unmarked, raced>>

Idle == [step |-> "idle"]

Init ==
    /\ depots = [x \in {} |-> 0] /\ main = {} /\ used = {}
    /\ req = [r \in Requests |-> Idle]
    /\ unmarked = FALSE /\ raced = FALSE

Rows == DOMAIN depots

Begin(r, job) ==
    /\ req[r] = Idle
    /\ req' = [req EXCEPT ![r] = job]
    /\ raced' = (raced \/ \E q \in Requests : req[q] # Idle)
    /\ UNCHANGED <<depots, main, used, unmarked>>

End(r) == req' = [req EXCEPT ![r] = Idle] /\ UNCHANGED raced

-----------------------------------------------------------------------------
\* POST: the first depot is the main one whatever it asks.
CreateRead(r) ==
    \E asked \in BOOLEAN :
        Begin(r, [step |-> "create", isMain |-> asked \/ Rows = {}])

Create(r) ==
    /\ req[r].step = "create"
    /\ \E d \in Ids \ used :
         /\ depots' = [x \in Rows \cup {d} |-> IF x = d THEN Cardinality(used) ELSE depots[x]]
         /\ used' = used \cup {d}
         /\ main' = IF req[r].isMain THEN {d} ELSE main
    /\ unmarked' = (unmarked /\ ~req[r].isMain)
    /\ End(r)

\* PATCH: isMain may be among what changes, one way or the other.
PatchRead(r) ==
    \E d \in Rows, isMain \in BOOLEAN : Begin(r, [step |-> "patch", id |-> d, isMain |-> isMain])

\* The row is updated by its id: it throws, and the transaction with it, when it is
\* gone.
PatchAlone(r) ==
    /\ req[r].step = "patch" /\ req[r].id \in Rows
    /\ main' = IF req[r].isMain THEN main \cup {req[r].id} ELSE main \ {req[r].id}
    /\ unmarked' = (~req[r].isMain /\ (unmarked \/ req[r].id \in main))
    /\ End(r)
    /\ UNCHANGED <<depots, used>>

Patch(r) ==
    /\ req[r].step = "patch" /\ req[r].id \in Rows
    /\ main' = IF req[r].isMain THEN {req[r].id} ELSE main \ {req[r].id}
    /\ unmarked' = (~req[r].isMain /\ (unmarked \/ req[r].id \in main))
    /\ End(r)
    /\ UNCHANGED <<depots, used>>

\* DELETE: the depot is read, and if it was the main one then the oldest that is
\* left takes its place.
DeleteRead(r) ==
    \E d \in Rows : Begin(r, [step |-> "delete", id |-> d, wasMain |-> d \in main])

Oldest(rest) == {x \in rest : \A y \in rest : depots[x] <= depots[y]}

Delete(r) ==
    /\ req[r].step = "delete" /\ req[r].id \in Rows
    /\ LET rest == Rows \ {req[r].id} IN
         /\ depots' = [x \in rest |-> depots[x]]
         /\ main' = (main \ {req[r].id})
                      \cup (IF req[r].wasMain THEN Oldest(rest) ELSE {})
    /\ End(r)
    /\ UNCHANGED <<used, unmarked>>

\* A query throws, the transaction is rolled back, or the process restarts.
Abort(r) ==
    /\ req[r] # Idle
    /\ End(r)
    /\ UNCHANGED <<depots, main, used, unmarked>>

Next ==
    \E r \in Requests :
        \/ CreateRead(r) \/ Create(r)
        \/ PatchRead(r) \/ Patch(r)
        \/ DeleteRead(r) \/ Delete(r)
        \/ Abort(r)

Spec == Init /\ [][Next]_vars

-----------------------------------------------------------------------------
\* "One is kept per tenant": as long as no two requests crossed there is never more
\* than one main depot, and there is one whenever there are depots, unless somebody
\* unmarked it.
OneMainDepot ==
    ~raced => /\ \A c, d \in main : c = d
              /\ Rows # {} /\ ~unmarked => main # {}
=============================================================================
