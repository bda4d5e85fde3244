------------------------------ MODULE Copilot ------------------------------
(***************************************************************************)
(* The AI copilot: the turn of a chat (copilot/routes.ts), in which the    *)
(* model uses tools that propose and never act, and the page               *)
(* (web/pages/Copilot.tsx), where the proposals arrive as cards with the   *)
(* end of the turn and the user confirms them one by one.                  *)
(*                                                                         *)
(* What a card acts on is a row: a proposal, which the tool creates and    *)
(* is applied through its claim (AiProposals says how); a planned route to *)
(* dispatch; or an order to recover.  What the model says, and what it     *)
(* reads, are left out, and it proposes what it likes.                     *)
(***************************************************************************)
EXTENDS Naturals, FiniteSets

CONSTANTS
    Pages,
    Turns,      \* bound: the turns of all the chats
    Rows, Kind, \* "proposal", "dispatch" or "recovery"
    Handlers,   \* the confirmations being served
    MAX_LOOP

CopilotAssumption ==
    Kind \in [Rows -> {"proposal", "dispatch", "recovery"}] /\ MAX_LOOP \in Nat

VARIABLES
    state,     \* of each row: "absent", "open", "done"
    ran,       \* how often it was carried out
    turn,      \* what the server does for each message
    page,      \* [busy, cards, executed], a card being a turn and a row
    req,       \* what each handler does
    crossed    \* history: the rows that two handlers were at together

vars == <<state, ran, turn, page, req, crossed>>

Free == [step |-> "free"]
Over == [step |-> "over"]
Blank == [busy |-> "no", cards |-> {}, executed |-> {}]

Init ==
    /\ state = [r \in Rows |-> IF Kind[r] = "proposal" THEN "absent" ELSE "open"]
    /\ ran = [r \in Rows |-> 0]
    /\ turn = [t \in Turns |-> Free]
    /\ page = [p \in Pages |-> Blank]
    /\ req = [h \in Handlers |-> Free]
    /\ crossed = {}

-----------------------------------------------------------------------------
\* The turn.

Send(p) ==
    /\ page[p].busy = "no"
    /\ page' = [page EXCEPT ![p].busy = "chat"]
    /\ \E t \in Turns :
         /\ turn[t] = Free
         /\ turn' = [turn EXCEPT ![t] =
                        [step |-> "model", page |-> p, heard |-> TRUE, actions |-> {}, loop |-> 0]]
    /\ UNCHANGED <<state, ran, req, crossed>>

\* buildProposal: an optimization is stored, to be applied later; a route must be
\* PLANNED and an order not in recovery.
CanPropose(r) == state[r] = IF Kind[r] = "proposal" THEN "absent" ELSE "open"

\* One answer of the model with the tools it uses, one after another.
UseTools(t) ==
    /\ turn[t].step = "model" /\ turn[t].loop < MAX_LOOP
    /\ \E S \in SUBSET {r \in Rows : CanPropose(r)} :
         /\ state' = [r \in Rows |-> IF r \in S THEN "open" ELSE state[r]]
         /\ turn' = [turn EXCEPT ![t].actions = @ \cup S, ![t].loop = @ + 1]
    /\ UNCHANGED <<ran, page, req, crossed>>

\* The page hears the end of the turn, if it still listens.
EndWith(t, actions) ==
    /\ turn' = [turn EXCEPT ![t] = Over]
    /\ page' = IF ~turn[t].heard THEN page
               ELSE [page EXCEPT ![turn[t].page].busy = "no",
                                 ![turn[t].page].cards = @ \cup {<<t, r>> : r \in actions}]
    /\ UNCHANGED <<state, ran, req, crossed>>

Done(t) == turn[t].step = "model" /\ EndWith(t, turn[t].actions)

\* A refusal, an error of the provider or a restart: what was stored stays stored.
EndsWithout(t) == turn[t].step = "model" /\ EndWith(t, {})

Unheard(p) ==
    [t \in Turns |-> IF turn[t].step = "model" /\ turn[t].page = p
                     THEN [turn[t] EXCEPT !.heard = FALSE] ELSE turn[t]]

\* The user stops the answer, or the connection is cut; the server goes on.
Stop(p) ==
    /\ page[p].busy = "chat"
    /\ page' = [page EXCEPT ![p].busy = "no"]
    /\ turn' = Unheard(p)
    /\ UNCHANGED <<state, ran, req, crossed>>

-----------------------------------------------------------------------------
\* Confirming a card.

Confirm(p) ==
    /\ page[p].busy = "no"
    /\ \E card \in page[p].cards \ page[p].executed, h \in Handlers :
         /\ req[h] = Free
         /\ req' = [req EXCEPT ![h] =
                       [step |-> "read", page |-> p, heard |-> TRUE, card |-> card]]
    /\ page' = [page EXCEPT ![p].busy = "confirm"]
    /\ UNCHANGED <<state, ran, turn, crossed>>

Reply(h, ok) ==
    /\ req' = [req EXCEPT ![h] = Free]
    /\ page' = LET p == req[h].page IN
               IF ~req[h].heard THEN page
               ELSE [page EXCEPT ![p].busy = "no",
                                 ![p].executed = IF ok THEN @ \cup {req[h].card} ELSE @]

\* With the claim of proposals only: the route or the order is not read again.
CheckProposalsOnly(h) ==
    LET r == req[h].card[2] IN
      /\ req[h].step = "read"
      /\ \/ /\ Kind[r] # "proposal" \/ state[r] = "open"
            /\ req' = [req EXCEPT ![h].step = "write"]
            /\ crossed' = IF \E g \in Handlers : req[g].step = "write" /\ req[g].card[2] = r
                          THEN crossed \cup {r} ELSE crossed
            /\ UNCHANGED page
         \/ /\ Kind[r] = "proposal" /\ state[r] # "open"
            /\ Reply(h, FALSE) /\ UNCHANGED crossed
      /\ UNCHANGED <<state, ran, turn>>

\* The endpoint reads its row: 409 when it was applied, dispatched or flagged.
Check(h) ==
    LET r == req[h].card[2] IN
      /\ req[h].step = "read"
      /\ \/ /\ state[r] = "open"
            /\ req' = [req EXCEPT ![h].step = "write"]
            /\ crossed' = IF \E g \in Handlers : req[g].step = "write" /\ req[g].card[2] = r
                          THEN crossed \cup {r} ELSE crossed
            /\ UNCHANGED page
         \/ /\ state[r] # "open"
            /\ Reply(h, FALSE) /\ UNCHANGED crossed
      /\ UNCHANGED <<state, ran, turn>>

\* A proposal is claimed, PENDING -> APPLIED, or it is a 409; a route and an order are
\* written by their id.
Write(h) ==
    LET r == req[h].card[2] IN
      /\ req[h].step = "write"
      /\ \/ /\ Kind[r] = "proposal" => state[r] = "open"
            /\ state' = [state EXCEPT ![r] = "done"]
            /\ ran' = [ran EXCEPT ![r] = @ + 1]
            /\ req' = [req EXCEPT ![h].step = "answer"]
            /\ UNCHANGED page
         \/ /\ Kind[r] = "proposal" /\ state[r] # "open"
            /\ Reply(h, FALSE) /\ UNCHANGED <<state, ran>>
      /\ UNCHANGED <<turn, crossed>>

Answer(h) ==
    /\ req[h].step = "answer"
    /\ Reply(h, TRUE)
    /\ UNCHANGED <<state, ran, turn, crossed>>

\* The connection is cut: an error on the page, whatever the server does; or a restart
\* of the server, which does no more.
Lose(h) ==
    /\ req[h] # Free
    /\ \/ Reply(h, FALSE)
       \/ /\ req[h].heard
          /\ req' = [req EXCEPT ![h].heard = FALSE]
          /\ page' = [page EXCEPT ![req[h].page].busy = "no"]
    /\ UNCHANGED <<state, ran, turn, crossed>>

\* The user goes to another page and comes back: the chat was kept here only.
Leave(p) ==
    /\ page[p] # Blank
    /\ page' = [page EXCEPT ![p] = Blank]
    /\ turn' = Unheard(p)
    /\ req' = [h \in Handlers |-> IF req[h] # Free /\ req[h].page = p
                                  THEN [req[h] EXCEPT !.heard = FALSE] ELSE req[h]]
    /\ UNCHANGED <<state, ran, crossed>>

Next ==
    \/ \E p \in Pages : Send(p) \/ Stop(p) \/ Confirm(p) \/ Leave(p)
    \/ \E t \in Turns : UseTools(t) \/ Done(t) \/ EndsWithout(t)
    \/ \E h \in Handlers : Check(h) \/ Write(h) \/ Answer(h) \/ Lose(h)

Spec == Init /\ [][Next]_vars

-----------------------------------------------------------------------------
\* Nothing a card proposes is carried out twice, however often the card is confirmed
\* after its answer was lost, and from whichever page: a proposal never, a dispatch
\* and a recovery as long as no two confirmations of it crossed.  And a card that is
\* shown as applied was.
CardRunsOnce ==
    /\ \A r \in Rows : Kind[r] = "proposal" \/ r \notin crossed => ran[r] <= 1
    /\ \A p \in Pages : \A card \in page[p].executed : ran[card[2]] > 0
=============================================================================
