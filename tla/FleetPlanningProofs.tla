------------------------ MODULE FleetPlanningProofs ------------------------
(***************************************************************************)
(* Proofs about FleetPlanning, for any orders, routes, vehicles, requests, *)
(* cards, travel times and bounds: a card is carried out once, no order    *)
(* travels twice, what is assigned has its delivery, what a driver         *)
(* attended stays attended, a route can be driven by its vehicle, 2-opt    *)
(* makes no plan twice, no driver of two waves goes in vain and what the   *)
(* advisers recommend is enough.                                           *)
(***************************************************************************)
EXTENDS FleetPlanning, Sequences, NaturalsInduction, SequenceTheorems,
        WellFoundedInduction, FiniteSetTheorems, TLAPS

-----------------------------------------------------------------------------
\* The chat (Copilot).

Cards == Turns \X Rows
Confirmations ==
    [step : {"read", "write", "answer"}, page : Pages, heard : BOOLEAN, card : Cards]

ChatTypeOK ==
    /\ state \in [Rows -> {"absent", "open", "done"}]
    /\ ran \in [Rows -> Nat]
    /\ turn \in [Turns -> {Free, Over} \cup
                          [step : {"model"}, page : Pages, heard : BOOLEAN,
                           actions : SUBSET Rows, loop : Nat]]
    /\ page \in [Pages -> [busy : {"no", "chat", "confirm"}, cards : SUBSET Cards,
                           executed : SUBSET Cards]]
    /\ req \in [Handlers -> {Free} \cup Confirmations]

\* A row was carried out only if it is done; and once, but for the crossed ones.
RanOnce ==
    \A r \in Rows :
      /\ state[r] # "done" => ran[r] = 0
      /\ Kind[r] = "proposal" \/ r \notin crossed => ran[r] <= 1

At(h, step, r) == req[h].step = step /\ req[h].card[2] = r

\* About to write a route or an order that nobody crossed, a handler is alone and
\* what it has read is still so.
AloneAtWrite ==
    \A r \in Rows : Kind[r] # "proposal" /\ r \notin crossed =>
      \A h \in Handlers : At(h, "write", r) =>
        /\ state[r] = "open"
        /\ \A g \in Handlers : At(g, "write", r) => g = h

\* What is answered as done, and what is shown so, was.
AnsweredRan == \A h \in Handlers : \A r \in Rows : At(h, "answer", r) => ran[r] > 0
ExecutedRan == \A p \in Pages : \A card \in page[p].executed : ran[card[2]] > 0

ChatInv == ChatTypeOK /\ RanOnce /\ AloneAtWrite /\ AnsweredRan /\ ExecutedRan

-----------------------------------------------------------------------------
LEMMA InitChatInv == CopilotAssumption /\ Init => ChatInv
  BY DEF CopilotAssumption, Init, ChatInv, ChatTypeOK, RanOnce, AloneAtWrite, AnsweredRan,
         ExecutedRan, At, Free, Blank

\* A step that carries nothing out, and takes no handler forward.
LEMMA QuietChatInv ==
    ASSUME ChatInv, ChatTypeOK', UNCHANGED <<ran, crossed>>,
           \A r \in Rows : state[r] = "open" => state'[r] = "open",
           \A r \in Rows : state'[r] # "done" => state[r] # "done",
           \A h \in Handlers : req'[h].step \in {"write", "answer"} =>
             req'[h].step = req[h].step /\ req'[h].card = req[h].card,
           ExecutedRan'
    PROVE  ChatInv'
<1>1. RanOnce'
  BY DEF ChatInv, RanOnce
<1>2. \A h \in Handlers : \A r \in Rows :
        /\ At(h, "write", r)' => At(h, "write", r)
        /\ At(h, "answer", r)' => At(h, "answer", r)
  BY DEF At
<1>3. AloneAtWrite' /\ AnsweredRan'
  BY <1>2 DEF ChatInv, AloneAtWrite, AnsweredRan
<1>4. QED  BY <1>1, <1>3 DEF ChatInv

LEMMA TurnChatInv ==
    ASSUME ChatInv, NEW t \in Turns, UseTools(t) \/ Done(t) \/ EndsWithout(t)
    PROVE  ChatInv'
<1>1. CASE UseTools(t)
  <2>1. PICK S \in SUBSET {r \in Rows : CanPropose(r)} :
          /\ state' = [r \in Rows |-> IF r \in S THEN "open" ELSE state[r]]
          /\ turn' = [turn EXCEPT ![t].actions = @ \cup S, ![t].loop = @ + 1]
    BY <1>1 DEF UseTools
  <2>2. UNCHANGED <<ran, page, req, crossed>> /\ turn[t].step = "model"
    BY <1>1 DEF UseTools
  <2>3. \A r \in S : state[r] # "done"
    BY DEF CanPropose
  <2>4. turn' \in [Turns -> {Free, Over} \cup
                            [step : {"model"}, page : Pages, heard : BOOLEAN,
                             actions : SUBSET Rows, loop : Nat]]
    <3>1. turn[t] \in [step : {"model"}, page : Pages, heard : BOOLEAN,
                       actions : SUBSET Rows, loop : Nat]
      BY <2>2 DEF ChatInv, ChatTypeOK, Free, Over
    <3>2. PICK next : next = [turn[t] EXCEPT !.actions = @ \cup S, !.loop = @ + 1]
      OBVIOUS
    <3>3. next \in [step : {"model"}, page : Pages, heard : BOOLEAN,
                    actions : SUBSET Rows, loop : Nat]
      <4>1. PICK m \in [step : {"model"}, page : Pages, heard : BOOLEAN,
                         actions : SUBSET Rows, loop : Nat] : m = turn[t]
        BY <3>1
      <4>2. PICK A \in SUBSET Rows, n \in Nat : A = m.actions \cup S /\ n = m.loop + 1
        <5>1. m.actions \subseteq Rows /\ m.loop \in Nat
          BY <4>1
        <5>2. m.actions \cup S \subseteq Rows /\ m.loop + 1 \in Nat
          BY <2>1, <5>1
        <5>3. QED  BY <5>2
      <4>3. next = [m EXCEPT !.actions = A, !.loop = n]
        BY <3>2, <4>1, <4>2
      <4>4. QED  BY <4>1, <4>2, <4>3
    <3>4. turn' = [turn EXCEPT ![t] = next]
      BY <2>1, <3>2
    <3>5. QED  BY <3>3, <3>4 DEF ChatInv, ChatTypeOK
  <2>5. ChatTypeOK' /\ ExecutedRan'
    BY <2>1, <2>2, <2>4 DEF ChatInv, ChatTypeOK, ExecutedRan
  <2>6. QED  BY <2>1, <2>2, <2>3, <2>5, QuietChatInv
<1>2. ASSUME NEW A \in SUBSET Rows, turn[t].step = "model", EndWith(t, A)
      PROVE  ChatInv'
  <2>1. UNCHANGED <<state, ran, req, crossed>> /\ turn' = [turn EXCEPT ![t] = Over]
    BY <1>2 DEF EndWith
  <2>2. turn[t].page \in Pages
    BY <1>2 DEF ChatInv, ChatTypeOK, Free, Over
  <2>3. ChatTypeOK' /\ \A p \in Pages : page'[p].executed = page[p].executed
    <3>1. CASE ~turn[t].heard
      BY <1>2, <2>1, <3>1 DEF EndWith, ChatInv, ChatTypeOK
    <3>2. CASE turn[t].heard
      <4>1. {<<t, r>> : r \in A} \subseteq Cards
        BY DEF Cards
      <4>2. PICK q, C : q = turn[t].page /\ C = {<<t, r>> : r \in A}
        OBVIOUS
      <4>3. page' = [page EXCEPT ![q].busy = "no", ![q].cards = @ \cup C]
        BY <1>2, <3>2, <4>2 DEF EndWith
      <4>4. /\ page' \in [Pages -> [busy : {"no", "chat", "confirm"}, cards : SUBSET Cards,
                                    executed : SUBSET Cards]]
            /\ \A p \in Pages : page'[p].executed = page[p].executed
        BY <2>2, <4>1, <4>2, <4>3 DEF ChatInv, ChatTypeOK
      <4>5. QED  BY <2>1, <4>4 DEF ChatInv, ChatTypeOK
    <3>3. QED  BY <3>1, <3>2
  <2>4. ExecutedRan'
    BY <2>1, <2>3 DEF ChatInv, ExecutedRan
  <2>5. QED  BY <2>1, <2>3, <2>4, QuietChatInv
<1>3. turn[t].step = "model" => turn[t].actions \in SUBSET Rows
  BY DEF ChatInv, ChatTypeOK, Free, Over
<1>4. QED  BY <1>1, <1>2, <1>3 DEF Done, EndsWithout

LEMMA PageChatInv ==
    ASSUME ChatInv, NEW p \in Pages, Send(p) \/ Stop(p) \/ Confirm(p) \/ Leave(p)
    PROVE  ChatInv'
<1>1. UNCHANGED <<state, ran, crossed>>
  BY DEF Send, Stop, Confirm, Leave
<1>2. CASE Send(p)
  <2>1. PICK t \in Turns :
          turn' = [turn EXCEPT ![t] =
                      [step |-> "model", page |-> p, heard |-> TRUE, actions |-> {}, loop |-> 0]]
    BY <1>2 DEF Send
  <2>2. page' = [page EXCEPT ![p].busy = "chat"] /\ req' = req
    BY <1>2 DEF Send
  <2>3. ChatTypeOK'
    BY <1>1, <2>1, <2>2 DEF ChatInv, ChatTypeOK
  <2>4. ExecutedRan'
    BY <1>1, <2>2 DEF ChatInv, ChatTypeOK, ExecutedRan
  <2>5. QED  BY <1>1, <2>2, <2>3, <2>4, QuietChatInv
<1>3. Unheard(p) \in [Turns -> {Free, Over} \cup
                               [step : {"model"}, page : Pages, heard : BOOLEAN,
                                actions : SUBSET Rows, loop : Nat]]
  <2>1. ASSUME NEW t \in Turns
        PROVE  Unheard(p)[t] \in {Free, Over} \cup
                                 [step : {"model"}, page : Pages, heard : BOOLEAN,
                                  actions : SUBSET Rows, loop : Nat]
    <3>1. CASE turn[t].step = "model" /\ turn[t].page = p
      <4>1. turn[t] \in [step : {"model"}, page : Pages, heard : BOOLEAN,
                         actions : SUBSET Rows, loop : Nat]
        BY <3>1 DEF ChatInv, ChatTypeOK, Free, Over
      <4>2. QED  BY <3>1, <4>1 DEF Unheard
    <3>2. CASE ~(turn[t].step = "model" /\ turn[t].page = p)
      BY <3>2 DEF Unheard, ChatInv, ChatTypeOK
    <3>3. QED  BY <3>1, <3>2
  <2>2. QED  BY <2>1 DEF Unheard
<1>4. CASE Stop(p)
  <2>1. page' = [page EXCEPT ![p].busy = "no"] /\ turn' = Unheard(p) /\ req' = req
    BY <1>4 DEF Stop
  <2>2. /\ page' \in [Pages -> [busy : {"no", "chat", "confirm"}, cards : SUBSET Cards,
                              executed : SUBSET Cards]]
        /\ \A q \in Pages : page'[q].executed = page[q].executed
    BY <2>1 DEF ChatInv, ChatTypeOK
  <2>3. ChatTypeOK'
    BY <1>1, <1>3, <2>1, <2>2 DEF ChatInv, ChatTypeOK
  <2>4. ExecutedRan'
    BY <1>1, <2>2 DEF ChatInv, ExecutedRan
  <2>5. QED  BY <1>1, <2>1, <2>3, <2>4, QuietChatInv
<1>5. CASE Confirm(p)
  <2>1. PICK card \in page[p].cards, h \in Handlers :
          /\ req[h] = Free
          /\ req' = [req EXCEPT ![h] =
                        [step |-> "read", page |-> p, heard |-> TRUE, card |-> card]]
    BY <1>5 DEF Confirm
  <2>2. page' = [page EXCEPT ![p].busy = "confirm"] /\ turn' = turn
    BY <1>5 DEF Confirm
  <2>3. req' \in [Handlers -> {Free} \cup Confirmations]
    BY <2>1 DEF ChatInv, ChatTypeOK, Confirmations
  <2>4. ChatTypeOK' /\ ExecutedRan'
    BY <1>1, <2>2, <2>3 DEF ChatInv, ChatTypeOK, ExecutedRan
  <2>5. \A g \in Handlers : req'[g].step \in {"write", "answer"} =>
          req'[g].step = req[g].step /\ req'[g].card = req[g].card
    BY <2>1 DEF ChatInv, ChatTypeOK
  <2>6. QED  BY <1>1, <2>4, <2>5, QuietChatInv
<1>6. CASE Leave(p)
  <2>1. /\ page' = [page EXCEPT ![p] = Blank] /\ turn' = Unheard(p)
        /\ req' = [h \in Handlers |-> IF req[h] # Free /\ req[h].page = p
                                      THEN [req[h] EXCEPT !.heard = FALSE] ELSE req[h]]
    BY <1>6 DEF Leave
  <2>2. req' \in [Handlers -> {Free} \cup Confirmations]
    <3>1. ASSUME NEW h \in Handlers PROVE req'[h] \in {Free} \cup Confirmations
      <4>1. req[h] \in {Free} \cup Confirmations
        BY DEF ChatInv, ChatTypeOK
      <4>2. CASE req[h] # Free /\ req[h].page = p
        <5>1. req'[h] = [req[h] EXCEPT !.heard = FALSE]
          BY <2>1, <4>2
        <5>2. QED  BY <4>1, <4>2, <5>1 DEF Confirmations
      <4>3. CASE ~(req[h] # Free /\ req[h].page = p)
        BY <2>1, <4>1, <4>3
      <4>4. QED  BY <4>2, <4>3
    <3>2. QED  BY <2>1, <3>1
  <2>3. ChatTypeOK' /\ ExecutedRan'
    BY <1>1, <1>3, <2>1, <2>2 DEF ChatInv, ChatTypeOK, ExecutedRan, Blank
  <2>4. \A g \in Handlers : /\ req'[g].step = req[g].step
                            /\ req[g] # Free => req'[g].card = req[g].card
    BY <2>1 DEF ChatInv, ChatTypeOK, Confirmations
  <2>5. QED  BY <1>1, <2>3, <2>4, QuietChatInv DEF Free
<1>7. QED  BY <1>2, <1>4, <1>5, <1>6

\* A handler that ends; with a card that was carried out when it says so.
LEMMA ReplyChatInv ==
    ASSUME ChatInv, NEW h \in Handlers, NEW ok \in BOOLEAN, req[h] # Free, Reply(h, ok),
           UNCHANGED <<state, ran, turn, crossed>>, ok => req[h].step = "answer"
    PROVE  ChatInv'
<1>1. PICK c : c = req[h]
  OBVIOUS
<1>2. c \in Confirmations
  BY <1>1 DEF ChatInv, ChatTypeOK
<1>3. req' = [req EXCEPT ![h] = Free]
  BY DEF Reply
<1>4. CASE ~c.heard
  <2>1. page' = page
    BY <1>1, <1>4 DEF Reply
  <2>2. ChatTypeOK' /\ ExecutedRan'
    BY <1>3, <2>1 DEF ChatInv, ChatTypeOK, ExecutedRan
  <2>3. QED  BY <1>3, <2>2, QuietChatInv DEF ChatInv, ChatTypeOK, Free
<1>5. CASE c.heard
  <2>1. PICK X : X = IF ok THEN page[c.page].executed \cup {c.card} ELSE page[c.page].executed
    OBVIOUS
  <2>2. page' = [page EXCEPT ![c.page].busy = "no", ![c.page].executed = X]
    BY <1>1, <1>5, <2>1 DEF Reply
  <2>3. c.page \in Pages /\ c.card \in Cards /\ (ok => ran[c.card[2]] > 0)
    <3>1. c.page \in Pages /\ c.card \in Cards /\ c.card[2] \in Rows
      BY <1>2 DEF Confirmations, Cards
    <3>2. QED  BY <1>1, <3>1 DEF ChatInv, AnsweredRan, At
  <2>4. X \subseteq Cards /\ \A card \in X : ran[card[2]] > 0
    BY <2>1, <2>3 DEF ChatInv, ChatTypeOK, ExecutedRan
  <2>5. ChatTypeOK'
    BY <1>3, <2>2, <2>3, <2>4 DEF ChatInv, ChatTypeOK
  <2>6. \A p \in Pages : page'[p].executed = IF p = c.page THEN X ELSE page[p].executed
    BY <2>2, <2>3 DEF ChatInv, ChatTypeOK
  <2>7. ExecutedRan'
    BY <2>4, <2>6 DEF ChatInv, ExecutedRan
  <2>8. QED  BY <1>3, <2>5, <2>7, QuietChatInv DEF ChatInv, ChatTypeOK, Free
<1>6. QED  BY <1>4, <1>5

LEMMA CheckChatInv ==
    ASSUME ChatInv, NEW h \in Handlers, Check(h)
    PROVE  ChatInv'
<1>1. PICK r : r = req[h].card[2]
  OBVIOUS
<1>2. req[h].step = "read" /\ UNCHANGED <<state, ran, turn>>
  BY DEF Check
<1>3. req[h] # Free /\ req[h] \in Confirmations /\ r \in Rows
  BY <1>1, <1>2 DEF ChatInv, ChatTypeOK, Free, Confirmations, Cards
<1>4. CASE Reply(h, FALSE) /\ UNCHANGED crossed
  BY <1>2, <1>3, <1>4, ReplyChatInv
<1>5. CASE /\ state[r] = "open"
           /\ req' = [req EXCEPT ![h].step = "write"]
           /\ crossed' = IF \E g \in Handlers : req[g].step = "write" /\ req[g].card[2] = r
                         THEN crossed \cup {r} ELSE crossed
           /\ UNCHANGED page
  <2>1. /\ req' \in [Handlers -> {Free} \cup Confirmations]
        /\ \A g \in Handlers : g # h => req'[g] = req[g]
        /\ req'[h].step = "write" /\ req'[h].card = req[h].card
    BY <1>3, <1>5 DEF ChatInv, ChatTypeOK, Confirmations
  <2>2. ChatTypeOK' /\ RanOnce' /\ ExecutedRan'
    BY <1>2, <1>5, <2>1 DEF ChatInv, ChatTypeOK, RanOnce, ExecutedRan
  <2>3. \A g \in Handlers : \A x \in Rows :
          /\ At(g, "write", x)' <=> At(g, "write", x) \/ (g = h /\ x = r)
          /\ At(g, "answer", x)' => At(g, "answer", x)
    BY <1>1, <1>2, <2>1 DEF At
  <2>4. AnsweredRan'
    BY <1>2, <2>3 DEF ChatInv, AnsweredRan
  <2>5. \A x \in Rows : x \notin crossed' =>
          x \notin crossed /\ (x = r => \A g \in Handlers : ~At(g, "write", r))
    BY <1>5 DEF At
  <2>6. AloneAtWrite'
    BY <1>2, <1>5, <2>3, <2>5 DEF ChatInv, AloneAtWrite
  <2>7. QED  BY <2>2, <2>4, <2>6 DEF ChatInv
<1>6. QED  BY <1>1, <1>4, <1>5 DEF Check

LEMMA WriteChatInv ==
    ASSUME ChatInv, NEW h \in Handlers, Write(h)
    PROVE  ChatInv'
<1>1. PICK r : r = req[h].card[2]
  OBVIOUS
<1>2. req[h].step = "write" /\ UNCHANGED <<turn, crossed>>
  BY DEF Write
<1>3. req[h] # Free /\ req[h] \in Confirmations /\ r \in Rows
  BY <1>1, <1>2 DEF ChatInv, ChatTypeOK, Free, Confirmations, Cards
<1>4. CASE Reply(h, FALSE) /\ UNCHANGED <<state, ran>>
  BY <1>2, <1>3, <1>4, ReplyChatInv
<1>5. CASE /\ Kind[r] = "proposal" => state[r] = "open"
           /\ state' = [state EXCEPT ![r] = "done"]
           /\ ran' = [ran EXCEPT ![r] = @ + 1]
           /\ req' = [req EXCEPT ![h].step = "answer"]
           /\ UNCHANGED page
  <2>1. /\ req' \in [Handlers -> {Free} \cup Confirmations]
        /\ \A g \in Handlers : g # h => req'[g] = req[g]
        /\ req'[h].step = "answer" /\ req'[h].card = req[h].card
    BY <1>3, <1>5 DEF ChatInv, ChatTypeOK, Confirmations
  <2>2. /\ \A x \in Rows : ran'[x] = IF x = r THEN ran[x] + 1 ELSE ran[x]
        /\ \A x \in Rows : state'[x] = IF x = r THEN "done" ELSE state[x]
        /\ ran \in [Rows -> Nat]
    BY <1>3, <1>5 DEF ChatInv, ChatTypeOK
  <2>3. ChatTypeOK'
    BY <1>2, <1>3, <1>5, <2>1 DEF ChatInv, ChatTypeOK
  <2>4. At(h, "write", r)
    BY <1>1, <1>2 DEF At
  <2>5. Kind[r] = "proposal" \/ r \notin crossed => ran[r] = 0
    BY <1>3, <1>5, <2>4 DEF ChatInv, RanOnce, AloneAtWrite
  <2>6. RanOnce'
    BY <1>2, <2>2, <2>5 DEF ChatInv, RanOnce
  <2>7. \A g \in Handlers : \A x \in Rows :
          /\ At(g, "write", x)' => g # h /\ At(g, "write", x)
          /\ At(g, "answer", x)' => At(g, "answer", x) \/ x = r
    BY <1>1, <2>1 DEF At
  <2>8. AnsweredRan'
    BY <2>2, <2>7 DEF ChatInv, AnsweredRan
  <2>9. AloneAtWrite'
    BY <1>2, <1>3, <2>2, <2>4, <2>7 DEF ChatInv, AloneAtWrite
  <2>10. ExecutedRan'
    <3>1. \A p \in Pages : \A card \in page[p].executed : card[2] \in Rows
      BY DEF ChatInv, ChatTypeOK, Cards
    <3>2. QED  BY <1>5, <2>2, <3>1 DEF ChatInv, ExecutedRan
  <2>11. QED  BY <2>3, <2>6, <2>8, <2>9, <2>10 DEF ChatInv
<1>6. QED  BY <1>1, <1>4, <1>5 DEF Write

LEMMA EndChatInv ==
    ASSUME ChatInv, NEW h \in Handlers, Answer(h) \/ Lose(h)
    PROVE  ChatInv'
<1>1. UNCHANGED <<state, ran, turn, crossed>> /\ req[h] # Free
  <2>1. req[h].step = "answer" => req[h] # Free
    BY DEF Free
  <2>2. QED  BY <2>1 DEF Answer, Lose
<1>2. CASE Answer(h)
  BY <1>1, <1>2, ReplyChatInv DEF Answer
<1>3. CASE Reply(h, FALSE)
  BY <1>1, <1>3, ReplyChatInv
<1>4. CASE /\ req' = [req EXCEPT ![h].heard = FALSE]
           /\ page' = [page EXCEPT ![req[h].page].busy = "no"]
  <2>1. req[h] \in Confirmations
    BY <1>1 DEF ChatInv, ChatTypeOK
  <2>2. /\ req' \in [Handlers -> {Free} \cup Confirmations]
        /\ \A g \in Handlers : /\ req'[g].step = req[g].step
                               /\ req[g] # Free => req'[g].card = req[g].card
    BY <1>1, <1>4, <2>1 DEF ChatInv, ChatTypeOK, Confirmations
  <2>3. PICK q \in Pages : q = req[h].page
    BY <2>1 DEF Confirmations
  <2>4. /\ page' \in [Pages -> [busy : {"no", "chat", "confirm"}, cards : SUBSET Cards,
                                executed : SUBSET Cards]]
        /\ \A p \in Pages : page'[p].executed = page[p].executed
    <3>1. page' = [page EXCEPT ![q].busy = "no"]
      BY <1>4, <2>3
    <3>2. QED  BY <3>1 DEF ChatInv, ChatTypeOK
  <2>5. ChatTypeOK' /\ ExecutedRan'
    BY <1>1, <2>2, <2>4 DEF ChatInv, ChatTypeOK, ExecutedRan
  <2>6. QED  BY <1>1, <2>2, <2>5, QuietChatInv DEF Free
<1>5. QED  BY <1>2, <1>3, <1>4 DEF Lose

LEMMA StepChatInv ==
    ASSUME ChatInv, [Next]_vars
    PROVE  ChatInv'
<1>1. CASE UNCHANGED vars
  BY <1>1 DEF vars, ChatInv, ChatTypeOK, RanOnce, AloneAtWrite, AnsweredRan, ExecutedRan, At
<1>2. CASE Next
  BY <1>2, PageChatInv, TurnChatInv, CheckChatInv, WriteChatInv, EndChatInv DEF Next
<1>3. QED  BY <1>1, <1>2

\* However the answers are lost, repeated or crossed, of however many pages, a
\* proposal of the copilot (/actions/confirm) is carried out once, and so are a
\* dispatch and a recovery that no two confirmations were at together.
THEOREM CardsRunOnce ==
    ASSUME CopilotAssumption
    PROVE  Spec => []CardRunsOnce
<1>1. Init => ChatInv
  BY InitChatInv
<1>2. ChatInv /\ [Next]_vars => ChatInv'
  BY StepChatInv
<1>3. ChatInv => CardRunsOnce
  BY DEF ChatInv, RanOnce, ExecutedRan, CardRunsOnce
<1>4. QED  BY <1>1, <1>2, <1>3, PTL DEF Spec

-----------------------------------------------------------------------------
\* Plans and insertions (Planning).

RouteStatuses == {"absent", "COMPLETED"} \cup Plan!Insertable
OrderStatuses == {"GEOCODED", "ASSIGNED", "IN_TRANSIT", "DELIVERED", "FAILED"}

PlanJob ==
    {Plan!Idle}
    \cup [step : {"createRoute", "assign"}, plan : Seq(SUBSET Orders) \ {<<>>}]
    \cup [step : {"insert"}, route : Routes, order : Orders, status : Plan!Insertable,
          queue : SUBSET Plan!Slots]
    \cup [step : {"sequence"}, route : Routes, queue : SUBSET Plan!Slots]

PlanTypeOK ==
    /\ routeStatus \in [Routes -> RouteStatuses]
    /\ stop \in [Plan!Slots -> Plan!StopStatus \cup {"absent"}]
    /\ orderStatus \in [Orders -> OrderStatuses]
    /\ job \in [Dispatchers -> PlanJob]
    /\ overlap \in BOOLEAN

There(x) == stop[x] # "absent"
DeliveryOf(x) == <<x[1], x[2], "DELIVERY">>

\* The queue a request is about to write is of its route, and delivers all it has.
QueuesOnRoute ==
    \A d \in Dispatchers : job[d].step \in {"insert", "sequence"} =>
        \A x \in job[d].queue : x[1] = job[d].route /\ DeliveryOf(x) \in job[d].queue

RequestsInTurn ==
    \A d, e \in Dispatchers : Plan!Busy(d) /\ Plan!Busy(e) => d = e

\* A pickup is never without its delivery, in the same route.
StopsHaveDelivery == \A x \in Plan!Slots : There(x) => There(DeliveryOf(x))

ToCreate(j) == IF j.step = "createRoute" THEN DOMAIN j.plan ELSE DOMAIN j.plan \ {1}

\* The orders of a plan that are still to be put in a route are in none, and
\* those to be assigned are in one.
PlanHolds(j) ==
    j.step \in {"createRoute", "assign"} =>
        /\ \A i, k \in DOMAIN j.plan : i # k => j.plan[i] \cap j.plan[k] = {}
        /\ \A i \in ToCreate(j) : \A o \in j.plan[i] : ~Plan!HasStop(o)
        /\ j.step = "assign" =>
             \A o \in j.plan[1] : \E r \in Routes : There(<<r, o, "DELIVERY">>)

\* The queue of an insertion has all that is pending in its route and, but for
\* the new order, nothing else than what the route has.
InsertHolds(j) ==
    j.step = "insert" =>
        /\ ~Plan!HasStop(j.order)
        /\ <<j.route, j.order, "DELIVERY">> \in j.queue
        /\ Plan!PendingOf(j.route) \subseteq j.queue
        /\ \A x \in j.queue : x[2] = j.order \/ There(DeliveryOf(x))

SequenceHolds(j) ==
    j.step = "sequence" =>
        /\ Plan!StopsOf(j.route) \subseteq j.queue
        /\ \A x \in j.queue : There(DeliveryOf(x))

JobHolds(d) == PlanHolds(job[d]) /\ InsertHolds(job[d]) /\ SequenceHolds(job[d])

\* While no two requests of dispatchers have overlapped, what each read still holds.
ReadsHold ==
    ~overlap =>
        /\ RequestsInTurn /\ StopsHaveDelivery
        /\ \A d \in Dispatchers : JobHolds(d)

PlanInv ==
    PlanTypeOK /\ QueuesOnRoute /\ ReadsHold /\ OneRoutePerOrder /\ AssignedHasDelivery

-----------------------------------------------------------------------------
LEMMA SlotFacts ==
    /\ \A x \in Plan!Slots : /\ x = <<x[1], x[2], x[3]>>
                             /\ x[1] \in Routes /\ x[2] \in Orders /\ x[3] \in Plan!Kinds
                             /\ DeliveryOf(x) \in Plan!Slots
                             /\ Plan!RouteIn(x) = x[1] /\ Plan!OrderIn(x) = x[2]
    /\ \A r \in Routes, o \in Orders : <<r, o, "DELIVERY">> \in Plan!Slots
  BY DEF Plan!Slots, Plan!Kinds, DeliveryOf, Plan!RouteIn, Plan!OrderIn

LEMMA SlotsForFacts ==
    ASSUME NEW r \in Routes, NEW o \in Orders
    PROVE  /\ Plan!SlotsFor(r, o) \subseteq Plan!Slots
           /\ \A x \in Plan!SlotsFor(r, o) : x[1] = r /\ x[2] = o
           /\ <<r, o, "DELIVERY">> \in Plan!SlotsFor(r, o)
<1>1. {k \in Plan!Kinds : TRUE} = Plan!Kinds /\ "DELIVERY" \in Plan!Kinds
  BY DEF Plan!Kinds
<1>2. (IF o \in Pickups THEN Plan!Kinds ELSE {"DELIVERY"}) \subseteq Plan!Kinds
  BY <1>1
<1>3. QED  BY <1>1, <1>2 DEF Plan!SlotsFor, Plan!Slots

LEMMA PlanInvInit == Plan!Init => PlanInv
<1> SUFFICES ASSUME Plan!Init PROVE PlanInv
  OBVIOUS
<1>1. PlanTypeOK
  <2>1. job \in [Dispatchers -> PlanJob]
    BY DEF Plan!Init, PlanJob
  <2>2. stop \in [Plan!Slots -> Plan!StopStatus \cup {"absent"}]
    BY DEF Plan!Init
  <2>3. routeStatus \in [Routes -> RouteStatuses] /\ orderStatus \in [Orders -> OrderStatuses]
    BY DEF Plan!Init, RouteStatuses, OrderStatuses
  <2>4. overlap \in BOOLEAN
    BY DEF Plan!Init
  <2>5. QED  BY <2>1, <2>2, <2>3, <2>4 DEF PlanTypeOK
<1>2. \A d \in Dispatchers : job[d] = Plan!Idle
  BY DEF Plan!Init
<1>3. \A x \in Plan!Slots : ~There(x)
  BY DEF Plan!Init, There
<1>4. QueuesOnRoute /\ ReadsHold
  BY <1>2, <1>3
  DEF QueuesOnRoute, ReadsHold, RequestsInTurn, StopsHaveDelivery, JobHolds, PlanHolds,
      InsertHolds, SequenceHolds, Plan!Busy, Plan!Idle
<1>5. OneRoutePerOrder /\ AssignedHasDelivery
  BY <1>3 DEF Plan!Init, There, OneRoutePerOrder, AssignedHasDelivery,
              Plan!OneRoutePerOrder, Plan!AssignedHasDelivery
<1>6. QED  BY <1>1, <1>4, <1>5 DEF PlanInv

\* Steps of drivers and of the routes' life: no stop comes or goes, none becomes
\* pending, and requests stay where they are.
LEMMA AttendingPlanInv ==
    ASSUME PlanInv,
           UNCHANGED <<job, overlap>>,
           routeStatus' \in [Routes -> RouteStatuses],
           orderStatus' \in [Orders -> OrderStatuses],
           stop' \in [Plan!Slots -> Plan!StopStatus \cup {"absent"}],
           \A x \in Plan!Slots : /\ There(x)' <=> There(x)
                                 /\ stop'[x] = "PENDING" => stop[x] = "PENDING",
           \A o \in Orders : orderStatus'[o] # orderStatus[o] =>
               \E x \in Plan!Slots : There(x) /\ x[2] = o
    PROVE  PlanInv'
<1>1. PlanTypeOK'
  BY DEF PlanInv, PlanTypeOK, PlanJob, Plan!Idle, Plan!Slots, Plan!StopStatus, Plan!Kinds
<1>2. QueuesOnRoute'
  BY DEF PlanInv, QueuesOnRoute, DeliveryOf
<1>3. /\ \A o \in Orders : Plan!HasStop(o)' <=> Plan!HasStop(o)
      /\ \A r \in Routes : /\ Plan!StopsOf(r)' = Plan!StopsOf(r)
                           /\ Plan!PendingOf(r)' \subseteq Plan!PendingOf(r)
  BY SlotFacts DEF There, Plan!HasStop, Plan!StopsOf, Plan!PendingOf, Plan!OrderIn, Plan!RouteIn
<1>4. ReadsHold'
  <2> SUFFICES ASSUME ~overlap
               PROVE  RequestsInTurn' /\ StopsHaveDelivery' /\ \A d \in Dispatchers : JobHolds(d)'
    BY DEF ReadsHold
  <2>1. RequestsInTurn'
    BY DEF PlanInv, ReadsHold, RequestsInTurn, Plan!Busy
  <2>2. StopsHaveDelivery'
    BY SlotFacts DEF PlanInv, ReadsHold, StopsHaveDelivery, DeliveryOf
  <2>3. ASSUME NEW d \in Dispatchers PROVE JobHolds(d)'
    <3>1. job'[d] = job[d] /\ JobHolds(d) /\ job[d] \in PlanJob
      BY DEF PlanInv, PlanTypeOK, ReadsHold
    <3>2. PlanHolds(job[d])'
      <4> SUFFICES ASSUME job[d].step \in {"createRoute", "assign"} PROVE PlanHolds(job[d])'
        BY <3>1 DEF PlanHolds
      <4>1. \A i \in DOMAIN job[d].plan : job[d].plan[i] \subseteq Orders
        BY <3>1 DEF PlanJob, Plan!Idle
      <4>2. PlanHolds(job[d])
        BY <3>1 DEF JobHolds
      <4>3. \A i \in ToCreate(job[d]) : \A o \in job[d].plan[i] : ~Plan!HasStop(o)'
        BY <1>3, <4>1, <4>2 DEF PlanHolds, ToCreate
      <4>4. \A r \in Routes, o \in Orders :
              There(<<r, o, "DELIVERY">>)' <=> There(<<r, o, "DELIVERY">>)
        BY SlotFacts
      <4>5. ASSUME job[d].step = "assign", NEW o \in job[d].plan[1]
            PROVE  \E r \in Routes : There(<<r, o, "DELIVERY">>)'
        <5>1. o \in Orders
          BY <3>1, <4>1, <4>5 DEF PlanJob, Plan!Idle
        <5>2. QED  BY <4>2, <4>4, <4>5, <5>1 DEF PlanHolds
      <4>6. QED  BY <3>1, <4>2, <4>3, <4>5 DEF PlanHolds, ToCreate
    <3>3. InsertHolds(job[d])'
      <4> SUFFICES ASSUME job[d].step = "insert" PROVE InsertHolds(job[d])'
        BY <3>1 DEF InsertHolds
      <4>1. job[d].order \in Orders /\ job[d].route \in Routes /\ job[d].queue \subseteq Plan!Slots
        BY <3>1 DEF PlanJob, Plan!Idle
      <4>2. QED
        BY <1>3, <3>1, <4>1, SlotFacts DEF JobHolds, InsertHolds, DeliveryOf
    <3>4. SequenceHolds(job[d])'
      <4> SUFFICES ASSUME job[d].step = "sequence" PROVE SequenceHolds(job[d])'
        BY <3>1 DEF SequenceHolds
      <4>1. job[d].route \in Routes /\ job[d].queue \subseteq Plan!Slots
        BY <3>1 DEF PlanJob, Plan!Idle
      <4>2. QED
        BY <1>3, <3>1, <4>1, SlotFacts DEF JobHolds, SequenceHolds, DeliveryOf
    <3>5. QED  BY <3>1, <3>2, <3>3, <3>4 DEF JobHolds
  <2>4. QED  BY <2>1, <2>2, <2>3
<1>5. OneRoutePerOrder'
  BY DEF PlanInv, OneRoutePerOrder, Plan!OneRoutePerOrder, There, Plan!OrderIn, Plan!RouteIn
<1>6. AssignedHasDelivery'
  <2> SUFFICES ASSUME ~overlap, NEW o \in Orders, orderStatus'[o] # "GEOCODED"
               PROVE  \E r \in Routes : There(<<r, o, "DELIVERY">>)'
    BY DEF AssignedHasDelivery, Plan!AssignedHasDelivery, There
  <2>1. CASE orderStatus'[o] = orderStatus[o]
    <3>1. PICK r \in Routes : There(<<r, o, "DELIVERY">>)
      BY <2>1 DEF PlanInv, AssignedHasDelivery, Plan!AssignedHasDelivery, There
    <3>2. <<r, o, "DELIVERY">> \in Plan!Slots
      BY SlotFacts
    <3>3. QED  BY <3>1, <3>2
  <2>2. CASE orderStatus'[o] # orderStatus[o]
    <3>1. PICK x \in Plan!Slots : There(x) /\ x[2] = o
      BY <2>2
    <3>2. There(DeliveryOf(x)) /\ DeliveryOf(x) = <<x[1], o, "DELIVERY">>
      BY <3>1 DEF PlanInv, ReadsHold, StopsHaveDelivery, DeliveryOf
    <3>3. QED  BY <3>2, SlotFacts
  <2>3. QED  BY <2>1, <2>2
<1>7. QED  BY <1>1, <1>2, <1>4, <1>5, <1>6 DEF PlanInv

LEMMA DriversPlanInv ==
    ASSUME PlanInv,
           \/ \E r \in Routes : Plan!Dispatch(r) \/ Plan!Start(r) \/ Plan!Close(r)
           \/ \E x \in Plan!Slots : Plan!Arrive(x) \/ Plan!Complete(x) \/ Plan!Fail(x)
    PROVE  PlanInv'
<1> USE DEF There
<1>1. /\ routeStatus \in [Routes -> RouteStatuses]
      /\ orderStatus \in [Orders -> OrderStatuses]
      /\ stop \in [Plan!Slots -> Plan!StopStatus \cup {"absent"}]
  BY DEF PlanInv, PlanTypeOK
<1>2. ASSUME NEW r \in Routes, Plan!Dispatch(r) \/ Plan!Close(r)
      PROVE  PlanInv'
  <2>1. /\ UNCHANGED <<stop, orderStatus, job, overlap>>
        /\ routeStatus' \in [Routes -> RouteStatuses]
    BY <1>1, <1>2 DEF Plan!Dispatch, Plan!Close, RouteStatuses, Plan!Insertable
  <2>2. QED  BY <1>1, <2>1, AttendingPlanInv
<1>3. ASSUME NEW r \in Routes, Plan!Start(r)
      PROVE  PlanInv'
  <2>1. /\ UNCHANGED <<stop, job, overlap>>
        /\ routeStatus' \in [Routes -> RouteStatuses]
        /\ orderStatus' = [o \in Orders |-> IF \E x \in Plan!StopsOf(r) : Plan!OrderIn(x) = o
                                            THEN "IN_TRANSIT" ELSE orderStatus[o]]
    BY <1>1, <1>3 DEF Plan!Start, RouteStatuses, Plan!Insertable
  <2>2. orderStatus' \in [Orders -> OrderStatuses]
    BY <1>1, <2>1 DEF OrderStatuses
  <2>3. ASSUME NEW o \in Orders, orderStatus'[o] # orderStatus[o]
        PROVE  \E x \in Plan!Slots : There(x) /\ x[2] = o
    BY <2>1, <2>3 DEF Plan!StopsOf, Plan!OrderIn
  <2>4. QED  BY <1>1, <2>1, <2>2, <2>3, AttendingPlanInv
<1>4. ASSUME NEW x \in Plan!Slots, Plan!Arrive(x) \/ Plan!Complete(x) \/ Plan!Fail(x)
      PROVE  PlanInv'
  <2>1. PICK status \in {"ARRIVED", "COMPLETED", "FAILED"} : stop' = [stop EXCEPT ![x] = status]
    BY <1>4 DEF Plan!Arrive, Plan!Complete, Plan!Fail
  <2>2. UNCHANGED <<routeStatus, job, overlap>> /\ There(x)
    BY <1>4 DEF Plan!Arrive, Plan!Complete, Plan!Fail
  <2>3. /\ stop' \in [Plan!Slots -> Plan!StopStatus \cup {"absent"}]
        /\ \A y \in Plan!Slots : /\ There(y)' <=> There(y)
                                 /\ stop'[y] = "PENDING" => stop[y] = "PENDING"
    BY <1>1, <2>1, <2>2 DEF Plan!StopStatus
  <2>4. \/ orderStatus' = orderStatus
        \/ \E st \in {"DELIVERED", "FAILED"} : orderStatus' = [orderStatus EXCEPT ![x[2]] = st]
    BY <1>4 DEF Plan!Arrive, Plan!Complete, Plan!Fail, Plan!OrderIn
  <2>5. /\ orderStatus' \in [Orders -> OrderStatuses]
        /\ \A o \in Orders : orderStatus'[o] # orderStatus[o] => x[2] = o
    BY <1>1, <2>4 DEF OrderStatuses
  <2>6. QED  BY <1>1, <2>2, <2>3, <2>5, AttendingPlanInv
<1>5. QED  BY <1>2, <1>3, <1>4

-----------------------------------------------------------------------------
\* The requests of dispatchers.

LEMMA BeginPlanInv ==
    ASSUME PlanInv, NEW d \in Dispatchers, NEW j \in PlanJob, Plan!Begin(d, j),
           j.step \in {"insert", "sequence"} =>
               \A x \in j.queue : x[1] = j.route /\ DeliveryOf(x) \in j.queue,
           ~overlap => PlanHolds(j) /\ InsertHolds(j) /\ SequenceHolds(j)
    PROVE  PlanInv'
<1>1. /\ job' = [job EXCEPT ![d] = j]
      /\ overlap' = (overlap \/ \E e \in Dispatchers : Plan!Busy(e))
      /\ UNCHANGED <<routeStatus, stop, orderStatus>>
  BY DEF Plan!Begin
<1>2. PlanTypeOK'
  BY <1>1 DEF PlanInv, PlanTypeOK, Plan!Slots, Plan!StopStatus
<1>3. \A e \in Dispatchers : job'[e] = IF e = d THEN j ELSE job[e]
  BY <1>1 DEF PlanInv, PlanTypeOK
<1>4. QueuesOnRoute'
  BY <1>3 DEF PlanInv, QueuesOnRoute, DeliveryOf
<1>5. ReadsHold'
  <2> SUFFICES ASSUME ~overlap'
               PROVE  RequestsInTurn' /\ StopsHaveDelivery' /\ \A e \in Dispatchers : JobHolds(e)'
    BY DEF ReadsHold
  <2>1. ~overlap /\ \A e \in Dispatchers : ~Plan!Busy(e)
    BY <1>1 DEF PlanInv, PlanTypeOK
  <2>2. RequestsInTurn'
    BY <1>3, <2>1 DEF RequestsInTurn, Plan!Busy
  <2>3. StopsHaveDelivery'
    BY <1>1, <2>1 DEF PlanInv, ReadsHold, StopsHaveDelivery, There, DeliveryOf, Plan!Slots
  <2>4. ASSUME NEW e \in Dispatchers PROVE JobHolds(e)'
    <3>1. PICK v : v = job'[e]
      OBVIOUS
    <3>2. PlanHolds(v) /\ InsertHolds(v) /\ SequenceHolds(v)
      BY <1>3, <2>1, <3>1 DEF PlanInv, ReadsHold, JobHolds
    <3>3. /\ \A o : Plan!HasStop(o)' <=> Plan!HasStop(o)
          /\ \A r : Plan!StopsOf(r)' = Plan!StopsOf(r) /\ Plan!PendingOf(r)' = Plan!PendingOf(r)
          /\ \A x : There(x)' <=> There(x)
      BY <1>1 DEF There, Plan!HasStop, Plan!PendingOf, Plan!StopsOf
    <3>4. PlanHolds(job[e])'
      BY <3>1, <3>2, <3>3 DEF PlanHolds, ToCreate
    <3>5. InsertHolds(job[e])'
      BY <3>1, <3>2, <3>3 DEF InsertHolds, DeliveryOf
    <3>6. SequenceHolds(job[e])'
      BY <3>1, <3>2, <3>3 DEF SequenceHolds, DeliveryOf
    <3>7. QED  BY <3>4, <3>5, <3>6 DEF JobHolds
  <2>5. QED  BY <2>2, <2>3, <2>4
<1>6. OneRoutePerOrder' /\ AssignedHasDelivery'
  BY <1>1 DEF PlanInv, PlanTypeOK, OneRoutePerOrder, AssignedHasDelivery, Plan!Slots,
              Plan!OneRoutePerOrder, Plan!AssignedHasDelivery
<1>7. QED  BY <1>2, <1>4, <1>5, <1>6 DEF PlanInv

LEMMA PlansFacts ==
    ASSUME NEW O \in SUBSET Orders, NEW plan \in Plan!Plans(O)
    PROVE  /\ plan \in Seq(SUBSET O)
           /\ \A i, k \in DOMAIN plan : i # k => plan[i] \cap plan[k] = {}
<1>1. plan \in Seq((SUBSET O) \ {{}})
  BY DEF Plan!Plans, Plan!SeqOf
<1>2. QED  BY <1>1 DEF Plan!Plans

LEMMA PlanReadPlanInv ==
    ASSUME PlanInv, NEW d \in Dispatchers, Plan!PlanRead(d)
    PROVE  PlanInv'
<1> DEFINE free == {o \in Orders : Plan!Plannable(o)}
           j(plan) == [step |-> "createRoute", plan |-> plan]
<1>1. PICK plan \in Plan!Plans(free) \ {<<>>} : Plan!Begin(d, j(plan))
  BY DEF Plan!PlanRead
<1>2. /\ plan \in Seq(SUBSET free) /\ plan # <<>>
      /\ \A i, k \in DOMAIN plan : i # k => plan[i] \cap plan[k] = {}
  BY <1>1, PlansFacts
<1>3. \A i \in DOMAIN plan : \A o \in plan[i] : ~Plan!HasStop(o)
  BY <1>2 DEF Plan!Plannable
<1>4. plan \in Seq(SUBSET Orders)
  BY <1>2
<1>5. j(plan) \in PlanJob
  BY <1>2, <1>4 DEF PlanJob
<1>6. PlanHolds(j(plan)) /\ InsertHolds(j(plan)) /\ SequenceHolds(j(plan))
  BY <1>2, <1>3 DEF PlanHolds, InsertHolds, SequenceHolds, ToCreate
<1>7. QED  BY <1>1, <1>5, <1>6, BeginPlanInv

LEMMA InsertReadPlanInv ==
    ASSUME PlanInv, NEW d \in Dispatchers, NEW r \in Routes, NEW o \in Orders,
           Plan!InsertRead(d, r, o)
    PROVE  PlanInv'
<1> DEFINE queue == Plan!QueueWith(r, o)
           owed == Plan!PendingOf(r)
           j == [step |-> "insert", route |-> r, order |-> o, status |-> routeStatus[r],
                 queue |-> queue]
<1>1. /\ routeStatus[r] \in Plan!Insertable /\ ~Plan!HasStop(o) /\ Plan!Begin(d, j)
  BY DEF Plan!InsertRead, Plan!Plannable
<1>2. /\ owed \subseteq Plan!Slots
      /\ \A x \in owed : x[1] = r /\ There(x)
  BY SlotFacts DEF Plan!PendingOf, Plan!StopsOf, There
<1>3. queue = owed \cup {<<r, x[2], "DELIVERY">> : x \in owed} \cup Plan!SlotsFor(r, o)
  BY DEF Plan!QueueWith, Plan!OrderIn
<1>4. queue \subseteq Plan!Slots
  <2>1. {<<r, x[2], "DELIVERY">> : x \in owed} \subseteq Plan!Slots
    BY <1>2, SlotFacts
  <2>2. QED  BY <1>2, <1>3, <2>1, SlotsForFacts
<1>5. \A x \in queue : x[1] = r /\ DeliveryOf(x) \in queue
  <2> SUFFICES ASSUME NEW x \in queue PROVE x[1] = r /\ DeliveryOf(x) \in queue
    OBVIOUS
  <2>1. CASE x \in owed
    BY <1>2, <1>3, <2>1 DEF DeliveryOf
  <2>2. CASE x \in Plan!SlotsFor(r, o)
    BY <1>3, <2>2, SlotsForFacts DEF DeliveryOf
  <2>3. CASE \E y \in owed : x = <<r, y[2], "DELIVERY">>
    BY <1>3, <2>3 DEF DeliveryOf
  <2>4. QED  BY <1>3, <2>1, <2>2, <2>3
<1>6. ~overlap => \A x \in queue : x[2] = o \/ There(DeliveryOf(x))
  <2> SUFFICES ASSUME ~overlap, NEW x \in queue, x[2] # o
               PROVE  There(DeliveryOf(x))
    OBVIOUS
  <2>1. PICK y \in owed : x[2] = y[2]
    <3>1. x \in owed \/ x \in {<<r, y[2], "DELIVERY">> : y \in owed}
      BY <1>3, SlotsForFacts
    <3>2. QED  BY <3>1
  <2>2. There(DeliveryOf(y)) /\ DeliveryOf(y) = <<r, y[2], "DELIVERY">>
    BY <1>2 DEF PlanInv, ReadsHold, StopsHaveDelivery, DeliveryOf
  <2>3. QED  BY <1>5, <2>1, <2>2 DEF DeliveryOf
<1>7. j \in PlanJob
  BY <1>1, <1>4 DEF PlanJob
<1>8. <<r, o, "DELIVERY">> \in queue /\ owed \subseteq queue
  BY <1>3, SlotsForFacts
<1> HIDE DEF queue
<1>9. ~overlap => PlanHolds(j) /\ InsertHolds(j) /\ SequenceHolds(j)
  BY <1>1, <1>6, <1>8 DEF PlanHolds, InsertHolds, SequenceHolds
<1>10. QED  BY <1>1, <1>5, <1>7, <1>9, BeginPlanInv

LEMMA SequenceReadPlanInv ==
    ASSUME PlanInv, NEW d \in Dispatchers, NEW r \in Routes, Plan!SequenceRead(d, r)
    PROVE  PlanInv'
<1> DEFINE stops == Plan!StopsOf(r)
           queue == stops \cup {<<r, x[2], "DELIVERY">> : x \in stops}
           j == [step |-> "sequence", route |-> r, queue |-> queue]
<1>1. Plan!Begin(d, j)
  BY DEF Plan!SequenceRead, Plan!OrderIn
<1>2. stops \subseteq Plan!Slots /\ \A x \in stops : x[1] = r /\ There(x)
  BY SlotFacts DEF Plan!StopsOf, There
<1>3. queue \subseteq Plan!Slots
  BY <1>2, SlotFacts
<1>4. \A x \in queue : x[1] = r /\ DeliveryOf(x) \in queue /\ \E y \in stops : y[2] = x[2]
  BY <1>2 DEF DeliveryOf
<1>5. ~overlap => \A x \in queue : There(DeliveryOf(x))
  <2> SUFFICES ASSUME ~overlap, NEW x \in queue PROVE There(DeliveryOf(x))
    OBVIOUS
  <2>1. PICK y \in stops : y[2] = x[2] /\ x[1] = r
    BY <1>4
  <2>2. DeliveryOf(y) = DeliveryOf(x) /\ There(DeliveryOf(y))
    BY <1>2, <2>1 DEF PlanInv, ReadsHold, StopsHaveDelivery, DeliveryOf
  <2>3. QED  BY <2>2
<1>6. j \in PlanJob
  BY <1>3 DEF PlanJob
<1>7. stops \subseteq queue
  OBVIOUS
<1> HIDE DEF queue
<1>8. ~overlap => PlanHolds(j) /\ InsertHolds(j) /\ SequenceHolds(j)
  BY <1>5, <1>7 DEF PlanHolds, InsertHolds, SequenceHolds
<1>9. QED  BY <1>1, <1>4, <1>6, <1>8, BeginPlanInv

-----------------------------------------------------------------------------
\* A request that writes, while no two have overlapped, is the only one.
LEMMA OnlyRequest ==
    ASSUME PlanInv, NEW d \in Dispatchers, Plan!Busy(d), ~overlap
    PROVE  \A e \in Dispatchers \ {d} : job[e] = Plan!Idle
BY DEF PlanInv, PlanTypeOK, ReadsHold, RequestsInTurn, Plan!Busy, PlanJob, Plan!Idle

\* What is left to show of a request's last step.
LEMMA FinishPlanInv ==
    ASSUME PlanInv, NEW d \in Dispatchers, Plan!Busy(d), Plan!Finish(d),
           routeStatus' = routeStatus,
           stop' \in [Plan!Slots -> Plan!StopStatus \cup {"absent"}],
           orderStatus' \in [Orders -> OrderStatuses],
           ~overlap => StopsHaveDelivery',
           OneRoutePerOrder', AssignedHasDelivery'
    PROVE  PlanInv'
<1>1. job' = [job EXCEPT ![d] = Plan!Idle] /\ overlap' = overlap
  BY DEF Plan!Finish
<1>2. /\ job' \in [Dispatchers -> PlanJob]
      /\ \A e \in Dispatchers : job'[e] = IF e = d THEN Plan!Idle ELSE job[e]
  BY <1>1 DEF PlanInv, PlanTypeOK, PlanJob
<1>3. PlanTypeOK'
  BY <1>1, <1>2 DEF PlanInv, PlanTypeOK
<1>4. QueuesOnRoute'
  <2> SUFFICES ASSUME NEW e \in Dispatchers, job'[e].step \in {"insert", "sequence"},
                      NEW x \in job'[e].queue
               PROVE  x[1] = job'[e].route /\ DeliveryOf(x) \in job'[e].queue
    BY DEF QueuesOnRoute, DeliveryOf
  <2>1. job'[e] = job[e]
    BY <1>2 DEF Plan!Idle
  <2>2. QED  BY <2>1 DEF PlanInv, QueuesOnRoute
<1>5. ~overlap => \A e \in Dispatchers : job'[e] = Plan!Idle
  BY <1>2, OnlyRequest
<1>6. ReadsHold'
  BY <1>1, <1>5 DEF ReadsHold, RequestsInTurn, Plan!Busy, JobHolds, PlanHolds, InsertHolds,
                    SequenceHolds, Plan!Idle
<1>7. QED  BY <1>3, <1>4, <1>6 DEF PlanInv

LEMMA CreateRoutePlanInv ==
    ASSUME PlanInv, NEW d \in Dispatchers, Plan!CreateRoute(d)
    PROVE  PlanInv'
<1> DEFINE plan == job[d].plan
<1>1. PICK r \in Routes :
        /\ routeStatus' = [routeStatus EXCEPT ![r] = "PLANNED"]
        /\ stop' = [x \in Plan!Slots |->
                      IF x \in UNION {Plan!SlotsFor(r, o) : o \in Head(plan)}
                      THEN "PENDING" ELSE stop[x]]
  BY DEF Plan!CreateRoute
<1>2. /\ job[d].step = "createRoute"
      /\ job' = [job EXCEPT ![d].step = "assign"]
      /\ UNCHANGED <<orderStatus, overlap>>
  BY DEF Plan!CreateRoute
<1>3. /\ job[d] \in PlanJob /\ plan \in Seq(SUBSET Orders) /\ plan # <<>>
      /\ \A e \in Dispatchers : job'[e] = IF e = d THEN [job[d] EXCEPT !.step = "assign"]
                                          ELSE job[e]
  BY <1>2 DEF PlanInv, PlanTypeOK, PlanJob, Plan!Idle
<1>4. job'[d] = [step |-> "assign", plan |-> plan]
  BY <1>2, <1>3 DEF PlanJob, Plan!Idle
<1>5. Head(plan) = plan[1] /\ 1 \in DOMAIN plan /\ plan[1] \subseteq Orders
  BY <1>3
<1> DEFINE added == UNION {Plan!SlotsFor(r, o) : o \in plan[1]}
<1>6. stop' = [x \in Plan!Slots |-> IF x \in added THEN "PENDING" ELSE stop[x]]
  BY <1>1, <1>5
<1>7. /\ added \subseteq Plan!Slots
      /\ \A x \in added : x[1] = r /\ x[2] \in plan[1] /\ DeliveryOf(x) \in added
      /\ \A o \in plan[1] : <<r, o, "DELIVERY">> \in added
  <2>1. \A o \in plan[1] : Plan!SlotsFor(r, o) \subseteq added
    OBVIOUS
  <2>2. \A x \in added : \E o \in plan[1] : x \in Plan!SlotsFor(r, o)
    OBVIOUS
  <2> HIDE DEF added
  <2>3. \A o \in plan[1] : o \in Orders
    BY <1>5
  <2>4. added \subseteq Plan!Slots
    BY <2>2, <2>3, SlotsForFacts
  <2>5. \A o \in plan[1] : <<r, o, "DELIVERY">> \in added
    BY <2>1, <2>3, SlotsForFacts
  <2>6. ASSUME NEW x \in added PROVE x[1] = r /\ x[2] \in plan[1]
    <3>1. PICK o \in plan[1] : x \in Plan!SlotsFor(r, o)
      BY <2>2
    <3>2. x[1] = r /\ x[2] = o
      BY <2>3, <3>1, SlotsForFacts
    <3>3. QED  BY <3>2
  <2>7. QED  BY <2>4, <2>5, <2>6 DEF DeliveryOf
<1> HIDE DEF added
<1>8. PlanTypeOK'
  <2>1. job' \in [Dispatchers -> PlanJob]
    <3>1. [step |-> "assign", plan |-> plan] \in PlanJob
      BY <1>3 DEF PlanJob
    <3>2. QED  BY <1>2, <1>3, <1>4, <3>1 DEF PlanInv, PlanTypeOK
  <2>2. stop' \in [Plan!Slots -> Plan!StopStatus \cup {"absent"}]
    BY <1>6 DEF PlanInv, PlanTypeOK, Plan!StopStatus
  <2>3. routeStatus' \in [Routes -> RouteStatuses]
    BY <1>1 DEF PlanInv, PlanTypeOK, RouteStatuses, Plan!Insertable
  <2>4. QED  BY <1>2, <2>1, <2>2, <2>3 DEF PlanInv, PlanTypeOK
<1>9. QueuesOnRoute'
  BY <1>3, <1>4 DEF PlanInv, QueuesOnRoute, DeliveryOf
<1>10. \A x \in Plan!Slots : There(x)' <=> x \in added \/ There(x)
  BY <1>6 DEF There
<1>11. ASSUME ~overlap
       PROVE  \A x \in Plan!Slots : There(x) => x[2] \notin plan[1]
  BY <1>2, <1>5, <1>11, SlotFacts
  DEF PlanInv, ReadsHold, JobHolds, PlanHolds, ToCreate, Plan!HasStop, There
<1>12. ReadsHold'
  <2> SUFFICES ASSUME ~overlap
               PROVE  RequestsInTurn' /\ StopsHaveDelivery' /\ \A e \in Dispatchers : JobHolds(e)'
    BY <1>2 DEF ReadsHold
  <2>1. \A e \in Dispatchers \ {d} : job[e] = Plan!Idle
    BY <1>2, OnlyRequest DEF Plan!Busy
  <2>2. RequestsInTurn'
    BY <1>3, <2>1 DEF RequestsInTurn, Plan!Busy, Plan!Idle
  <2>3. StopsHaveDelivery'
    BY <1>7, <1>10, SlotFacts DEF PlanInv, ReadsHold, StopsHaveDelivery, DeliveryOf
  <2>4. PlanHolds(job[d])'
    <3>1. /\ \A i, k \in DOMAIN plan : i # k => plan[i] \cap plan[k] = {}
          /\ \A i \in DOMAIN plan : \A o \in plan[i] : ~Plan!HasStop(o)
      BY <1>2 DEF PlanInv, ReadsHold, JobHolds, PlanHolds, ToCreate
    <3>2. \A i \in DOMAIN plan \ {1} : \A o \in plan[i] : ~Plan!HasStop(o)'
      <4> SUFFICES ASSUME NEW i \in DOMAIN plan \ {1}, NEW o \in plan[i], NEW x \in Plan!Slots,
                          x[2] = o, There(x)'
                   PROVE  FALSE
        BY SlotFacts DEF Plan!HasStop, There
      <4>1. o \notin plan[1]
        BY <1>5, <3>1
      <4>2. There(x)
        BY <1>7, <1>10, <4>1
      <4>3. QED  BY <3>1, <4>2, SlotFacts DEF Plan!HasStop, There
    <3>3. \A o \in plan[1] : There(<<r, o, "DELIVERY">>)'
      BY <1>5, <1>7, <1>10
    <3>4. QED  BY <1>4, <3>1, <3>2, <3>3 DEF PlanHolds, ToCreate
  <2>5. InsertHolds(job[d])' /\ SequenceHolds(job[d])'
    BY <1>4 DEF InsertHolds, SequenceHolds
  <2>6. ASSUME NEW e \in Dispatchers \ {d} PROVE JobHolds(e)'
    BY <1>3, <2>1 DEF JobHolds, PlanHolds, InsertHolds, SequenceHolds, Plan!Idle
  <2>7. QED  BY <2>2, <2>3, <2>4, <2>5, <2>6 DEF JobHolds
<1>13. OneRoutePerOrder'
  <2> SUFFICES ASSUME ~overlap, NEW x \in Plan!Slots, NEW y \in Plan!Slots,
                      There(x)', There(y)', x[2] = y[2]
               PROVE  x[1] = y[1]
    BY <1>2, SlotFacts DEF OneRoutePerOrder, Plan!OneRoutePerOrder, There
  <2>1. CASE There(x) /\ There(y)
    BY <2>1, SlotFacts DEF PlanInv, OneRoutePerOrder, Plan!OneRoutePerOrder, There
  <2>2. CASE x \in added \/ y \in added
    BY <1>7, <1>10, <1>11, <2>2
  <2>3. QED  BY <1>10, <2>1, <2>2
<1>14. AssignedHasDelivery'
  <2> SUFFICES ASSUME ~overlap, NEW o \in Orders, orderStatus[o] # "GEOCODED"
               PROVE  \E s \in Routes : There(<<s, o, "DELIVERY">>)'
    BY <1>2 DEF AssignedHasDelivery, Plan!AssignedHasDelivery, There
  <2>1. PICK s \in Routes : There(<<s, o, "DELIVERY">>)
    BY DEF PlanInv, AssignedHasDelivery, Plan!AssignedHasDelivery, There
  <2>2. QED  BY <1>10, <2>1, SlotFacts
<1>15. QED  BY <1>8, <1>9, <1>12, <1>13, <1>14 DEF PlanInv

LEMMA TailFacts ==
    ASSUME NEW S, NEW s \in Seq(S), s # <<>>, Len(s) # 1
    PROVE  /\ Tail(s) \in Seq(S) /\ Tail(s) # <<>>
           /\ \A i \in DOMAIN Tail(s) :
                i \in Nat /\ i + 1 \in DOMAIN s \ {1} /\ Tail(s)[i] = s[i + 1]
<1>1. Len(s) \in Nat /\ Len(s) > 1 /\ DOMAIN s = 1..Len(s)
  <2>1. Len(s) \in Nat /\ DOMAIN s = 1..Len(s)
    OBVIOUS
  <2>2. Len(s) # 0
    OBVIOUS
  <2>3. QED  BY <2>1, <2>2
<1>2. Tail(s) \in Seq(S) /\ Len(Tail(s)) = Len(s) - 1
  OBVIOUS
<1>3. DOMAIN Tail(s) = 1..(Len(s) - 1)
  BY <1>1, <1>2
<1>4. \A i \in 1..(Len(s) - 1) : Tail(s)[i] = s[i + 1]
  OBVIOUS
<1>5. Tail(s) # <<>>
  <2>1. Len(Tail(s)) # 0
    BY <1>1, <1>2
  <2> DEFINE rest == Tail(s)
  <2>2. Len(rest) # 0
    BY <2>1
  <2> HIDE DEF rest
  <2>3. rest # <<>>
    BY <2>2
  <2>4. QED  BY <2>3 DEF rest
<1>6. \A i \in 1..(Len(s) - 1) : i \in Nat /\ i + 1 \in DOMAIN s \ {1}
  <2> DEFINE n == Len(s)
  <2>1. n \in Nat /\ DOMAIN s = 1..n
    BY <1>1
  <2> HIDE DEF n
  <2>2. \A i \in 1..(n - 1) : i \in Nat /\ i + 1 \in 1..n /\ i + 1 # 1
    BY <2>1
  <2>3. QED  BY <2>1, <2>2 DEF n
<1> HIDE <1>1
<1>7. QED  BY <1>2, <1>3, <1>4, <1>5, <1>6

LEMMA AssignOrdersPlanInv ==
    ASSUME PlanInv, NEW d \in Dispatchers, Plan!AssignOrders(d)
    PROVE  PlanInv'
<1> DEFINE plan == job[d].plan
           next == IF Len(plan) = 1 THEN Plan!Idle
                   ELSE [step |-> "createRoute", plan |-> Tail(plan)]
<1>1. /\ job[d].step = "assign"
      /\ orderStatus' = [o \in Orders |-> IF o \in Head(plan) THEN "ASSIGNED"
                                          ELSE orderStatus[o]]
      /\ job' = [job EXCEPT ![d] = next]
      /\ UNCHANGED <<routeStatus, stop, overlap>>
  BY DEF Plan!AssignOrders
<1>2. /\ job[d] \in PlanJob /\ plan \in Seq(SUBSET Orders) /\ plan # <<>>
      /\ \A e \in Dispatchers : job'[e] = IF e = d THEN next ELSE job[e]
  BY <1>1 DEF PlanInv, PlanTypeOK, PlanJob, Plan!Idle
<1>3. Head(plan) = plan[1] /\ 1 \in DOMAIN plan /\ plan[1] \subseteq Orders
  BY <1>2
<1>4. \/ next = Plan!Idle
      \/ /\ next = [step |-> "createRoute", plan |-> Tail(plan)]
         /\ Tail(plan) \in Seq(SUBSET Orders) /\ Tail(plan) # <<>>
         /\ \A i \in DOMAIN Tail(plan) :
              i \in Nat /\ i + 1 \in DOMAIN plan \ {1} /\ Tail(plan)[i] = plan[i + 1]
  BY <1>2, TailFacts
<1> HIDE DEF next
<1>5. PlanTypeOK'
  <2>1. job' \in [Dispatchers -> PlanJob]
    <3>1. next \in PlanJob
      <4>1. ASSUME Tail(plan) \in Seq(SUBSET Orders), Tail(plan) # <<>>
            PROVE  [step |-> "createRoute", plan |-> Tail(plan)] \in PlanJob
        BY <4>1 DEF PlanJob
      <4>2. QED  BY <1>4, <4>1 DEF PlanJob
    <3>2. QED  BY <1>1, <3>1 DEF PlanInv, PlanTypeOK
  <2>2. orderStatus' \in [Orders -> OrderStatuses]
    BY <1>1 DEF PlanInv, PlanTypeOK, OrderStatuses
  <2>3. QED  BY <1>1, <2>1, <2>2 DEF PlanInv, PlanTypeOK
<1>6. QueuesOnRoute'
  <2> SUFFICES ASSUME NEW e \in Dispatchers, job'[e].step \in {"insert", "sequence"},
                      NEW x \in job'[e].queue
               PROVE  x[1] = job'[e].route /\ DeliveryOf(x) \in job'[e].queue
    BY DEF QueuesOnRoute, DeliveryOf
  <2>1. job'[e] = job[e]
    BY <1>2, <1>4 DEF Plan!Idle
  <2>2. QED  BY <2>1 DEF PlanInv, QueuesOnRoute
<1>7. ReadsHold'
  <2> SUFFICES ASSUME ~overlap
               PROVE  RequestsInTurn' /\ StopsHaveDelivery' /\ \A e \in Dispatchers : JobHolds(e)'
    BY <1>1 DEF ReadsHold
  <2>1. \A e \in Dispatchers \ {d} : job[e] = Plan!Idle
    BY <1>1, OnlyRequest DEF Plan!Busy
  <2>2. RequestsInTurn'
    BY <1>2, <2>1 DEF RequestsInTurn, Plan!Busy, Plan!Idle
  <2>3. StopsHaveDelivery'
    BY <1>1, SlotFacts DEF PlanInv, ReadsHold, StopsHaveDelivery, DeliveryOf, There
  <2>4. /\ \A i, k \in DOMAIN plan : i # k => plan[i] \cap plan[k] = {}
        /\ \A i \in DOMAIN plan \ {1} : \A o \in plan[i] : ~Plan!HasStop(o)
    BY <1>1 DEF PlanInv, ReadsHold, JobHolds, PlanHolds, ToCreate
  <2>5. \A o : Plan!HasStop(o)' <=> Plan!HasStop(o)
    BY <1>1 DEF Plan!HasStop
  <2>6. ASSUME NEW e \in Dispatchers, job'[e] = Plan!Idle
        PROVE  JobHolds(e)'
    BY <2>6 DEF JobHolds, PlanHolds, InsertHolds, SequenceHolds, Plan!Idle
  <2>7. CASE next # Plan!Idle
    <3>1. /\ next = [step |-> "createRoute", plan |-> Tail(plan)] /\ job'[d] = next
          /\ \A i \in DOMAIN Tail(plan) :
               i \in Nat /\ i + 1 \in DOMAIN plan \ {1} /\ Tail(plan)[i] = plan[i + 1]
      BY <1>2, <1>4, <2>7
    <3>2. \A i, k \in DOMAIN Tail(plan) : i # k => Tail(plan)[i] \cap Tail(plan)[k] = {}
      BY <2>4, <3>1
    <3>3. \A i \in DOMAIN Tail(plan) : \A o \in Tail(plan)[i] : ~Plan!HasStop(o)'
      BY <2>4, <2>5, <3>1
    <3>4. PlanHolds(job[d])'
      BY <3>1, <3>2, <3>3 DEF PlanHolds, ToCreate
    <3>5. InsertHolds(job[d])' /\ SequenceHolds(job[d])'
      BY <3>1 DEF InsertHolds, SequenceHolds
    <3>6. JobHolds(d)'
      BY <3>4, <3>5 DEF JobHolds
    <3>7. QED  BY <1>2, <2>1, <2>2, <2>3, <2>6, <3>6
  <2>8. QED  BY <1>2, <2>1, <2>2, <2>3, <2>6, <2>7
<1>8. OneRoutePerOrder'
  BY <1>1 DEF PlanInv, OneRoutePerOrder, Plan!OneRoutePerOrder, Plan!OrderIn, Plan!RouteIn
<1>9. AssignedHasDelivery'
  <2> SUFFICES ASSUME ~overlap, NEW o \in Orders, orderStatus'[o] # "GEOCODED"
               PROVE  \E s \in Routes : There(<<s, o, "DELIVERY">>)
    BY <1>1 DEF AssignedHasDelivery, Plan!AssignedHasDelivery, There
  <2>1. CASE o \in plan[1]
    BY <1>1, <2>1 DEF PlanInv, ReadsHold, JobHolds, PlanHolds
  <2>2. CASE o \notin plan[1]
    BY <1>1, <1>3, <2>2 DEF PlanInv, AssignedHasDelivery, Plan!AssignedHasDelivery, There
  <2>3. QED  BY <2>1, <2>2
<1>10. QED  BY <1>5, <1>6, <1>7, <1>8, <1>9 DEF PlanInv

LEMMA InsertCommitPlanInv ==
    ASSUME PlanInv, NEW d \in Dispatchers, Plan!InsertCommit(d)
    PROVE  PlanInv'
<1> DEFINE r == job[d].route  o == job[d].order  queue == job[d].queue
<1>1. /\ job[d].step = "insert"
      /\ stop' = [x \in Plan!Slots |-> IF x \in queue THEN "PENDING"
                                       ELSE IF x \in Plan!PendingOf(r) THEN "absent"
                                       ELSE stop[x]]
      /\ orderStatus' = [orderStatus EXCEPT
           ![o] = IF job[d].status = "PLANNED" THEN "ASSIGNED" ELSE "IN_TRANSIT"]
      /\ Plan!Finish(d) /\ routeStatus' = routeStatus /\ overlap' = overlap
  BY DEF Plan!InsertCommit, Plan!ReplaceQueue, Plan!Finish
<1>2. Plan!Busy(d) /\ r \in Routes /\ o \in Orders /\ queue \subseteq Plan!Slots
  BY <1>1 DEF PlanInv, PlanTypeOK, PlanJob, Plan!Idle, Plan!Busy
<1>3. \A x \in queue : x[1] = r /\ DeliveryOf(x) \in queue
  BY <1>1 DEF PlanInv, QueuesOnRoute
<1>4. stop' \in [Plan!Slots -> Plan!StopStatus \cup {"absent"}]
  BY <1>1 DEF PlanInv, PlanTypeOK, Plan!StopStatus
<1>5. /\ orderStatus' \in [Orders -> OrderStatuses]
      /\ \A q \in Orders \ {o} : orderStatus'[q] = orderStatus[q]
  BY <1>1, <1>2 DEF PlanInv, PlanTypeOK, OrderStatuses
<1>6. ASSUME ~overlap
      PROVE  /\ \A x \in Plan!Slots : There(x)' <=> x \in queue \/ There(x)
             /\ <<r, o, "DELIVERY">> \in queue
             /\ \A x \in Plan!Slots : There(x) => x[2] # o
             /\ \A x \in queue : x[2] = o \/ There(DeliveryOf(x))
  <2>1. /\ ~Plan!HasStop(o)
        /\ <<r, o, "DELIVERY">> \in queue
        /\ Plan!PendingOf(r) \subseteq queue
        /\ \A x \in queue : x[2] = o \/ There(DeliveryOf(x))
    BY <1>1, <1>6 DEF PlanInv, ReadsHold, JobHolds, InsertHolds
  <2>2. \A x \in Plan!Slots : There(x)' <=> x \in queue \/ There(x)
    BY <1>1, <2>1 DEF There
  <2>3. QED  BY <2>1, <2>2, SlotFacts DEF Plan!HasStop, There
<1>7. ~overlap => StopsHaveDelivery'
  BY <1>3, <1>6, SlotFacts DEF PlanInv, ReadsHold, StopsHaveDelivery, DeliveryOf
<1>8. OneRoutePerOrder'
  <2> SUFFICES ASSUME ~overlap, NEW x \in Plan!Slots, NEW y \in Plan!Slots,
                      There(x)', There(y)', x[2] = y[2]
               PROVE  x[1] = y[1]
    BY <1>1, SlotFacts DEF OneRoutePerOrder, Plan!OneRoutePerOrder, There
  <2>1. \A z \in Plan!Slots : There(z)' /\ z[2] # o => \E u \in Plan!Slots :
                                There(u) /\ u[1] = z[1] /\ u[2] = z[2]
    <3> SUFFICES ASSUME NEW z \in Plan!Slots, There(z)', z[2] # o
                 PROVE  \E u \in Plan!Slots : There(u) /\ u[1] = z[1] /\ u[2] = z[2]
      OBVIOUS
    <3>1. CASE There(z)
      BY <3>1
    <3>2. CASE z \in queue
      BY <1>6, <3>2, SlotFacts DEF DeliveryOf
    <3>3. QED  BY <1>6, <3>1, <3>2
  <2>2. CASE x[2] = o
    BY <1>3, <1>6, <2>2
  <2>3. CASE x[2] # o
    BY <2>1, <2>3, SlotFacts DEF PlanInv, OneRoutePerOrder, Plan!OneRoutePerOrder, There
  <2>4. QED  BY <2>2, <2>3
<1>9. AssignedHasDelivery'
  <2> SUFFICES ASSUME ~overlap, NEW q \in Orders, orderStatus'[q] # "GEOCODED"
               PROVE  \E s \in Routes : There(<<s, q, "DELIVERY">>)'
    BY <1>1 DEF AssignedHasDelivery, Plan!AssignedHasDelivery, There
  <2>1. CASE q = o
    BY <1>2, <1>6, <2>1, SlotFacts
  <2>2. CASE q # o
    <3>1. PICK s \in Routes : There(<<s, q, "DELIVERY">>)
      BY <1>5, <2>2 DEF PlanInv, AssignedHasDelivery, Plan!AssignedHasDelivery, There
    <3>2. QED  BY <1>6, <3>1, SlotFacts
  <2>3. QED  BY <2>1, <2>2
<1>10. QED  BY <1>1, <1>2, <1>4, <1>5, <1>7, <1>8, <1>9, FinishPlanInv

LEMMA SequenceCommitPlanInv ==
    ASSUME PlanInv, NEW d \in Dispatchers, Plan!SequenceCommit(d)
    PROVE  PlanInv'
<1> DEFINE r == job[d].route  queue == job[d].queue
<1>1. /\ job[d].step = "sequence"
      /\ stop' = [x \in Plan!Slots |-> IF x \in queue THEN "PENDING"
                                       ELSE IF Plan!RouteIn(x) = r THEN "absent"
                                       ELSE stop[x]]
      /\ Plan!Finish(d) /\ UNCHANGED <<routeStatus, orderStatus, overlap>>
  BY DEF Plan!SequenceCommit, Plan!Finish
<1>2. Plan!Busy(d) /\ r \in Routes /\ queue \subseteq Plan!Slots
  BY <1>1 DEF PlanInv, PlanTypeOK, PlanJob, Plan!Idle, Plan!Busy
<1>3. \A x \in queue : x[1] = r /\ DeliveryOf(x) \in queue
  BY <1>1 DEF PlanInv, QueuesOnRoute
<1>4. stop' \in [Plan!Slots -> Plan!StopStatus \cup {"absent"}]
  BY <1>1 DEF PlanInv, PlanTypeOK, Plan!StopStatus
<1>5. orderStatus' \in [Orders -> OrderStatuses]
  BY <1>1 DEF PlanInv, PlanTypeOK
<1>6. ASSUME ~overlap
      PROVE  /\ \A x \in Plan!Slots : There(x)' <=> x \in queue \/ There(x)
             /\ \A x \in queue : There(DeliveryOf(x))
  <2>1. /\ Plan!StopsOf(r) \subseteq queue
        /\ \A x \in queue : There(DeliveryOf(x))
    BY <1>1, <1>6 DEF PlanInv, ReadsHold, JobHolds, SequenceHolds
  <2>2. \A x \in Plan!Slots : There(x) /\ Plan!RouteIn(x) = r => x \in queue
    BY <2>1 DEF Plan!StopsOf, There
  <2>3. QED  BY <1>1, <2>1, <2>2 DEF There
<1>7. ~overlap => StopsHaveDelivery'
  BY <1>3, <1>6, SlotFacts DEF PlanInv, ReadsHold, StopsHaveDelivery, DeliveryOf
<1>8. OneRoutePerOrder'
  <2> SUFFICES ASSUME ~overlap, NEW x \in Plan!Slots, NEW y \in Plan!Slots,
                      There(x)', There(y)', x[2] = y[2]
               PROVE  x[1] = y[1]
    BY <1>1, SlotFacts DEF OneRoutePerOrder, Plan!OneRoutePerOrder, There
  <2>1. \A z \in Plan!Slots : There(z)' => \E u \in Plan!Slots :
                                There(u) /\ u[1] = z[1] /\ u[2] = z[2]
    BY <1>6, SlotFacts DEF DeliveryOf
  <2>2. QED  BY <2>1, SlotFacts DEF PlanInv, OneRoutePerOrder, Plan!OneRoutePerOrder, There
<1>9. AssignedHasDelivery'
  <2> SUFFICES ASSUME ~overlap, NEW q \in Orders, orderStatus[q] # "GEOCODED"
               PROVE  \E s \in Routes : There(<<s, q, "DELIVERY">>)'
    BY <1>1 DEF AssignedHasDelivery, Plan!AssignedHasDelivery, There
  <2>1. PICK s \in Routes : There(<<s, q, "DELIVERY">>)
    BY DEF PlanInv, AssignedHasDelivery, Plan!AssignedHasDelivery, There
  <2>2. QED  BY <1>6, <2>1, SlotFacts
<1>10. QED  BY <1>1, <1>2, <1>4, <1>5, <1>7, <1>8, <1>9, FinishPlanInv

LEMMA EndPlanInv ==
    ASSUME PlanInv, NEW d \in Dispatchers, Plan!InsertConflict(d) \/ Plan!Abort(d)
    PROVE  PlanInv'
<1>1. Plan!Busy(d) /\ Plan!Finish(d) /\ UNCHANGED <<routeStatus, stop, orderStatus, overlap>>
  BY DEF Plan!InsertConflict, Plan!Abort, Plan!Busy, Plan!Finish
<1>2. /\ stop' \in [Plan!Slots -> Plan!StopStatus \cup {"absent"}]
      /\ orderStatus' \in [Orders -> OrderStatuses]
  BY <1>1 DEF PlanInv, PlanTypeOK
<1>3. ~overlap => StopsHaveDelivery'
  BY <1>1 DEF PlanInv, ReadsHold, StopsHaveDelivery, DeliveryOf, There
<1>4. OneRoutePerOrder' /\ AssignedHasDelivery'
  BY <1>1 DEF PlanInv, OneRoutePerOrder, AssignedHasDelivery, Plan!OneRoutePerOrder,
              Plan!AssignedHasDelivery
<1>5. QED  BY <1>1, <1>2, <1>3, <1>4, FinishPlanInv

LEMMA PlanInvStays == PlanInv /\ [Plan!Next]_(Plan!vars) => PlanInv'
<1> SUFFICES ASSUME PlanInv, [Plan!Next]_(Plan!vars) PROVE PlanInv'
  OBVIOUS
<1>1. CASE UNCHANGED Plan!vars
  <2>1. UNCHANGED <<routeStatus, stop, orderStatus, job, overlap>>
    BY <1>1 DEF Plan!vars
  <2>2. \A o \in Orders : orderStatus'[o] = orderStatus[o]
    BY <2>1
  <2>3. \A x \in Plan!Slots : (There(x)' <=> There(x)) /\ stop'[x] = stop[x]
    BY <2>1 DEF There
  <2>4. /\ routeStatus' \in [Routes -> RouteStatuses]
        /\ orderStatus' \in [Orders -> OrderStatuses]
        /\ stop' \in [Plan!Slots -> Plan!StopStatus \cup {"absent"}]
    BY <2>1 DEF PlanInv, PlanTypeOK
  <2>5. QED  BY <2>1, <2>2, <2>3, <2>4, AttendingPlanInv
<1>2. ASSUME NEW d \in Dispatchers,
             \/ Plan!PlanRead(d) \/ Plan!CreateRoute(d) \/ Plan!AssignOrders(d)
             \/ \E r \in Routes, o \in Orders : Plan!InsertRead(d, r, o)
             \/ Plan!InsertCommit(d) \/ Plan!InsertConflict(d)
             \/ \E r \in Routes : Plan!SequenceRead(d, r)
             \/ Plan!SequenceCommit(d)
             \/ Plan!Abort(d)
      PROVE  PlanInv'
  BY <1>2, PlanReadPlanInv, CreateRoutePlanInv, AssignOrdersPlanInv, InsertReadPlanInv,
     InsertCommitPlanInv, EndPlanInv, SequenceReadPlanInv, SequenceCommitPlanInv
<1>3. QED  BY <1>1, <1>2, DriversPlanInv DEF Plan!Next

-----------------------------------------------------------------------------
\* The planner's routes (Optimizer).

\* Induction over the numbers, in the form in which it needs no operator parameter.
LEMMA LeastNumber ==
    ASSUME NEW S \in SUBSET Nat, S # {}
    PROVE  \E n \in S : \A m \in S : n <= m
<1> DEFINE less == {ss \in Nat \X Nat : ss[1] < ss[2]}
<1>1. IsWellFoundedOn(less, Nat)
  BY NatLessThanWellFounded DEF OpToRel
<1>2. \A m, n \in S : m < n => <<m, n>> \in less
  OBVIOUS
<1> HIDE DEF less
<1>3. PICK n \in S : \A m \in S : <<m, n>> \notin less
  BY <1>1, WFMin
<1>4. \A m \in S : ~(m < n)
  BY <1>2, <1>3
<1>5. \A m \in S : m \in Nat /\ n \in Nat
  OBVIOUS
<1>6. \A m \in S : n <= m
  BY <1>4, <1>5
<1>7. QED  BY <1>6

\* What the loops over a sequence compute: each turn from the one before it.  There is
\* such a function ...
CanRun(S, n, start, T) ==
    \E f \in [0..n -> S] : f[0] = start /\ \A i \in 1..n : f[i] = T[i][f[i - 1]]

LEMMA TurnsExist ==
    ASSUME NEW n \in Nat, NEW S, NEW start \in S, NEW T \in [1..n -> [S -> S]]
    PROVE  CanRun(S, n, start, T)
<1> DEFINE Upto(m) == \E f \in [0..m -> S] : f[0] = start /\ \A i \in 1..m : f[i] = T[i][f[i - 1]]
           bad == {m \in 0..n : ~Upto(m)}
<1> SUFFICES ASSUME bad # {} PROVE FALSE
  <2>1. bad = {} => Upto(n)
    <3> HIDE DEF Upto
    <3>1. QED  OBVIOUS
  <2>2. QED  BY <2>1 DEF CanRun
<1>1. bad \in SUBSET Nat
  OBVIOUS
<1>2. PICK m \in bad : \A k \in bad : m <= k
  <2> HIDE DEF bad
  <2>1. QED  BY <1>1, LeastNumber
<1>3. m \in 0..n /\ ~Upto(m)
  OBVIOUS
<1>4. m # 0
  <2>1. Upto(0)
    <3> DEFINE f == [i \in 0..0 |-> start]
    <3>1. f \in [0..0 -> S] /\ f[0] = start /\ 1..0 = {}
      OBVIOUS
    <3>2. QED  BY <3>1
  <2>2. QED  BY <1>3, <2>1
<1>5. m - 1 \in 0..n /\ m - 1 \notin bad
  <2> HIDE DEF bad
  <2>1. m - 1 \in 0..n /\ ~(m <= m - 1)
    BY <1>3, <1>4
  <2>2. QED  BY <1>2, <2>1
<1>6. PICK g \in [0..(m - 1) -> S] : g[0] = start /\ \A i \in 1..(m - 1) : g[i] = T[i][g[i - 1]]
  BY <1>5
<1> DEFINE f == [i \in 0..m |-> IF i = m THEN T[m][g[m - 1]] ELSE g[i]]
<1> HIDE DEF bad
<1>7. f[0] = start /\ \A i \in 1..m : f[i] = T[i][f[i - 1]]
  BY <1>3, <1>4, <1>6
<1>8. f \in [0..m -> S]
  <2>1. T[m][g[m - 1]] \in S
    BY <1>3, <1>4, <1>6
  <2>2. QED  BY <1>3, <1>4, <1>6, <2>1
<1>9. Upto(m)
  BY <1>7, <1>8
<1>10. QED  BY <1>3, <1>9

\* ... and only one.
Follow(f, g, n) == f[0] = g[0] /\ \A i \in 1..n : f[i - 1] = g[i - 1] => f[i] = g[i]
Agree(f, g, n) == \A i \in 0..n : f[i] = g[i]

LEMMA TurnsAgree ==
    ASSUME NEW n \in Nat, NEW f, NEW g, Follow(f, g, n)
    PROVE  Agree(f, g, n)
<1> DEFINE bad == {m \in 0..n : f[m] # g[m]}
<1> SUFFICES ASSUME bad # {} PROVE FALSE
  BY DEF Agree
<1>1. bad \in SUBSET Nat
  OBVIOUS
<1>2. PICK m \in bad : \A k \in bad : m <= k
  <2> HIDE DEF bad
  <2>1. QED  BY <1>1, LeastNumber
<1>3. m \in 1..n /\ f[m] # g[m]
  BY <1>2 DEF Follow
<1>4. m - 1 \in 0..n /\ ~(m <= m - 1)
  BY <1>3
<1>5. f[m - 1] = g[m - 1]
  BY <1>2, <1>4
<1>6. QED  BY <1>3, <1>5 DEF Follow

\* An order has a weight and a volume, and a way to be served.
Weighed == order \in [Packages -> OrderKinds] /\ Solvers!OptimizerAssumption

LEMMA WeighsNumber ==
    ASSUME Weighed, NEW o \in Packages, NEW what \in {"kg", "m3"}
    PROVE  order[o][what] \in Nat
  BY DEF Weighed, Solvers!OptimizerAssumption

\* The sums of the weights, or the volumes: there are such, and LoadOf is their last.
Sums(stops, n, what) ==
    {f \in [0..n -> Int] : f[0] = 0 /\ \A i \in 1..n : f[i] = f[i - 1] + order[stops[i]][what]}

LEMMA LoadIsLastSum ==
    ASSUME NEW stops, NEW n \in Nat, n = Len(stops), NEW what, NEW f \in Sums(stops, n, what)
    PROVE  Solvers!LoadOf(stops, what) = f[n]
<1> DEFINE IsSum(s) == s = [i \in 0..n |->
                              IF i = 0 THEN 0 ELSE s[i - 1] + order[stops[i]][what]]
           sum == CHOOSE s : IsSum(s)
<1>1. f[0] = 0 /\ \A i \in 1..n : f[i] = f[i - 1] + order[stops[i]][what]
  BY DEF Sums
<1>2. IsSum(f)
  BY <1>1 DEF Sums
<1>3. IsSum(sum)
  <2> HIDE DEF IsSum
  <2>1. QED  BY <1>2
<1>4. Solvers!LoadOf(stops, what) = sum[n]
  BY DEF Solvers!LoadOf
<1>5. PICK g : g = sum /\ g[0] = 0 /\ \A i \in 1..n : g[i] = g[i - 1] + order[stops[i]][what]
  <2> HIDE DEF sum
  <2>1. QED  BY <1>3
<1> HIDE DEF sum, IsSum
<1>6. Follow(f, g, n)
  BY <1>1, <1>5 DEF Follow
<1>7. Agree(f, g, n)
  BY <1>6, TurnsAgree
<1>8. QED  BY <1>4, <1>5, <1>7 DEF Agree

LEMMA SumsExist ==
    ASSUME Weighed, NEW stops \in Seq(Packages), NEW n \in Nat, n = Len(stops),
           NEW what \in {"kg", "m3"}
    PROVE  Sums(stops, n, what) # {}
<1> DEFINE T == [i \in 1..n |-> [x \in Int |-> x + order[stops[i]][what]]]
<1>1. \A i \in 1..n : stops[i] \in Packages
  OBVIOUS
<1>2. \A i \in 1..n : order[stops[i]][what] \in Nat
  BY <1>1, WeighsNumber
<1>3. T \in [1..n -> [Int -> Int]]
  BY <1>2
<1>4. 0 \in Int /\ \A i \in 1..n, x \in Int : T[i][x] = x + order[stops[i]][what]
  BY <1>2
<1> HIDE DEF T
<1>5. PICK f \in [0..n -> Int] : f[0] = 0 /\ \A i \in 1..n : f[i] = T[i][f[i - 1]]
  <2>1. CanRun(Int, n, 0, T)
    BY <1>3, <1>4, TurnsExist
  <2>2. QED  BY <2>1 DEF CanRun
<1>6. \A i \in 1..n : f[i - 1] \in Int
  OBVIOUS
<1>7. f[0] = 0 /\ \A i \in 1..n : f[i] = f[i - 1] + order[stops[i]][what]
  BY <1>4, <1>5, <1>6
<1>8. QED  BY <1>7 DEF Sums

\* What follows for the load when two stops change places, when a stretch is turned
\* round and when an order is put in: the sums of the one, from those of the other.
Swapped(stops, fixed, n, i, j) ==
    \A k \in 1..n : fixed[k] = IF k = i THEN stops[j] ELSE IF k = j THEN stops[i] ELSE stops[k]
Turned(stops, turned, n, i, j) ==
    \A k \in 1..n : turned[k] = IF k \in i..j THEN stops[i + j - k] ELSE stops[k]
Inserted(stops, longer, n, o, at) ==
    \A k \in 1..(n + 1) :
        longer[k] = IF k <= at THEN stops[k] ELSE IF k = at + 1 THEN o ELSE stops[k - 1]

LEMMA SwappedSums ==
    ASSUME Weighed, NEW stops \in Seq(Packages), NEW fixed, NEW n \in Nat, n = Len(stops),
           Len(fixed) = n, NEW i \in 1..n, NEW j \in 1..n, i < j,
           Swapped(stops, fixed, n, i, j), NEW what \in {"kg", "m3"}
    PROVE  Solvers!LoadOf(fixed, what) = Solvers!LoadOf(stops, what)
<1>1. PICK f \in Sums(stops, n, what) : TRUE
  BY SumsExist
<1>2. f[0] = 0 /\ \A k \in 0..n : f[k] \in Int
  BY DEF Sums
<1>3. PICK w \in [1..n -> Nat] : \A k \in 1..n : w[k] = order[stops[k]][what]
  <2>1. \A k \in 1..n : order[stops[k]][what] \in Nat
    BY WeighsNumber
  <2>2. [k \in 1..n |-> order[stops[k]][what]] \in [1..n -> Nat]
    BY <2>1
  <2>3. QED  BY <2>2
<1>4. \A k \in 1..n : f[k] = f[k - 1] + w[k]
  BY <1>3 DEF Sums
<1>5. \A k \in 1..n : order[fixed[k]][what] = IF k = i THEN w[j] ELSE IF k = j THEN w[i] ELSE w[k]
  BY <1>3 DEF Swapped
<1>6. w[i] \in Nat /\ w[j] \in Nat /\ i \in Nat /\ j \in Nat /\ i \in 1..n /\ j \in 1..n
  BY <1>3
<1> DEFINE h == [k \in 0..n |-> IF k \in i..(j - 1) THEN f[k] + w[j] - w[i] ELSE f[k]]
<1>7. h \in [0..n -> Int] /\ h[0] = 0 /\ h[n] = f[n]
  BY <1>2, <1>6
<1>8. ASSUME NEW k \in 1..n PROVE h[k] = h[k - 1] + order[fixed[k]][what]
  <2>1. k - 1 \in 0..n /\ k \in 0..n /\ f[k] \in Int /\ f[k - 1] \in Int /\ w[k] \in Nat
    BY <1>2, <1>3
  <2>2. f[k] = f[k - 1] + w[k]
    BY <1>4
  <2>3. /\ h[k] = IF k \in i..(j - 1) THEN f[k] + w[j] - w[i] ELSE f[k]
        /\ h[k - 1] = IF k - 1 \in i..(j - 1) THEN f[k - 1] + w[j] - w[i] ELSE f[k - 1]
    BY <2>1
  <2>4. order[fixed[k]][what] = IF k = i THEN w[j] ELSE IF k = j THEN w[i] ELSE w[k]
    BY <1>5
  <2> HIDE DEF h
  <2>5. CASE k = i
    <3>1. h[k] = f[k] + w[j] - w[i] /\ h[k - 1] = f[k - 1]
      BY <1>6, <2>3, <2>5
    <3>2. QED  BY <1>6, <2>1, <2>2, <2>4, <2>5, <3>1
  <2>6. CASE k = j
    <3>1. h[k] = f[k] /\ h[k - 1] = f[k - 1] + w[j] - w[i] /\ k # i
      BY <1>6, <2>3, <2>6
    <3>2. QED  BY <1>6, <2>1, <2>2, <2>4, <2>6, <3>1
  <2>7. CASE k # i /\ k # j
    <3>1. k \in i..(j - 1) <=> k - 1 \in i..(j - 1)
      BY <1>6, <2>1, <2>7
    <3>2. QED  BY <1>6, <2>1, <2>2, <2>3, <2>4, <2>7, <3>1
  <2>8. QED  BY <2>5, <2>6, <2>7
<1> HIDE DEF h
<1>9. h \in Sums(fixed, n, what)
  BY <1>7, <1>8 DEF Sums
<1>10. Solvers!LoadOf(stops, what) = f[n] /\ Solvers!LoadOf(fixed, what) = h[n]
  BY <1>9, LoadIsLastSum
<1>11. QED  BY <1>7, <1>10

LEMMA TurnedSums ==
    ASSUME Weighed, NEW stops \in Seq(Packages), NEW turned, NEW n \in Nat, n = Len(stops),
           Len(turned) = n, NEW i \in 1..n, NEW j \in 1..n, i < j,
           Turned(stops, turned, n, i, j), NEW what \in {"kg", "m3"}
    PROVE  Solvers!LoadOf(turned, what) = Solvers!LoadOf(stops, what)
<1>1. PICK f \in Sums(stops, n, what) : TRUE
  BY SumsExist
<1>2. /\ f[0] = 0 /\ \A k \in 0..n : f[k] \in Int
      /\ \A k \in 1..n : f[k] = f[k - 1] + order[stops[k]][what]
  BY DEF Sums
<1>3. \A k \in 1..n : order[stops[k]][what] \in Nat
  BY WeighsNumber
<1>4. i \in Nat /\ j \in Nat /\ i - 1 \in 0..n /\ j \in 0..n /\ i \in 1..n /\ j \in 1..n
  OBVIOUS
<1>5. PICK low, high : low = f[i - 1] /\ high = f[j] /\ low \in Int /\ high \in Int
  BY <1>2, <1>4
<1> DEFINE h == [k \in 0..n |-> IF k \in i..j THEN low + high - f[i + j - k - 1] ELSE f[k]]
<1>6. \A k \in i..j : /\ i + j - k - 1 \in 0..n /\ i + j - k \in i..j
                      /\ i + j - k \in 1..n /\ i + j - k \in 0..n
  BY <1>4
<1>7. h \in [0..n -> Int] /\ h[0] = 0
  <2>1. ASSUME NEW k \in i..j PROVE low + high - f[i + j - k - 1] \in Int
    <3>1. PICK x \in Int : x = f[i + j - k - 1]
      BY <1>2, <1>6
    <3>2. QED  BY <1>5, <3>1
  <2>2. QED  BY <1>2, <1>4, <2>1
<1>8. h[n] = f[n]
  <2>1. CASE n \in i..j
    <3>1. n = j /\ i + j - n - 1 = i - 1
      BY <1>4, <2>1
    <3>2. h[n] = low + high - low
      BY <1>5, <2>1, <3>1
    <3>3. QED  BY <1>5, <3>1, <3>2
  <2>2. CASE n \notin i..j
    BY <2>2
  <2>3. QED  BY <2>1, <2>2
<1>9. ASSUME NEW k \in 1..n PROVE h[k] = h[k - 1] + order[turned[k]][what]
  <2>1. /\ k \in Nat /\ k - 1 \in 0..n /\ k \in 0..n /\ f[k] = f[k - 1] + order[stops[k]][what]
        /\ h[k] = IF k \in i..j THEN low + high - f[i + j - k - 1] ELSE f[k]
        /\ h[k - 1] = IF k - 1 \in i..j THEN low + high - f[i + j - (k - 1) - 1] ELSE f[k - 1]
        /\ turned[k] = IF k \in i..j THEN stops[i + j - k] ELSE stops[k]
    BY <1>2 DEF Turned
  <2> HIDE DEF h
  <2>2. CASE k \notin i..j
    <3>1. h[k - 1] = f[k - 1]
      <4>1. CASE k - 1 \notin i..j
        BY <2>1, <4>1
      <4>2. CASE k - 1 \in i..j
        <5>1. k - 1 = j /\ i + j - (k - 1) - 1 = i - 1
          BY <1>4, <2>1, <2>2, <4>2
        <5>2. low + high - low = high
          BY <1>5
        <5>3. QED  BY <1>5, <2>1, <4>2, <5>1, <5>2
      <4>3. QED  BY <4>1, <4>2
    <3>2. QED  BY <2>1, <2>2, <3>1
  <2>3. CASE k \in i..j
    <3>1. PICK m \in 1..n : m = i + j - k /\ m \in i..j /\ m - 1 \in 0..n /\ m \in 0..n
      BY <1>6, <2>3
    <3>2. turned[k] = stops[m] /\ h[k] = low + high - f[m - 1]
      BY <2>1, <2>3, <3>1
    <3>3. h[k - 1] = low + high - f[m]
      <4>1. CASE k = i
        <5>1. m = j /\ k - 1 \notin i..j /\ k - 1 = i - 1
          BY <1>4, <3>1, <4>1
        <5>2. low + high - high = low
          BY <1>5
        <5>3. QED  BY <1>5, <2>1, <5>1, <5>2
      <4>2. CASE k # i
        <5>1. k - 1 \in i..j /\ i + j - (k - 1) - 1 = m
          BY <1>4, <2>1, <2>3, <3>1, <4>2
        <5>2. QED  BY <2>1, <5>1
      <4>3. QED  BY <4>1, <4>2
    <3>4. PICK w \in Nat : w = order[stops[m]][what] /\ f[m] = f[m - 1] + w
      BY <1>2, <1>3, <3>1
    <3>5. PICK x \in Int : x = f[m - 1]
      BY <1>2, <3>1
    <3>6. low + high - x = low + high - (x + w) + w
      <4>1. low \in Int /\ high \in Int /\ x \in Int /\ w \in Int
        BY <1>5, <3>4, <3>5
      <4>2. QED  BY <4>1
    <3>7. QED  BY <3>2, <3>3, <3>4, <3>5, <3>6
  <2>4. QED  BY <2>2, <2>3
<1> HIDE DEF h
<1>10. h \in Sums(turned, n, what)
  BY <1>7, <1>9 DEF Sums
<1>11. Solvers!LoadOf(stops, what) = f[n] /\ Solvers!LoadOf(turned, what) = h[n]
  BY <1>10, LoadIsLastSum
<1>12. QED  BY <1>8, <1>11

LEMMA InsertedSums ==
    ASSUME Weighed, NEW stops \in Seq(Packages), NEW longer, NEW last \in Seq(Packages),
           NEW n \in Nat, n = Len(stops), NEW m \in Nat, m = n + 1, Len(longer) = m, Len(last) = m,
           NEW o \in Packages, NEW at \in 0..n,
           Inserted(stops, longer, n, o, at), Inserted(stops, last, n, o, n),
           NEW what \in {"kg", "m3"}
    PROVE  Solvers!LoadOf(longer, what) = Solvers!LoadOf(last, what)
<1>1. PICK f \in Sums(last, m, what) : TRUE
  BY SumsExist
<1>2. /\ f[0] = 0 /\ \A k \in 0..m : f[k] \in Int
      /\ \A k \in 1..m : f[k] = f[k - 1] + order[last[k]][what]
  BY DEF Sums
<1>3. PICK w \in Nat : w = order[o][what]
  BY WeighsNumber
<1>4. \A k \in 1..n : order[stops[k]][what] \in Nat
  BY WeighsNumber
<1>5. f[m] = f[n] + w /\ \A k \in 1..n : f[k] = f[k - 1] + order[stops[k]][what]
  <2>1. last[m] = o /\ \A k \in 1..n : k \in 1..m /\ last[k] = stops[k]
    BY DEF Inserted
  <2>2. m - 1 = n /\ m \in 1..m
    OBVIOUS
  <2>3. QED  BY <1>2, <1>3, <2>1, <2>2
<1>6. at \in Nat /\ n \in 0..m
  OBVIOUS
<1> DEFINE h == [k \in 0..m |-> IF k <= at THEN f[k] ELSE f[k - 1] + w]
<1>7. h \in [0..m -> Int]
  <2>1. ASSUME NEW k \in 0..m PROVE (IF k <= at THEN f[k] ELSE f[k - 1] + w) \in Int
    <3>1. ~(k <= at) => k - 1 \in 0..m
      BY <1>6
    <3>2. QED  BY <1>2, <3>1
  <2>2. QED  BY <2>1
<1>8. h[0] = 0 /\ h[m] = f[m]
  <2>1. 0 <= at /\ ~(m <= at) /\ m - 1 = n /\ 0 \in 0..m /\ m \in 0..m
    BY <1>6
  <2>2. QED  BY <1>2, <1>5, <2>1
<1>9. ASSUME NEW k \in 1..m PROVE h[k] = h[k - 1] + order[longer[k]][what]
  <2>1. /\ k \in Nat /\ k - 1 \in 0..m /\ k \in 0..m
        /\ h[k] = IF k <= at THEN f[k] ELSE f[k - 1] + w
        /\ h[k - 1] = IF k - 1 <= at THEN f[k - 1] ELSE f[k - 1 - 1] + w
        /\ longer[k] = IF k <= at THEN stops[k] ELSE IF k = at + 1 THEN o ELSE stops[k - 1]
    BY DEF Inserted
  <2> HIDE DEF h
  <2>2. CASE k <= at
    <3>1. k \in 1..n /\ k - 1 <= at
      BY <1>6, <2>1, <2>2
    <3>2. QED  BY <1>5, <2>1, <2>2, <3>1
  <2>3. CASE k = at + 1
    <3>1. ~(k <= at) /\ k - 1 <= at
      BY <1>6, <2>1, <2>3
    <3>2. QED  BY <1>3, <2>1, <2>3, <3>1
  <2>4. CASE ~(k <= at) /\ k # at + 1
    <3>1. PICK p \in 1..n : p = k - 1 /\ p - 1 \in 0..m /\ ~(p <= at)
      BY <1>6, <2>1, <2>4
    <3>2. longer[k] = stops[p] /\ h[k - 1] = f[p - 1] + w /\ h[k] = f[p] + w
      BY <2>1, <2>4, <3>1
    <3>3. PICK v \in Nat : v = order[stops[p]][what] /\ f[p] = f[p - 1] + v
      BY <1>4, <1>5
    <3>4. f[p - 1] \in Int
      BY <1>2, <3>1
    <3>5. f[p] + w = f[p - 1] + w + v
      BY <3>3, <3>4
    <3>6. QED  BY <3>2, <3>3, <3>5
  <2>5. QED  BY <2>2, <2>3, <2>4
<1> HIDE DEF h
<1>10. h \in Sums(longer, m, what)
  BY <1>7, <1>8, <1>9 DEF Sums
<1>11. Solvers!LoadOf(last, what) = f[m] /\ Solvers!LoadOf(longer, what) = h[m]
  BY <1>10, LoadIsLastSum
<1>12. QED  BY <1>8, <1>11

\* Of the sequences that the planner makes.
Rearranged(stops, new, n) ==
    /\ new \in Seq(Packages) /\ Len(new) = n
    /\ \A k \in 1..n : \E m \in 1..n : new[k] = stops[m]
    /\ \A what \in {"kg", "m3"} : Solvers!LoadOf(new, what) = Solvers!LoadOf(stops, what)
IsReversed(stops, turned, i, j) == turned = Solvers!Reversed(stops, i, j)
IsSwapped(stops, fixed, i, j) == fixed = [stops EXCEPT ![i] = stops[j], ![j] = stops[i]]

LEMMA ReversedLoad ==
    ASSUME Weighed, NEW stops \in Seq(Packages), NEW n \in Nat, n = Len(stops),
           NEW i \in 1..n, NEW j \in 1..n, i < j,
           NEW turned, IsReversed(stops, turned, i, j)
    PROVE  Rearranged(stops, turned, n)
<1>1. \A k \in 1..n : stops[k] \in Packages
  OBVIOUS
<1>2. turned = [k \in 1..n |-> IF k \in i..j THEN stops[i + j - k] ELSE stops[k]]
  BY DEF IsReversed, Solvers!Reversed
<1>3. \A k \in i..j : i + j - k \in 1..n
  OBVIOUS
<1>4. turned \in Seq(Packages) /\ Len(turned) = n
  <2>1. turned \in [1..n -> Packages]
    BY <1>1, <1>2, <1>3
  <2>2. QED  BY <2>1
<1>5. Turned(stops, turned, n, i, j)
  BY <1>2 DEF Turned
<1>6. \A k \in 1..n : \E m \in 1..n : turned[k] = stops[m]
  BY <1>3, <1>5 DEF Turned
<1>7. \A what \in {"kg", "m3"} : Solvers!LoadOf(turned, what) = Solvers!LoadOf(stops, what)
  BY <1>4, <1>5, TurnedSums
<1>8. QED  BY <1>4, <1>6, <1>7 DEF Rearranged

LEMMA SwappedLoad ==
    ASSUME Weighed, NEW stops \in Seq(Packages), NEW n \in Nat, n = Len(stops),
           NEW i \in 1..n, NEW j \in 1..n, i < j,
           NEW fixed, IsSwapped(stops, fixed, i, j)
    PROVE  Rearranged(stops, fixed, n)
<1>1. \A k \in 1..n : stops[k] \in Packages
  OBVIOUS
<1>2. fixed \in Seq(Packages) /\ Len(fixed) = n
  BY <1>1 DEF IsSwapped
<1>3. Swapped(stops, fixed, n, i, j)
  BY DEF Swapped, IsSwapped
<1>4. \A k \in 1..n : \E m \in 1..n : fixed[k] = stops[m]
  BY <1>3 DEF Swapped
<1>5. \A what \in {"kg", "m3"} : Solvers!LoadOf(fixed, what) = Solvers!LoadOf(stops, what)
  BY <1>2, <1>3, SwappedSums
<1>6. QED  BY <1>2, <1>4, <1>5 DEF Rearranged

\* An order weighs the same wherever it is put in.
WithOne(stops, longer, n, o) ==
    /\ longer \in Seq(Packages) /\ Len(longer) = n + 1
    /\ \A k \in 1..(n + 1) : longer[k] = o \/ \E m \in 1..n : longer[k] = stops[m]
    /\ \A what \in {"kg", "m3"} :
         Solvers!LoadOf(longer, what) = Solvers!LoadOf(Append(stops, o), what)
IsWith(stops, longer, o, at) == longer = Solvers!With(stops, o, at)

LEMMA InsertedLoad ==
    ASSUME Weighed, NEW stops \in Seq(Packages), NEW n \in Nat, n = Len(stops),
           NEW o \in Packages, NEW at \in 0..n,
           NEW longer, IsWith(stops, longer, o, at)
    PROVE  WithOne(stops, longer, n, o)
<1>1. at \in Nat /\ at + 1 \in Int /\ \A k \in 1..n : stops[k] \in Packages
  OBVIOUS
<1>2. PICK before, after : before = SubSeq(stops, 1, at) /\ after = SubSeq(stops, at + 1, n)
  OBVIOUS
<1>3. longer = (before \o <<o>>) \o after
  BY <1>2 DEF IsWith, Solvers!With
<1>4. /\ before \in Seq(Packages) /\ Len(before) = at
      /\ \A k \in 1..at : before[k] = stops[k]
  <2>1. \A k \in 1..at : stops[k] \in Packages
    BY <1>1
  <2>2. /\ before \in Seq(Packages) /\ Len(before) = IF 1 <= at THEN at - 1 + 1 ELSE 0
        /\ \A k \in 1..(at - 1 + 1) : before[k] = stops[1 + k - 1]
    BY <1>1, <1>2, <2>1, SubSeqProperties
  <2>3. QED  BY <1>1, <2>2
<1>5. /\ after \in Seq(Packages) /\ Len(after) = n - at
      /\ \A k \in 1..(n - at) : after[k] = stops[at + k]
  <2>1. \A k \in (at + 1)..n : stops[k] \in Packages
    BY <1>1
  <2>2. /\ after \in Seq(Packages)
        /\ Len(after) = IF at + 1 <= n THEN n - (at + 1) + 1 ELSE 0
        /\ \A k \in 1..(n - (at + 1) + 1) : after[k] = stops[(at + 1) + k - 1]
    BY <1>1, <1>2, <2>1, SubSeqProperties
  <2>3. \A k \in 1..(n - at) : k \in 1..(n - (at + 1) + 1) /\ (at + 1) + k - 1 = at + k
    BY <1>1
  <2>4. QED  BY <1>1, <2>2, <2>3
<1>6. PICK middle : middle = before \o <<o>>
  OBVIOUS
<1>7. /\ middle \in Seq(Packages) /\ Len(middle) = at + 1
      /\ \A k \in 1..(at + 1) : middle[k] = IF k <= at THEN before[k] ELSE <<o>>[k - at]
  <2>1. <<o>> \in Seq(Packages) /\ Len(<<o>>) = 1
    OBVIOUS
  <2>2. QED  BY <1>4, <1>6, <2>1, ConcatProperties
<1>8. \A k \in 1..(at + 1) : middle[k] = IF k <= at THEN stops[k] ELSE o
  <2>1. \A k \in 1..(at + 1) : ~(k <= at) => k - at = 1
    BY <1>1
  <2>2. \A k \in 1..(at + 1) : k <= at => k \in 1..at
    BY <1>1
  <2>3. QED  BY <1>4, <1>7, <2>1, <2>2
<1>9. /\ longer \in Seq(Packages) /\ Len(longer) = n + 1
      /\ \A k \in 1..(n + 1) : longer[k] = IF k <= at + 1 THEN middle[k] ELSE after[k - (at + 1)]
  <2>1. longer = middle \o after
    BY <1>3, <1>6
  <2>2. (at + 1) + (n - at) = n + 1
    BY <1>1
  <2>3. /\ longer \in Seq(Packages) /\ Len(longer) = Len(middle) + Len(after)
        /\ \A k \in 1..(Len(middle) + Len(after)) :
             longer[k] = IF k <= Len(middle) THEN middle[k] ELSE after[k - Len(middle)]
    <3>1. middle \in Seq(Packages) /\ after \in Seq(Packages)
      BY <1>5, <1>7
    <3>2. QED  BY <2>1, <3>1, ConcatProperties
  <2>4. Len(middle) = at + 1 /\ Len(middle) + Len(after) = n + 1
    BY <1>5, <1>7, <2>2
  <2>5. QED  BY <2>3, <2>4
<1>10. Inserted(stops, longer, n, o, at)
  <2> SUFFICES ASSUME NEW k \in 1..(n + 1)
      PROVE longer[k] = IF k <= at THEN stops[k] ELSE IF k = at + 1 THEN o ELSE stops[k - 1]
    BY DEF Inserted
  <2>1. CASE k <= at + 1
    <3>1. k \in 1..(at + 1) /\ (~(k <= at) => k = at + 1)
      BY <1>1, <2>1
    <3>2. QED  BY <1>8, <1>9, <2>1, <3>1
  <2>2. CASE ~(k <= at + 1)
    <3>1. k - (at + 1) \in 1..(n - at) /\ at + (k - (at + 1)) = k - 1 /\ ~(k <= at) /\ k # at + 1
      BY <1>1, <2>2
    <3>2. QED  BY <1>5, <1>9, <2>2, <3>1
  <2>3. QED  BY <2>1, <2>2
<1>11. \A k \in 1..(n + 1) : longer[k] = o \/ \E m \in 1..n : longer[k] = stops[m]
  <2>1. ASSUME NEW k \in 1..(n + 1)
        PROVE  (k <= at => k \in 1..n) /\ (~(k <= at) /\ k # at + 1 => k - 1 \in 1..n)
    BY <1>1
  <2>2. QED  BY <1>10, <2>1 DEF Inserted
<1>12. PICK last : last = Append(stops, o)
  OBVIOUS
<1>13. /\ last \in Seq(Packages) /\ Len(last) = n + 1 /\ Inserted(stops, last, n, o, n)
  <2>1. /\ last \in Seq(Packages) /\ Len(last) = n + 1 /\ last[n + 1] = o
        /\ \A k \in 1..n : last[k] = stops[k]
    BY <1>12, AppendProperties
  <2>2. \A k \in 1..(n + 1) : (k <= n <=> k \in 1..n) /\ (~(k <= n) => k = n + 1)
    OBVIOUS
  <2>3. QED  BY <2>1, <2>2 DEF Inserted
<1>14. PICK m \in Nat : m = n + 1
  OBVIOUS
<1>15. \A what \in {"kg", "m3"} : Solvers!LoadOf(longer, what) = Solvers!LoadOf(last, what)
  BY <1>9, <1>10, <1>13, <1>14, InsertedSums
<1>16. QED  BY <1>9, <1>11, <1>12, <1>15 DEF WithOne

-----------------------------------------------------------------------------
\* A drive is somewhere, so far and so late; and so is the next stop of it.
Where == [at : Points, km : Nat, clock : Nat, ok : BOOLEAN]

LEMMA DriveWhere ==
    ASSUME Solvers!OptimizerAssumption, NEW s \in Where, NEW point \in Points
    PROVE  Solvers!Drive(s, point) \in Where
<1>1. /\ Km[<<s.at, point>>] \in Nat /\ Minutes[<<s.at, point>>] \in Nat
      /\ s.km \in Nat /\ s.clock \in Nat
  BY DEF Where, Solvers!OptimizerAssumption
<1>2. s.km + Km[<<s.at, point>>] \in Nat /\ s.clock + Minutes[<<s.at, point>>] \in Nat
  BY <1>1
<1>3. QED  BY <1>2 DEF Where, Solvers!Drive

LEMMA VisitWhere ==
    ASSUME Solvers!OptimizerAssumption, NEW s \in Where, NEW point \in Points,
           NEW window \in Nat \X Nat
    PROVE  Solvers!Visit(s, point, window) \in Where
<1>1. PICK there \in Where : there = Solvers!Drive(s, point)
  BY DriveWhere
<1>2. there.clock \in Nat /\ window[1] \in Nat /\ window[2] \in Nat /\ ServiceTime \in Nat
  BY DEF Where, Solvers!OptimizerAssumption
<1>3. Solvers!Later(there.clock, window[1]) + ServiceTime \in Nat
  BY <1>2 DEF Solvers!Later
<1>4. there.ok \in BOOLEAN /\ (there.ok /\ there.clock <= window[2]) \in BOOLEAN
  BY DEF Where
<1>5. QED  BY <1>1, <1>3, <1>4 DEF Where, Solvers!Visit

LEMMA ServeWhere ==
    ASSUME Weighed, NEW s \in Where, NEW o \in Packages
    PROVE  Solvers!Serve(s, o) \in Where
<1>1. Solvers!OptimizerAssumption
  BY DEF Weighed
<1>2. /\ order[o].at \in Points /\ order[o].from \in Points \cup {NONE}
      /\ order[o].window \in Nat \X Nat
  BY DEF Weighed, Solvers!OptimizerAssumption
<1>3. Solvers!AnyTime \in Nat \X Nat
  BY <1>1 DEF Solvers!AnyTime, Solvers!OptimizerAssumption
<1>4. PICK collected \in Where :
        collected = IF order[o].from = NONE THEN s
                    ELSE Solvers!Visit(s, order[o].from, Solvers!AnyTime)
  BY <1>1, <1>2, <1>3, VisitWhere
<1>5. Solvers!Visit(collected, order[o].at, order[o].window) \in Where
  BY <1>1, <1>2, VisitWhere
<1>6. QED  BY <1>4, <1>5 DEF Solvers!Serve

\* The drive of a route: the states of simulateRoute's loop, and what it answers.
Start == [at |-> Depot, km |-> 0, clock |-> Departure, ok |-> TRUE]
Runs(stops, n) ==
    {f \in [0..n -> Where] : /\ f[0] = Start
                             /\ \A i \in 1..n : f[i] = Solvers!Serve(f[i - 1], stops[i])}
Ends(v, s) ==
    LET back == Solvers!Drive(s, Depot) IN
      /\ back.ok /\ back.km <= vehicle[v].range
      /\ back.clock - Departure <= MaxRouteDuration

LEMMA RunsExist ==
    ASSUME Weighed, NEW stops \in Seq(Packages), NEW n \in Nat, n = Len(stops)
    PROVE  Runs(stops, n) # {}
<1>1. \A i \in 1..n : stops[i] \in Packages
  OBVIOUS
<1>2. Start \in Where
  BY DEF Weighed, Solvers!OptimizerAssumption, Where, Start
<1> DEFINE T == [i \in 1..n |-> [s \in Where |-> Solvers!Serve(s, stops[i])]]
<1>3. T \in [1..n -> [Where -> Where]]
  BY <1>1, ServeWhere
<1>4. \A i \in 1..n, s \in Where : T[i][s] = Solvers!Serve(s, stops[i])
  OBVIOUS
<1> HIDE DEF T
<1>5. PICK f \in [0..n -> Where] : f[0] = Start /\ \A i \in 1..n : f[i] = T[i][f[i - 1]]
  <2>1. CanRun(Where, n, Start, T)
    BY <1>2, <1>3, TurnsExist
  <2>2. QED  BY <2>1 DEF CanRun
<1>6. \A i \in 1..n : f[i] = Solvers!Serve(f[i - 1], stops[i])
  <2>1. \A i \in 1..n : f[i - 1] \in Where
    OBVIOUS
  <2>2. QED  BY <1>4, <1>5, <2>1
<1>7. QED  BY <1>5, <1>6 DEF Runs

LEMMA RunIsDrive ==
    ASSUME NEW v, NEW stops, NEW n \in Nat, n = Len(stops), NEW f \in Runs(stops, n)
    PROVE  /\ Solvers!DistanceOf(v, stops) = Solvers!Drive(f[n], Depot).km
           /\ Solvers!Feasible(v, stops) <=> Ends(v, f[n])
<1> DEFINE IsRun(r) == r = [i \in 0..n |-> IF i = 0 THEN Start
                                           ELSE Solvers!Serve(r[i - 1], stops[i])]
           run == CHOOSE r : IsRun(r)
<1>1. f[0] = Start /\ \A i \in 1..n : f[i] = Solvers!Serve(f[i - 1], stops[i])
  BY DEF Runs
<1>2. IsRun(f)
  BY <1>1 DEF Runs
<1>3. IsRun(run)
  <2> HIDE DEF IsRun
  <2>1. QED  BY <1>2
<1>4. PICK g : /\ g = run /\ g[0] = Start
               /\ \A i \in 1..n : g[i] = Solvers!Serve(g[i - 1], stops[i])
  <2> HIDE DEF run
  <2>1. QED  BY <1>3
<1>5. /\ Solvers!DistanceOf(v, stops) = Solvers!Drive(run[n], Depot).km
      /\ Solvers!Feasible(v, stops) <=> Ends(v, run[n])
  BY DEF Solvers!DistanceOf, Solvers!Feasible, Solvers!simulateRoute, Ends, Start
<1> HIDE DEF run, IsRun
<1>6. Follow(f, g, n)
  BY <1>1, <1>4 DEF Follow
<1>7. Agree(f, g, n)
  BY <1>6, TurnsAgree
<1>8. f[n] = run[n]
  BY <1>4, <1>7 DEF Agree
<1>9. QED  BY <1>5, <1>8

LEMMA DistanceIsNumber ==
    ASSUME Weighed, NEW v, NEW stops \in Seq(Packages)
    PROVE  Solvers!DistanceOf(v, stops) \in Nat
<1>1. PICK n \in Nat : n = Len(stops)
  OBVIOUS
<1>2. PICK f \in Runs(stops, n) : TRUE
  BY <1>1, RunsExist
<1>3. f[n] \in Where
  BY DEF Runs
<1>4. Solvers!Drive(f[n], Depot) \in Where
  BY <1>3, DriveWhere DEF Weighed, Solvers!OptimizerAssumption
<1>5. Solvers!DistanceOf(v, stops) = Solvers!Drive(f[n], Depot).km
  BY <1>1, RunIsDrive
<1>6. QED  BY <1>4, <1>5 DEF Where

-----------------------------------------------------------------------------
SolverTypes ==
    /\ phase \in {"schedule", "assign", "pack", "improve", "planned"}
    /\ phase # "schedule" => /\ order \in [Packages -> OrderKinds]
                             /\ vehicle \in [Vehicles -> VehicleKinds]
    /\ route \in [Vehicles -> Seq(Packages)]
    /\ phase = "schedule" => \A v \in Vehicles : route[v] = <<>>
    /\ edits \in Nat /\ been \in SUBSET [Vehicles -> Seq(Packages)]

\* While 2-opt goes on, no route has been shorter than it is.
ShortestSoFar ==
    phase = "improve" => \A p \in been, v \in Vehicles :
        Solvers!DistanceOf(v, route[v]) <= Solvers!DistanceOf(v, p[v])

SolverInv == SolverTypes /\ RoutesAreFeasible /\ ShortestSoFar

\* What a vehicle drives, in a phase and after some edits.
Fits(v, stops, ph, n) ==
    /\ Solvers!WeightOk(v, stops)
    /\ n = 0 => Solvers!VolumeOk(v, stops)
    /\ \A k \in 1..Len(stops) : Solvers!reeferOk(v, stops[k])
    /\ ph # "pack" => v \in Solvers!Allowed /\ Solvers!Feasible(v, stops)

LEMMA FeasibleIsFits ==
    RoutesAreFeasible <=> \A v \in Vehicles : route[v] # <<>> => Fits(v, route[v], phase, edits)
  BY DEF RoutesAreFeasible, Solvers!RoutesAreFeasible, Fits

\* The request stays, and so what it asks of a route.
LEMMA SameRequest ==
    ASSUME order' = order, vehicle' = vehicle
    PROVE  /\ RoutesAreFeasible' <=> \A v \in Vehicles :
                route'[v] # <<>> => Fits(v, route'[v], phase', edits')
           /\ ShortestSoFar' <=> (phase' = "improve" => \A p \in been', v \in Vehicles :
                Solvers!DistanceOf(v, route'[v]) <= Solvers!DistanceOf(v, p[v]))
<1>1. RoutesAreFeasible' <=> \A v \in Vehicles :
        route'[v] # <<>> => Fits(v, route'[v], phase', edits')
  BY DEF RoutesAreFeasible, Solvers!RoutesAreFeasible, Fits, Solvers!WeightOk, Solvers!VolumeOk,
         Solvers!reeferOk, Solvers!Allowed, Solvers!Feasible, Solvers!simulateRoute,
         Solvers!Serve, Solvers!LoadOf
<1>2. ShortestSoFar' <=> (phase' = "improve" => \A p \in been', v \in Vehicles :
        Solvers!DistanceOf(v, route'[v]) <= Solvers!DistanceOf(v, p[v]))
  BY DEF ShortestSoFar, Solvers!DistanceOf, Solvers!simulateRoute, Solvers!Serve
<1>3. QED  BY <1>1, <1>2

LEMMA InitSolverInv ==
    ASSUME Solvers!AdviceInit \/ Solvers!NoRequest
    PROVE  SolverInv
<1>1. /\ route = [v \in Vehicles |-> <<>>] /\ edits = 0 /\ been = {}
      /\ phase \in {"schedule", "assign", "pack"}
      /\ phase # "schedule" => /\ order \in [Packages -> OrderKinds]
                               /\ vehicle \in [Vehicles -> VehicleKinds]
  BY DEF Solvers!AdviceInit, Solvers!NoRequest, Solvers!Init
<1>2. SolverTypes
  BY <1>1 DEF SolverTypes
<1>3. QED  BY <1>1, <1>2, FeasibleIsFits DEF SolverInv, ShortestSoFar

\* One route changes, to one that fits.
LEMMA OneRouteFits ==
    ASSUME SolverInv, UNCHANGED Solvers!request, phase # "schedule",
           NEW v \in Vehicles, NEW stops \in Seq(Packages), route' = [route EXCEPT ![v] = stops],
           phase' = phase, edits' \in Nat, edits' = edits \/ edits' # 0,
           Fits(v, stops, phase, edits')
    PROVE  /\ route' \in [Vehicles -> Seq(Packages)] /\ RoutesAreFeasible'
           /\ order' = order /\ vehicle' = vehicle
<1>1. order' = order /\ vehicle' = vehicle
  BY DEF Solvers!request
<1>2. route' \in [Vehicles -> Seq(Packages)]
  BY DEF SolverInv, SolverTypes
<1>3. ASSUME NEW u \in Vehicles, route'[u] # <<>> PROVE Fits(u, route'[u], phase', edits')
  <2>1. CASE u = v
    <3>1. route'[u] = stops
      BY <2>1 DEF SolverInv, SolverTypes
    <3>2. QED  BY <2>1, <3>1
  <2>2. CASE u # v
    <3>1. route'[u] = route[u]
      BY <2>2 DEF SolverInv, SolverTypes
    <3>2. Fits(u, route[u], phase, edits)
      BY <1>3, <3>1, FeasibleIsFits DEF SolverInv
    <3>3. Fits(u, route[u], phase, edits')
      BY <3>2 DEF Fits
    <3>4. QED  BY <3>1, <3>3
  <2>3. QED  BY <2>1, <2>2
<1>4. RoutesAreFeasible'
  BY <1>1, <1>3, SameRequest
<1>5. QED  BY <1>1, <1>2, <1>4

LEMMA IsWeighed ==
    ASSUME SolverInv, phase # "schedule"
    PROVE  Weighed
  BY FleetAssumption DEF SolverInv, SolverTypes, Weighed

\* An order at the end of a route.
LEMMA AppendSolverInv ==
    ASSUME SolverInv, UNCHANGED Solvers!request, UNCHANGED <<phase, been, edits>>,
           phase \in {"assign", "pack"}, NEW v \in Vehicles, NEW o \in Packages,
           Solvers!CanCarry(v, o),
           phase = "assign" => v \in Solvers!Allowed /\ Solvers!CanTake(v, o),
           route' = [route EXCEPT ![v] = Append(route[v], o)]
    PROVE  SolverInv'
<1>1. PICK stops \in Seq(Packages) : stops = route[v]
  BY DEF SolverInv, SolverTypes
<1>2. PICK longer : longer = Append(stops, o)
  OBVIOUS
<1>3. /\ longer \in Seq(Packages) /\ Len(longer) = Len(stops) + 1 /\ longer[Len(stops) + 1] = o
      /\ \A k \in 1..Len(stops) : longer[k] = stops[k]
  BY <1>2, AppendProperties
<1>4. \A k \in 1..Len(stops) : Solvers!reeferOk(v, stops[k])
  <2>1. CASE stops = <<>>
    BY <2>1
  <2>2. CASE stops # <<>>
    BY <1>1, <2>2 DEF SolverInv, RoutesAreFeasible, Solvers!RoutesAreFeasible
  <2>3. QED  BY <2>1, <2>2
<1>5. Solvers!reeferOk(v, o) /\ Solvers!WeightOk(v, longer) /\ Solvers!VolumeOk(v, longer)
  BY <1>1, <1>2 DEF Solvers!CanCarry
<1>6. \A k \in 1..Len(longer) : Solvers!reeferOk(v, longer[k])
  <2>1. \A k \in 1..Len(longer) : k \in 1..Len(stops) \/ k = Len(stops) + 1
    BY <1>3
  <2>2. QED  BY <1>3, <1>4, <1>5, <2>1
<1>7. Fits(v, longer, phase, edits')
  BY <1>1, <1>2, <1>5, <1>6 DEF Fits, Solvers!CanTake
<1>8. route' = [route EXCEPT ![v] = longer]
  BY <1>1, <1>2
<1>9. phase' = phase /\ edits' = edits /\ been' = been /\ edits \in Nat
  BY DEF SolverInv, SolverTypes
<1>10. /\ route' \in [Vehicles -> Seq(Packages)] /\ RoutesAreFeasible'
       /\ order' = order /\ vehicle' = vehicle
  BY <1>3, <1>7, <1>8, <1>9, OneRouteFits
<1>11. SolverTypes' /\ ShortestSoFar'
  BY <1>9, <1>10 DEF SolverInv, SolverTypes, ShortestSoFar
<1>12. QED  BY <1>10, <1>11 DEF SolverInv

\* The routes stay; another phase of planning, or none.
LEMMA PhaseSolverInv ==
    ASSUME SolverInv, UNCHANGED Solvers!request, UNCHANGED <<route, edits>>,
           \/ phase' = phase /\ been' = been
           \/ phase = "assign" /\ phase' = "improve" /\ been' = {route}
           \/ phase = "improve" /\ phase' = "planned" /\ been' = {}
    PROVE  SolverInv'
<1>1. order' = order /\ vehicle' = vehicle /\ route' = route /\ edits' = edits
  BY DEF Solvers!request
<1>2. SolverTypes'
  BY <1>1 DEF SolverInv, SolverTypes
<1>3. RoutesAreFeasible'
  <2>1. ASSUME NEW v \in Vehicles, route[v] # <<>> PROVE Fits(v, route[v], phase', edits)
    <3>1. Fits(v, route[v], phase, edits) /\ (phase' = "pack" <=> phase = "pack")
      BY <2>1, FeasibleIsFits DEF SolverInv
    <3>2. QED  BY <3>1 DEF Fits
  <2>2. QED  BY <1>1, <2>1, SameRequest
<1>4. ShortestSoFar'
  <2> SUFFICES ASSUME phase' = "improve", NEW p \in been', NEW v \in Vehicles
               PROVE  Solvers!DistanceOf(v, route[v]) <= Solvers!DistanceOf(v, p[v])
    BY <1>1, SameRequest
  <2>1. CASE phase' = phase /\ been' = been
    BY <2>1 DEF SolverInv, ShortestSoFar
  <2>2. CASE phase = "assign" /\ been' = {route}
    <3>1. p = route /\ Weighed /\ route[v] \in Seq(Packages)
      BY <2>2, IsWeighed DEF SolverInv, SolverTypes
    <3>2. Solvers!DistanceOf(v, route[v]) \in Nat
      BY <3>1, DistanceIsNumber
    <3>3. QED  BY <3>1, <3>2
  <2>3. QED  BY <2>1, <2>2
<1>5. QED  BY <1>2, <1>3, <1>4 DEF SolverInv

\* A shorter route than any there was for the vehicle: none of them comes back.
LEMMA TwoOptSolverInv ==
    ASSUME SolverInv, NEW v \in Vehicles, Solvers!twoOptImprove(v)
    PROVE  SolverInv' /\ route' \notin been
<1>1. PICK n \in Nat, stops \in Seq(Packages) : stops = route[v] /\ n = Len(stops)
  BY DEF SolverInv, SolverTypes
<1>2. /\ phase = "improve" /\ been' = been \cup {route'}
      /\ UNCHANGED Solvers!request /\ UNCHANGED <<phase, edits>>
  BY DEF Solvers!twoOptImprove
<1>3. PICK i \in 1..n, j \in 1..n :
        /\ i < j
        /\ Solvers!Improves(v, Solvers!Reversed(stops, i, j))
        /\ route' = [route EXCEPT ![v] = Solvers!Reversed(stops, i, j)]
  BY <1>1 DEF Solvers!twoOptImprove
<1>4. PICK turned : turned = Solvers!Reversed(stops, i, j)
  OBVIOUS
<1>5. Weighed
  BY <1>2, IsWeighed
<1>6. /\ turned \in Seq(Packages) /\ Len(turned) = n
      /\ \A k \in 1..n : \E m \in 1..n : turned[k] = stops[m]
      /\ \A what \in {"kg", "m3"} : Solvers!LoadOf(turned, what) = Solvers!LoadOf(stops, what)
  <2>1. IsReversed(stops, turned, i, j)
    BY <1>4 DEF IsReversed
  <2>2. n = Len(stops) /\ i \in 1..n /\ j \in 1..n /\ i < j
    BY <1>1, <1>3
  <2>3. Rearranged(stops, turned, n)
    BY <1>5, <2>1, <2>2, ReversedLoad
  <2>4. QED  BY <2>3 DEF Rearranged
<1>7. /\ Solvers!Feasible(v, turned) /\ route' = [route EXCEPT ![v] = turned]
      /\ Solvers!DistanceOf(v, turned) < Solvers!DistanceOf(v, stops)
  BY <1>1, <1>3, <1>4 DEF Solvers!Improves
<1>8. Fits(v, stops, phase, edits)
  <2>1. stops # <<>>
    BY <1>1, <1>3
  <2>2. QED  BY <1>1, <2>1, FeasibleIsFits DEF SolverInv
<1>9. Fits(v, turned, phase, edits)
  BY <1>1, <1>6, <1>7, <1>8 DEF Fits, Solvers!WeightOk, Solvers!VolumeOk
<1>10. /\ route' \in [Vehicles -> Seq(Packages)] /\ RoutesAreFeasible'
       /\ order' = order /\ vehicle' = vehicle
  <2>1. phase # "schedule" /\ phase' = phase /\ edits' = edits /\ edits' \in Nat
    BY <1>2 DEF SolverInv, SolverTypes
  <2>2. QED  BY <1>2, <1>6, <1>7, <1>9, <2>1, OneRouteFits
<1>11. SolverTypes'
  BY <1>2, <1>10 DEF SolverInv, SolverTypes
<1>12. \A p \in been : p \in [Vehicles -> Seq(Packages)]
  BY DEF SolverInv, SolverTypes
<1>13. \A u \in Vehicles, s \in Seq(Packages) : Solvers!DistanceOf(u, s) \in Nat
  BY <1>5, DistanceIsNumber
<1>14. \A p \in been, u \in Vehicles :
         Solvers!DistanceOf(u, route[u]) <= Solvers!DistanceOf(u, p[u])
  BY <1>2 DEF SolverInv, ShortestSoFar
<1>15. route'[v] = turned /\ \A u \in Vehicles \ {v} : route'[u] = route[u]
  BY <1>7 DEF SolverInv, SolverTypes
<1>16. ASSUME NEW p \in been
       PROVE  Solvers!DistanceOf(v, turned) < Solvers!DistanceOf(v, p[v])
  <2>1. PICK a, b, c \in Nat : /\ a = Solvers!DistanceOf(v, turned)
                               /\ b = Solvers!DistanceOf(v, stops)
                               /\ c = Solvers!DistanceOf(v, p[v])
    BY <1>6, <1>12, <1>13
  <2>2. a < b /\ b <= c
    BY <1>1, <1>7, <1>14, <2>1
  <2>3. a < c
    BY <2>2
  <2>4. QED  BY <2>1, <2>3
<1>17. ShortestSoFar'
  <2> SUFFICES ASSUME NEW p \in been', NEW u \in Vehicles
               PROVE  Solvers!DistanceOf(u, route'[u]) <= Solvers!DistanceOf(u, p[u])
    BY <1>10, SameRequest
  <2>1. CASE p = route'
    BY <1>10, <1>13, <2>1
  <2>2. CASE p \in been /\ u = v
    BY <1>6, <1>12, <1>13, <1>15, <1>16, <2>2
  <2>3. CASE p \in been /\ u # v
    BY <1>14, <1>15, <2>3
  <2>4. QED  BY <1>2, <2>1, <2>2, <2>3
<1>18. route' \notin been
  <2> SUFFICES ASSUME route' \in been PROVE FALSE
    OBVIOUS
  <2>1. Solvers!DistanceOf(v, turned) < Solvers!DistanceOf(v, turned)
    BY <1>15, <1>16
  <2>2. Solvers!DistanceOf(v, turned) \in Nat
    BY <1>6, <1>13
  <2>3. QED  BY <2>1, <2>2
<1>19. QED  BY <1>10, <1>11, <1>17, <1>18 DEF SolverInv

LEMMA EditSolverInv ==
    ASSUME SolverInv, NEW v \in Vehicles, NEW stops \in Seq(Packages), Solvers!Edit(v, stops),
           Solvers!WeightOk(v, stops), \A k \in 1..Len(stops) : Solvers!reeferOk(v, stops[k]),
           v \in Solvers!Allowed, Solvers!Feasible(v, stops)
    PROVE  SolverInv'
<1>1. /\ phase = "planned" /\ route' = [route EXCEPT ![v] = stops] /\ edits' = edits + 1
      /\ UNCHANGED Solvers!request /\ phase' = phase /\ been' = been
  BY DEF Solvers!Edit
<1>2. edits' \in Nat /\ edits' # 0
  BY <1>1 DEF SolverInv, SolverTypes
<1>3. Fits(v, stops, phase, edits')
  BY <1>2 DEF Fits
<1>4. /\ route' \in [Vehicles -> Seq(Packages)] /\ RoutesAreFeasible'
      /\ order' = order /\ vehicle' = vehicle
  BY <1>1, <1>2, <1>3, OneRouteFits
<1>5. SolverTypes' /\ ShortestSoFar'
  BY <1>1, <1>2, <1>4 DEF SolverInv, SolverTypes, ShortestSoFar
<1>6. QED  BY <1>4, <1>5 DEF SolverInv

LEMMA InsertSolverInv ==
    ASSUME SolverInv, NEW v \in Vehicles, NEW o \in Packages, Solvers!insertOrderIntoRoute(v, o)
    PROVE  SolverInv'
<1>1. PICK n \in Nat, stops \in Seq(Packages) : stops = route[v] /\ n = Len(stops)
  BY DEF SolverInv, SolverTypes
<1>2. PICK at \in 0..n : /\ Solvers!Feasible(v, Solvers!With(stops, o, at))
                         /\ Solvers!Edit(v, Solvers!With(stops, o, at))
  BY <1>1 DEF Solvers!insertOrderIntoRoute
<1>3. stops # <<>> /\ Solvers!reeferOk(v, o) /\ Solvers!WeightOk(v, Append(stops, o))
  BY <1>1 DEF Solvers!insertOrderIntoRoute
<1>4. PICK longer : longer = Solvers!With(stops, o, at)
  OBVIOUS
<1>5. phase = "planned"
  BY <1>2 DEF Solvers!Edit
<1>6. Weighed
  BY <1>5, IsWeighed
<1>7. /\ longer \in Seq(Packages) /\ Len(longer) = n + 1
      /\ \A k \in 1..(n + 1) : longer[k] = o \/ \E m \in 1..n : longer[k] = stops[m]
      /\ \A what \in {"kg", "m3"} :
           Solvers!LoadOf(longer, what) = Solvers!LoadOf(Append(stops, o), what)
  <2>1. IsWith(stops, longer, o, at)
    BY <1>4 DEF IsWith
  <2>2. n = Len(stops) /\ at \in 0..n
    BY <1>1, <1>2
  <2>3. WithOne(stops, longer, n, o)
    BY <1>6, <2>1, <2>2, InsertedLoad
  <2>4. QED  BY <2>3 DEF WithOne
<1>8. v \in Solvers!Allowed /\ \A k \in 1..n : Solvers!reeferOk(v, stops[k])
  BY <1>1, <1>3, <1>5 DEF SolverInv, RoutesAreFeasible, Solvers!RoutesAreFeasible
<1>9. Solvers!WeightOk(v, longer) /\ \A k \in 1..Len(longer) : Solvers!reeferOk(v, longer[k])
  BY <1>3, <1>7, <1>8 DEF Solvers!WeightOk
<1>10. QED  BY <1>2, <1>4, <1>7, <1>8, <1>9, EditSolverInv

LEMMA SequenceSolverInv ==
    ASSUME SolverInv, NEW v \in Vehicles, NEW i, NEW j, Solvers!evaluateSequence(v, i, j)
    PROVE  SolverInv'
<1>1. PICK n \in Nat, stops \in Seq(Packages) : stops = route[v] /\ n = Len(stops)
  BY DEF SolverInv, SolverTypes
<1>2. PICK fixed : /\ i \in 1..n /\ j \in 1..n /\ i < j
                   /\ fixed = [stops EXCEPT ![i] = stops[j], ![j] = stops[i]]
                   /\ Solvers!Feasible(v, fixed) /\ Solvers!Edit(v, fixed)
  BY <1>1 DEF Solvers!evaluateSequence
<1>3. phase = "planned"
  BY <1>2 DEF Solvers!Edit
<1>4. Weighed
  BY <1>3, IsWeighed
<1>5. /\ fixed \in Seq(Packages) /\ Len(fixed) = n
      /\ \A k \in 1..n : \E m \in 1..n : fixed[k] = stops[m]
      /\ \A what \in {"kg", "m3"} : Solvers!LoadOf(fixed, what) = Solvers!LoadOf(stops, what)
  <2>1. IsSwapped(stops, fixed, i, j)
    BY <1>2 DEF IsSwapped
  <2>2. n = Len(stops) /\ i \in 1..n /\ j \in 1..n /\ i < j
    BY <1>1, <1>2
  <2>3. Rearranged(stops, fixed, n)
    BY <1>4, <2>1, <2>2, SwappedLoad
  <2>4. QED  BY <2>3 DEF Rearranged
<1>6. stops # <<>>
  BY <1>1, <1>2
<1>7. /\ v \in Solvers!Allowed /\ Solvers!WeightOk(v, stops)
      /\ \A k \in 1..n : Solvers!reeferOk(v, stops[k])
  BY <1>1, <1>3, <1>6 DEF SolverInv, RoutesAreFeasible, Solvers!RoutesAreFeasible
<1>8. Solvers!WeightOk(v, fixed) /\ \A k \in 1..Len(fixed) : Solvers!reeferOk(v, fixed[k])
  BY <1>5, <1>7 DEF Solvers!WeightOk
<1>9. QED  BY <1>2, <1>5, <1>7, <1>8, EditSolverInv

LEMMA StepSolverInv ==
    ASSUME SolverInv, [Solvers!Next]_(Solvers!vars)
    PROVE  SolverInv'
<1>1. ASSUME NEW o \in Packages, Solvers!Assign(o) PROVE SolverInv'
  <2>1. phase = "assign" /\ UNCHANGED Solvers!request /\ UNCHANGED <<phase, been, edits>>
    BY <1>1 DEF Solvers!Assign
  <2>2. CASE UNCHANGED route
    BY <2>1, <2>2, PhaseSolverInv
  <2>3. CASE \E v \in Vehicles : /\ v \in Solvers!Allowed /\ Solvers!CanTake(v, o)
                                 /\ route' = [route EXCEPT ![v] = Append(route[v], o)]
    BY <2>1, <2>3, AppendSolverInv DEF Solvers!CanTake
  <2>4. QED  BY <1>1, <2>2, <2>3 DEF Solvers!Assign, Solvers!Best, Solvers!Allowed
<1>2. ASSUME NEW o \in Packages, Solvers!packLoad(o) PROVE SolverInv'
  <2>1. phase = "pack" /\ UNCHANGED Solvers!request /\ UNCHANGED <<phase, been, edits>>
    BY <1>2 DEF Solvers!packLoad
  <2>2. CASE UNCHANGED route
    BY <2>1, <2>2, PhaseSolverInv
  <2>3. CASE \E v \in Vehicles : /\ Solvers!CanCarry(v, o)
                                 /\ route' = [route EXCEPT ![v] = Append(route[v], o)]
    BY <2>1, <2>3, AppendSolverInv
  <2>4. QED  BY <1>2, <2>2, <2>3 DEF Solvers!packLoad
<1>3. CASE Solvers!AllConsidered \/ Solvers!Publish
  BY <1>3, PhaseSolverInv DEF Solvers!AllConsidered, Solvers!Publish
<1>4. CASE UNCHANGED Solvers!vars
  BY <1>4, PhaseSolverInv DEF Solvers!vars
<1>5. QED
  BY <1>1, <1>2, <1>3, <1>4, TwoOptSolverInv, InsertSolverInv, SequenceSolverInv
  DEF Solvers!Next

LEMMA FleetStepsSolvers == [FleetNext]_fleetVars => [Solvers!Next]_(Solvers!vars)
  BY DEF FleetNext, fleetVars, solverVars, Solvers!vars, Solvers!request

-----------------------------------------------------------------------------
\* One more order, at the end of a route.

\* What is too heavy or too big for a vehicle is so with one more order.
LEMMA AppendLoad ==
    ASSUME Weighed, NEW stops \in Seq(Packages), NEW o \in Packages, NEW what \in {"kg", "m3"}
    PROVE  /\ Solvers!LoadOf(stops, what) \in Int /\ order[o][what] \in Nat
           /\ Solvers!LoadOf(Append(stops, o), what) = Solvers!LoadOf(stops, what) + order[o][what]
<1>1. PICK n \in Nat : n = Len(stops)
  OBVIOUS
<1>2. PICK longer, m : /\ longer = Append(stops, o) /\ longer \in Seq(Packages)
                       /\ m = n + 1 /\ m \in Nat /\ m = Len(longer)
                       /\ longer[m] = o /\ \A k \in 1..n : longer[k] = stops[k]
  <2>1. /\ Append(stops, o) \in Seq(Packages) /\ Len(Append(stops, o)) = n + 1
        /\ Append(stops, o)[n + 1] = o
        /\ \A k \in 1..n : Append(stops, o)[k] = stops[k]
    BY <1>1, AppendProperties
  <2>2. n + 1 \in Nat
    OBVIOUS
  <2>3. QED  BY <2>1, <2>2
<1>3. PICK f \in Sums(longer, m, what) : TRUE
  BY <1>2, SumsExist
<1>4. /\ f \in [0..m -> Int] /\ f[0] = 0
      /\ \A k \in 1..m : f[k] = f[k - 1] + order[longer[k]][what]
  BY DEF Sums
<1> DEFINE g == [k \in 0..n |-> f[k]]
<1>5. g \in [0..n -> Int] /\ g[0] = 0 /\ g[n] = f[n] /\ f[n] \in Int
  BY <1>2, <1>4
<1>6. ASSUME NEW k \in 1..n PROVE g[k] = g[k - 1] + order[stops[k]][what]
  <2>1. k \in 1..m /\ g[k] = f[k] /\ g[k - 1] = f[k - 1]
    BY <1>2
  <2>2. longer[k] = stops[k]
    BY <1>2
  <2>3. f[k] = f[k - 1] + order[longer[k]][what]
    BY <1>4, <2>1
  <2> HIDE DEF g
  <2>4. QED  BY <2>1, <2>2, <2>3
<1> HIDE DEF g
<1>7. g \in Sums(stops, n, what)
  BY <1>5, <1>6 DEF Sums
<1>8. Solvers!LoadOf(stops, what) = g[n] /\ Solvers!LoadOf(longer, what) = f[m]
  <2>1. Solvers!LoadOf(stops, what) = g[n]
    BY <1>1, <1>7, LoadIsLastSum
  <2>2. m \in Nat /\ m = Len(longer) /\ f \in Sums(longer, m, what)
    BY <1>2, <1>3
  <2>3. Solvers!LoadOf(longer, what) = f[m]
    BY <2>2, LoadIsLastSum
  <2>4. QED  BY <2>1, <2>3
<1>9. f[m] = f[n] + order[o][what]
  <2>1. m \in 1..m /\ m - 1 = n
    BY <1>2
  <2>2. QED  BY <1>2, <1>4, <2>1
<1>10. order[o][what] \in Nat
  BY WeighsNumber
<1>11. QED  BY <1>2, <1>5, <1>8, <1>9, <1>10

Carries(v, stops, o) ==
    /\ Solvers!reeferOk(v, o)
    /\ Solvers!WeightOk(v, Append(stops, o)) /\ Solvers!VolumeOk(v, Append(stops, o))

\* A refusal, over any sequence.
Refuses(v, stops, o) ==
    \/ ~Carries(v, stops, o)
    \/ \E n \in 0..Len(stops) : ~Solvers!Feasible(v, Append(SubSeq(stops, 1, n), o))

LEMMA CarriesLess ==
    ASSUME Weighed, NEW stops \in Seq(Packages), NEW p \in Packages, NEW o \in Packages,
           NEW v, vehicle[v].kg \in Nat, vehicle[v].m3 \in Nat, Carries(v, Append(stops, p), o)
    PROVE  Carries(v, stops, o)
<1>1. PICK longer \in Seq(Packages) : longer = Append(stops, p)
  BY AppendProperties
<1>2. ASSUME NEW what \in {"kg", "m3"}
      PROVE  /\ Solvers!LoadOf(Append(stops, o), what) \in Int
             /\ Solvers!LoadOf(Append(longer, o), what) \in Int
             /\ Solvers!LoadOf(Append(stops, o), what) <= Solvers!LoadOf(Append(longer, o), what)
  <2>1. /\ Solvers!LoadOf(stops, what) \in Int /\ order[o][what] \in Nat
        /\ Solvers!LoadOf(Append(stops, o), what)
             = Solvers!LoadOf(stops, what) + order[o][what]
    BY AppendLoad
  <2>2. Solvers!LoadOf(longer, what) = Solvers!LoadOf(stops, what) + order[p][what]
    BY <1>1, AppendLoad
  <2>3. Solvers!LoadOf(Append(longer, o), what)
          = Solvers!LoadOf(longer, what) + order[o][what]
    BY AppendLoad
  <2>4. order[p][what] \in Nat
    BY WeighsNumber
  <2>5. PICK x \in Int, a \in Nat, b \in Nat :
          x = Solvers!LoadOf(stops, what) /\ a = order[o][what] /\ b = order[p][what]
    BY <2>1, <2>4
  <2>6. /\ Solvers!LoadOf(Append(stops, o), what) = x + a
        /\ Solvers!LoadOf(Append(longer, o), what) = (x + b) + a
    BY <2>1, <2>2, <2>3, <2>5
  <2>7. QED  BY <2>6
<1>3. /\ Solvers!reeferOk(v, o)
      /\ Solvers!LoadOf(Append(longer, o), "kg") <= vehicle[v].kg
      /\ Solvers!LoadOf(Append(longer, o), "m3") <= vehicle[v].m3
  BY <1>1 DEF Carries, Solvers!WeightOk, Solvers!VolumeOk
<1>4. Solvers!LoadOf(Append(stops, o), "kg") <= vehicle[v].kg
  <2>1. PICK a, b \in Int : /\ a = Solvers!LoadOf(Append(stops, o), "kg")
                            /\ b = Solvers!LoadOf(Append(longer, o), "kg") /\ a <= b
    BY <1>2
  <2>2. QED  BY <1>3, <2>1
<1>5. Solvers!LoadOf(Append(stops, o), "m3") <= vehicle[v].m3
  <2>1. PICK a, b \in Int : /\ a = Solvers!LoadOf(Append(stops, o), "m3")
                            /\ b = Solvers!LoadOf(Append(longer, o), "m3") /\ a <= b
    BY <1>2
  <2>2. QED  BY <1>3, <2>1
<1>6. QED  BY <1>3, <1>4, <1>5 DEF Carries, Solvers!WeightOk, Solvers!VolumeOk

LEMMA SamePrefix ==
    ASSUME NEW s \in Seq(Packages), NEW t \in Seq(Packages), NEW k \in Nat,
           k <= Len(s), k <= Len(t), \A i \in 1..k : s[i] = t[i]
    PROVE  SubSeq(s, 1, k) = SubSeq(t, 1, k)
  OBVIOUS

\* Who has refused an order has refused it with one more: its load is no less, and what
\* it had is where its route still begins.
LEMMA RefusesStill ==
    ASSUME Weighed, NEW stops \in Seq(Packages), NEW p \in Packages, NEW o \in Packages,
           NEW v, vehicle[v].kg \in Nat, vehicle[v].m3 \in Nat, Refuses(v, stops, o)
    PROVE  Refuses(v, Append(stops, p), o)
<1>1. PICK longer \in Seq(Packages), n \in Nat :
        /\ longer = Append(stops, p) /\ n = Len(stops) /\ Len(longer) = n + 1
        /\ \A k \in 1..n : longer[k] = stops[k]
  <2>1. PICK n \in Nat : n = Len(stops)
    OBVIOUS
  <2>2. /\ Append(stops, p) \in Seq(Packages) /\ Len(Append(stops, p)) = n + 1
        /\ \A k \in 1..n : Append(stops, p)[k] = stops[k]
    BY <2>1, AppendProperties
  <2>3. QED  BY <2>1, <2>2
<1>2. CASE ~Carries(v, stops, o)
  BY <1>2, CarriesLess DEF Refuses
<1>3. ASSUME NEW k \in 0..n, ~Solvers!Feasible(v, Append(SubSeq(stops, 1, k), o))
      PROVE  Refuses(v, Append(stops, p), o)
  <2>1. SubSeq(longer, 1, k) = SubSeq(stops, 1, k)
    BY <1>1, SamePrefix
  <2>2. k \in 0..Len(longer)
    BY <1>1
  <2>3. QED  BY <1>1, <1>3, <2>1, <2>2 DEF Refuses
<1>4. QED  BY <1>1, <1>2, <1>3 DEF Refuses

\* ... and who cannot take one refuses it.
LEMMA RefusesAtTheEnd ==
    ASSUME NEW v, NEW o, route[v] \in Seq(Packages), ~Solvers!CanTake(v, o)
    PROVE  Refuses(v, route[v], o)
<1>1. SubSeq(route[v], 1, Len(route[v])) = route[v] /\ Len(route[v]) \in 0..Len(route[v])
  <2>1. PICK stops \in Seq(Packages), n \in Nat : stops = route[v] /\ n = Len(stops)
    OBVIOUS
  <2>2. /\ SubSeq(stops, 1, n) \in Seq(Packages) /\ Len(SubSeq(stops, 1, n)) = n
        /\ \A i \in 1..n : SubSeq(stops, 1, n)[i] = stops[i]
    BY <2>1, SubSeqProperties
  <2>3. SubSeq(stops, 1, n) = stops
    BY <2>1, <2>2, SeqEqual
  <2>4. QED  BY <2>1, <2>3
<1>2. QED  BY <1>1 DEF Refuses, Carries, Solvers!CanTake, Solvers!CanCarry

\* What is left out, in terms of the routes.
RefusedInv ==
    /\ unassigned \subseteq Packages
    /\ RefusedByAll

LEMMA RefusedIs ==
    RefusedByAll <=>
        \A o \in unassigned :
            /\ phase = "assign" => \A v \in Solvers!Allowed : Refuses(v, route[v], o)
            /\ phase = "pack" => \A v \in Vehicles : ~Carries(v, route[v], o)
  BY DEF RefusedByAll, Solvers!RefusedByAll, Solvers!RefusedAtItsTurn, Refuses, Carries,
         Solvers!CanCarry

LEMMA RefusedIsNext ==
    ASSUME order' = order, vehicle' = vehicle
    PROVE  RefusedByAll' <=>
        \A o \in unassigned' :
            /\ phase' = "assign" => \A v \in Solvers!Allowed : Refuses(v, route'[v], o)
            /\ phase' = "pack" => \A v \in Vehicles : ~Carries(v, route'[v], o)
  BY DEF RefusedByAll, Solvers!RefusedByAll, Solvers!RefusedAtItsTurn, Refuses, Carries,
         Solvers!CanCarry, Solvers!WeightOk, Solvers!VolumeOk, Solvers!reeferOk, Solvers!Allowed,
         Solvers!Feasible, Solvers!simulateRoute, Solvers!Serve, Solvers!LoadOf

LEMMA InitRefusedInv ==
    ASSUME Solvers!AdviceInit \/ Solvers!NoRequest
    PROVE  RefusedInv
<1>1. unassigned = {}
  BY DEF Solvers!AdviceInit, Solvers!NoRequest, Solvers!Init
<1>2. QED  BY <1>1, RefusedIs DEF RefusedInv

LEMMA StepRefusedInv ==
    ASSUME SolverInv, RefusedInv, [Solvers!Next]_(Solvers!vars)
    PROVE  RefusedInv'
<1>1. Solvers!OptimizerAssumption
  BY FleetAssumption
<1>2. ASSUME NEW o \in Packages, phase \in {"assign", "pack"},
             UNCHANGED Solvers!request, phase' = phase,
             \/ /\ unassigned' = unassigned \cup {o} /\ UNCHANGED route
                /\ phase = "assign" => \A v \in Solvers!Allowed : ~Solvers!CanTake(v, o)
                /\ phase = "pack" => \A v \in Vehicles : ~Solvers!CanCarry(v, o)
             \/ /\ UNCHANGED unassigned
                /\ \E v \in Vehicles : route' = [route EXCEPT ![v] = Append(route[v], o)]
      PROVE  RefusedInv'
  <2>1. order' = order /\ vehicle' = vehicle
    BY <1>2 DEF Solvers!request
  <2>2. CASE /\ unassigned' = unassigned \cup {o} /\ UNCHANGED route
             /\ phase = "assign" => \A v \in Solvers!Allowed : ~Solvers!CanTake(v, o)
             /\ phase = "pack" => \A v \in Vehicles : ~Solvers!CanCarry(v, o)
    <3>1. /\ phase = "assign" => \A v \in Solvers!Allowed : Refuses(v, route[v], o)
          /\ phase = "pack" => \A v \in Vehicles : ~Carries(v, route[v], o)
      <4>1. \A v \in Solvers!Allowed : route[v] \in Seq(Packages)
        BY DEF SolverInv, SolverTypes, Solvers!Allowed
      <4>2. QED  BY <2>2, <4>1, RefusesAtTheEnd DEF Carries, Solvers!CanCarry
    <3>2. RefusedByAll'
      BY <1>2, <2>1, <2>2, <3>1, RefusedIs, RefusedIsNext DEF RefusedInv
    <3>3. QED  BY <2>2, <3>2 DEF RefusedInv
  <2>3. CASE /\ UNCHANGED unassigned
             /\ \E v \in Vehicles : route' = [route EXCEPT ![v] = Append(route[v], o)]
    <3>1. PICK v \in Vehicles : route' = [route EXCEPT ![v] = Append(route[v], o)]
      BY <2>3
    <3>2. /\ route[v] \in Seq(Packages) /\ route'[v] = Append(route[v], o)
          /\ \A u \in Vehicles \ {v} : route'[u] = route[u]
      BY <3>1 DEF SolverInv, SolverTypes
    <3>3. Weighed
      BY <1>2, IsWeighed
    <3>4. vehicle[v].kg \in Nat /\ vehicle[v].m3 \in Nat
      BY <1>1, <1>2 DEF SolverInv, SolverTypes, Solvers!OptimizerAssumption
    <3>5. ASSUME NEW p \in Packages, Carries(v, Append(route[v], o), p)
          PROVE  Carries(v, route[v], p)
      BY <3>2, <3>3, <3>4, <3>5, CarriesLess
    <3>6. ASSUME NEW p \in Packages, Refuses(v, route[v], p)
          PROVE  Refuses(v, Append(route[v], o), p)
      BY <3>2, <3>3, <3>4, <3>6, RefusesStill
    <3>7. ASSUME NEW p \in unassigned
          PROVE  /\ phase' = "assign" => \A u \in Solvers!Allowed : Refuses(u, route'[u], p)
                 /\ phase' = "pack" => \A u \in Vehicles : ~Carries(u, route'[u], p)
      <4>1. p \in Packages
        BY DEF RefusedInv
      <4>2. /\ phase = "assign" => \A u \in Solvers!Allowed : Refuses(u, route[u], p)
            /\ phase = "pack" => \A u \in Vehicles : ~Carries(u, route[u], p)
        BY RefusedIs DEF RefusedInv
      <4>3. Solvers!Allowed \subseteq Vehicles
        BY DEF Solvers!Allowed
      <4>4. QED  BY <1>2, <3>2, <3>5, <3>6, <4>1, <4>2, <4>3
    <3>8. QED  BY <2>1, <2>3, <3>7, RefusedIsNext DEF RefusedInv
  <2>4. QED  BY <1>2, <2>2, <2>3
<1>3. ASSUME NEW o \in Packages, Solvers!Assign(o) PROVE RefusedInv'
  <2>1. phase = "assign" /\ phase' = phase /\ UNCHANGED Solvers!request
    BY <1>3 DEF Solvers!Assign
  <2>2. \/ /\ unassigned' = unassigned \cup {o} /\ UNCHANGED route
           /\ \A v \in Solvers!Allowed : ~Solvers!CanTake(v, o)
        \/ /\ UNCHANGED unassigned
           /\ \E v \in Vehicles : route' = [route EXCEPT ![v] = Append(route[v], o)]
    BY <1>3 DEF Solvers!Assign, Solvers!Best, Solvers!Allowed
  <2>3. QED  BY <1>2, <2>1, <2>2
<1>4. ASSUME NEW o \in Packages, Solvers!packLoad(o) PROVE RefusedInv'
  <2>1. phase = "pack" /\ phase' = phase /\ UNCHANGED Solvers!request
    BY <1>4 DEF Solvers!packLoad
  <2>2. \/ /\ unassigned' = unassigned \cup {o} /\ UNCHANGED route
           /\ \A v \in Vehicles : ~Solvers!CanCarry(v, o)
        \/ /\ UNCHANGED unassigned
           /\ \E v \in Vehicles : route' = [route EXCEPT ![v] = Append(route[v], o)]
    BY <1>4 DEF Solvers!packLoad
  <2>3. QED  BY <1>2, <2>1, <2>2
<1>5. ASSUME UNCHANGED Solvers!request, unassigned' \subseteq unassigned,
             phase' \in {"improve", "planned"} \/ UNCHANGED <<phase, route>>
      PROVE  RefusedInv'
  <2>1. order' = order /\ vehicle' = vehicle
    BY <1>5 DEF Solvers!request
  <2>2. QED  BY <1>5, <2>1, RefusedIs, RefusedIsNext DEF RefusedInv
<1>6. QED
  <2>1. CASE Solvers!AllConsidered \/ Solvers!Publish \/ UNCHANGED Solvers!vars
    BY <1>5, <2>1 DEF Solvers!AllConsidered, Solvers!Publish, Solvers!vars
  <2>2. CASE \E v \in Vehicles : Solvers!twoOptImprove(v)
    BY <1>5, <2>2 DEF Solvers!twoOptImprove
  <2>3. CASE \E v \in Vehicles, o \in Packages : Solvers!insertOrderIntoRoute(v, o)
    BY <1>5, <2>3 DEF Solvers!insertOrderIntoRoute, Solvers!Edit
  <2>4. CASE \E v \in Vehicles : \E i, j : Solvers!evaluateSequence(v, i, j)
    BY <1>5, <2>4 DEF Solvers!evaluateSequence, Solvers!Edit
  <2>5. QED  BY <1>3, <1>4, <2>1, <2>2, <2>3, <2>4 DEF Solvers!Next

-----------------------------------------------------------------------------
\* The drivers of two waves (Schedule).

\* Cardinality is the same one, seen through the instance.
LEMMA SizeOfSet == \A S : Solvers!Cardinality(S) = Cardinality(S)
  BY DEF Solvers!Cardinality, Cardinality

\* The sum over two waves, in whatever order they are taken.
LEMMA TotalOfTwo ==
    ASSUME Solvers!Waves = {1, 2}, NEW f, f[1] \in Nat, f[2] \in Nat
    PROVE  Solvers!Total(f) = f[1] + f[2]
<1>1. Solvers!Waves = {1, 2}
  OBVIOUS
<1> DEFINE S == {1, 2}
           pick(s) == CHOOSE x \in s : TRUE
           IsSum(g) == g = [s \in SUBSET S |-> IF s = {} THEN 0
                                ELSE f[pick(s)] + g[s \ {pick(s)}]]
           sum == CHOOSE g : IsSum(g)
           known == [s \in SUBSET S |-> IF s = {} THEN 0 ELSE IF s = {1} THEN f[1]
                                        ELSE IF s = {2} THEN f[2] ELSE f[1] + f[2]]
<1>2. Solvers!Total(f) = sum[S]
  BY <1>1 DEF Solvers!Total, Solvers!MapThenSumSet, Solvers!MapThenFoldSet
<1> HIDE DEF S
<1>3. S = {1, 2}
  BY DEF S
<1>4. \A s \in SUBSET S : s # {} => pick(s) \in s
  OBVIOUS
<1>5. ASSUME NEW s \in SUBSET S PROVE s \in {{}, {1}, {2}, S}
  BY <1>3
<1>6. IsSum(known)
  <2> SUFFICES ASSUME NEW s \in SUBSET S
               PROVE  known[s] = IF s = {} THEN 0 ELSE f[pick(s)] + known[s \ {pick(s)}]
    OBVIOUS
  <2>1. CASE s = {}
    BY <2>1
  <2> HIDE DEF pick
  <2>2. ASSUME NEW x \in {1, 2}, s = {x} PROVE known[s] = f[pick(s)] + known[s \ {pick(s)}]
    <3>1. pick(s) = x /\ s \ {x} = {} /\ s # {}
      BY <1>4, <2>2
    <3>2. known[s] = f[x] /\ known[{}] = 0
      BY <2>2, <3>1
    <3>3. QED  BY <3>1, <3>2
  <2>3. CASE s = S
    <3>1. PICK x, y \in {1, 2} : pick(s) = x /\ x # y /\ s \ {x} = {y}
      <4>1. pick(s) \in {1, 2}
        BY <1>3, <1>4, <2>3
      <4>2. CASE pick(s) = 1
        BY <4>2, <1>3, <2>3
      <4>3. CASE pick(s) = 2
        BY <4>3, <1>3, <2>3
      <4>4. QED  BY <4>1, <4>2, <4>3
    <3>2. known[S] = f[1] + f[2] /\ known[{y}] = f[y]
      BY <1>3
    <3>3. known[s] = f[x] + known[{y}]
      <4> HIDE DEF known
      <4>1. known[S] = f[x] + known[{y}]
        BY <3>1, <3>2
      <4>2. QED  BY <4>1, <2>3
    <3>4. s # {}
      BY <1>3, <2>3
    <3> HIDE DEF known
    <3>5. QED  BY <3>1, <3>3, <3>4
  <2>4. QED  BY <1>5, <2>1, <2>2, <2>3
<1>7. IsSum(sum)
  <2> HIDE DEF IsSum, known
  <2>1. QED  BY <1>6
<1>8. sum \in [SUBSET S -> {sum[s] : s \in SUBSET S}]
       /\ \A s \in SUBSET S : sum[s] = IF s = {} THEN 0 ELSE f[pick(s)] + sum[s \ {pick(s)}]
  <2> HIDE DEF sum, pick
  <2>1. PICK g : g = sum
    OBVIOUS
  <2>2. g = [s \in SUBSET S |-> IF s = {} THEN 0 ELSE f[pick(s)] + g[s \ {pick(s)}]]
    BY <1>7, <2>1
  <2>3. QED  BY <2>1, <2>2
<1> HIDE DEF sum, pick, IsSum
<1>9. sum[{}] = 0 /\ \A x \in {1, 2} : sum[{x}] = f[x]
  <2>1. sum[{}] = 0
    BY <1>8
  <2>2. ASSUME NEW x \in {1, 2} PROVE sum[{x}] = f[x]
    <3>1. pick({x}) = x /\ {x} \ {x} = {} /\ {x} \in SUBSET S /\ {x} # {}
      BY <1>3, <1>4
    <3>2. QED  BY <1>8, <2>1, <3>1
  <2>3. QED  BY <2>1, <2>2
<1>10. pick(S) \in {1, 2} /\ S # {} /\ S \in SUBSET S
  BY <1>3, <1>4
<1>11. sum[S] = f[pick(S)] + sum[S \ {pick(S)}]
  BY <1>8, <1>10
<1>12. CASE pick(S) = 1
  <2>1. S \ {1} = {2}
    BY <1>3
  <2>2. QED  BY <1>2, <1>9, <1>11, <1>12, <2>1
<1>13. CASE pick(S) = 2
  <2>1. S \ {2} = {1}
    BY <1>3
  <2>2. sum[S] = f[2] + f[1]
    BY <1>9, <1>11, <1>13, <2>1
  <2>3. QED  BY <1>2, <2>2
<1>14. QED  BY <1>10, <1>12, <1>13

LEMMA Quotient ==
    ASSUME NEW m \in Nat, NEW n \in Nat \ {0}
    PROVE  /\ m \div n \in Nat
           /\ (m \div n) * n <= m /\ m < (m \div n) * n + n
  OBVIOUS

LEMMA QuotientUp ==
    ASSUME NEW m \in Nat, NEW n \in Nat \ {0}
    PROVE  LET u == (m + n - 1) \div n IN
             u \in Nat /\ m <= u * n /\ (u > 0 => (u - 1) * n < m)
<1> DEFINE a == m + n - 1
           u == a \div n
<1>1. a \in Nat
  OBVIOUS
<1>2. u \in Nat /\ u * n <= a /\ a < u * n + n
  BY <1>1, Quotient
<1>3. (u - 1) * n = u * n - n
  BY <1>2
<1> HIDE DEF u
<1>4. QED  BY <1>2, <1>3

LEMMA TimesIsMonotonic ==
    ASSUME NEW x \in Nat, NEW y \in Nat, NEW k \in Nat, x * k < y * k
    PROVE  x < y
<1> SUFFICES ASSUME x >= y PROVE FALSE
  OBVIOUS
<1>1. PICK e \in Nat : x = y + e
  <2>1. x - y \in Nat /\ x = y + (x - y)
    OBVIOUS
  <2>2. QED  BY <2>1
<1>2. x * k = y * k + e * k
  BY <1>1
<1>3. e * k >= 0
  OBVIOUS
<1>4. QED  BY <1>2, <1>3

Parted(d, m, n, a, b) ==
    /\ m > 0 => a < m
    /\ n > 0 => b < n
    /\ m = 0 => a = 0
    /\ n = 0 => b = 0
    /\ d = a + b \/ d = a + b + 1

\* d drivers among two waves that need m and n: each gets less than it needs, if it
\* needs any, and one driver at most is left over.
LEMMA ProportionOfTwo ==
    ASSUME NEW d \in Nat, NEW m \in Nat, NEW n \in Nat, 0 < d, d < m + n,
           NEW a \in Nat, a = (d * m) \div (m + n), NEW b \in Nat, b = (d * n) \div (m + n)
    PROVE  Parted(d, m, n, a, b)
<1> DEFINE t == m + n
<1>1. t \in Nat \ {0} /\ d < t
  OBVIOUS
<1>2. d * m \in Nat /\ d * n \in Nat /\ d * m + d * n = d * t
  OBVIOUS
<1>3. a = (d * m) \div t /\ b = (d * n) \div t
  OBVIOUS
<1> HIDE DEF t
<1>4. a \in Nat /\ a * t <= d * m /\ d * m < a * t + t
  BY <1>1, <1>2, <1>3, Quotient
<1>5. b \in Nat /\ b * t <= d * n /\ d * n < b * t + t
  BY <1>1, <1>2, <1>3, Quotient
<1>6. m > 0 => a < m
  <2> SUFFICES ASSUME m > 0 PROVE a < m
    OBVIOUS
  <2>1. d * m < t * m
    <3>1. PICK e \in Nat \ {0} : t = d + e
      <4>1. t - d \in Nat \ {0} /\ t = d + (t - d)
        BY <1>1
      <4>2. QED  BY <4>1
    <3>2. t * m = d * m + e * m /\ e * m > 0
      BY <3>1
    <3>3. QED  BY <1>2, <3>2
  <2>2. t * m = m * t
    BY <1>1
  <2>3. a * t < m * t
    BY <1>1, <1>2, <1>4, <2>1, <2>2
  <2>4. QED  BY <1>1, <1>4, <2>3, TimesIsMonotonic
<1>7. n > 0 => b < n
  <2> SUFFICES ASSUME n > 0 PROVE b < n
    OBVIOUS
  <2>1. d * n < t * n
    <3>1. PICK e \in Nat \ {0} : t = d + e
      <4>1. t - d \in Nat \ {0} /\ t = d + (t - d)
        BY <1>1
      <4>2. QED  BY <4>1
    <3>2. t * n = d * n + e * n /\ e * n > 0
      BY <3>1
    <3>3. QED  BY <1>2, <3>2
  <2>2. t * n = n * t
    BY <1>1
  <2>3. b * t < n * t
    BY <1>1, <1>2, <1>5, <2>1, <2>2
  <2>4. QED  BY <1>1, <1>5, <2>3, TimesIsMonotonic
<1>8. (m = 0 => a = 0) /\ (n = 0 => b = 0)
  <2>1. ASSUME NEW c \in Nat, c * t <= 0 PROVE c = 0
    BY <1>1, <2>1
  <2>2. m = 0 => a * t <= 0
    BY <1>4
  <2>3. n = 0 => b * t <= 0
    BY <1>5
  <2>4. QED  BY <1>4, <1>5, <2>1, <2>2, <2>3
<1>9. d = a + b \/ d = a + b + 1
  <2> DEFINE c == a + b
  <2>1. c \in Nat /\ c * t = a * t + b * t /\ (c + 2) * t = c * t + t + t
    BY <1>1, <1>4, <1>5
  <2> HIDE DEF c
  <2>2. c * t <= d * t /\ d * t < (c + 2) * t
    BY <1>1, <1>2, <1>4, <1>5, <2>1
  <2>3. d < c + 2
    BY <1>1, <2>1, <2>2, TimesIsMonotonic
  <2>4. (d + 1) * t = d * t + t
    BY <1>1
  <2>5. c * t < (d + 1) * t
    BY <1>1, <2>1, <2>2, <2>4
  <2>6. c < d + 1
    BY <1>1, <2>1, <2>5, TimesIsMonotonic
  <2>7. QED  BY <2>1, <2>3, <2>6 DEF c
<1>10. QED  BY <1>4, <1>5, <1>6, <1>7, <1>8, <1>9 DEF Parted

\* DEFAULT_WAVES.
TwoWaves == Shares = <<60, 40>>

\* Rounded to the nearest, 60 and 40 per cent add up to the whole.
LEMMA SixtyAndForty ==
    ASSUME NEW n \in Nat
    PROVE  (2 * (n * 60) + 100) \div 200 + (2 * (n * 40) + 100) \div 200 = n
<1>1. PICK u \in Nat : /\ u = (2 * (n * 60) + 100) \div 200
                      /\ u * 200 <= 2 * (n * 60) + 100 /\ 2 * (n * 60) + 100 < u * 200 + 200
  OBVIOUS
<1>2. PICK v \in Nat : /\ v = (2 * (n * 40) + 100) \div 200
                      /\ v * 200 <= 2 * (n * 40) + 100 /\ 2 * (n * 40) + 100 < v * 200 + 200
  OBVIOUS
<1>3. u + v = n
  BY <1>1, <1>2
<1>4. QED  BY <1>1, <1>2, <1>3

WaveNeeds(q, w) ==
    /\ Solvers!Demand(q)[w] \in Nat /\ Solvers!Need(q)[w] \in Nat
    /\ Solvers!Demand(q)[w] <= Solvers!Need(q)[w] * q.perDriver
    /\ Solvers!Need(q)[w] = 0 <=> Solvers!Demand(q)[w] = 0

WaveFacts(q) ==
    /\ Solvers!Waves = {1, 2}
    /\ q.perDriver \in Nat \ {0} /\ q.orders \in Nat /\ q.drivers \in Nat
    /\ \A w \in Solvers!Waves : WaveNeeds(q, w)
    /\ Solvers!Demand(q)[1] + Solvers!Demand(q)[2] = q.orders

LEMMA WavesOfTheDay ==
    ASSUME TwoWaves, Solvers!ScheduleAssumption, NEW q \in Solvers!Shifts
    PROVE  WaveFacts(q)
<1>1. Solvers!Waves = {1, 2} /\ Shares[1] = 60 /\ Shares[2] = 40
  BY DEF Solvers!Waves, TwoWaves
<1>2. q.orders \in Nat /\ q.perDriver \in Nat \ {0} /\ q.drivers \in Nat
  <2>1. q.orders \in 0..MaxOrders /\ q.drivers \in 0..MaxDrivers /\ q.perDriver \in PerDriver
    BY DEF Solvers!Shifts
  <2>2. MaxOrders \in Nat /\ MaxDrivers \in Nat /\ PerDriver \subseteq Nat \ {0}
    BY DEF Solvers!ScheduleAssumption
  <2>3. q.orders \in Nat
    BY <2>1, <2>2
  <2>4. q.drivers \in Nat
    BY <2>1, <2>2
  <2>5. q.perDriver \in Nat \ {0}
    BY <2>1, <2>2
  <2>6. QED  BY <2>3, <2>4, <2>5
<1>3. /\ Solvers!Demand(q)[1] = (2 * (q.orders * 60) + 100) \div 200
      /\ Solvers!Demand(q)[2] = (2 * (q.orders * 40) + 100) \div 200
  BY <1>1, <1>2 DEF Solvers!Demand, Solvers!RoundDiv
<1>4. PICK n \in Nat : n = q.orders
  BY <1>2
<1>5. \A w \in Solvers!Waves : Solvers!Demand(q)[w] \in Nat
  BY <1>1, <1>3, <1>4
<1>6. Solvers!Demand(q)[1] + Solvers!Demand(q)[2] = q.orders
  BY <1>3, <1>4, SixtyAndForty
<1>7. ASSUME NEW w \in Solvers!Waves
      PROVE  /\ Solvers!Need(q)[w] \in Nat
             /\ Solvers!Demand(q)[w] <= Solvers!Need(q)[w] * q.perDriver
             /\ Solvers!Need(q)[w] = 0 <=> Solvers!Demand(q)[w] = 0
  <2>1. PICK d \in Nat, p \in Nat \ {0} : d = Solvers!Demand(q)[w] /\ p = q.perDriver
    BY <1>2, <1>5
  <2>2. Solvers!Need(q)[w] = (d + p - 1) \div p
    BY <1>1, <2>1 DEF Solvers!Need, Solvers!CeilDiv
  <2>3. Solvers!Need(q)[w] \in Nat /\ d <= Solvers!Need(q)[w] * p
    BY <2>2, QuotientUp
  <2>4. d = 0 => Solvers!Need(q)[w] = 0
    <3>1. Solvers!Need(q)[w] > 0 => (Solvers!Need(q)[w] - 1) * p < d
      BY <2>2, QuotientUp
    <3>2. Solvers!Need(q)[w] > 0 => (Solvers!Need(q)[w] - 1) * p >= 0
      BY <2>3
    <3>3. QED  BY <2>3, <3>1, <3>2
  <2>5. Solvers!Need(q)[w] = 0 => d = 0
    <3>1. Solvers!Need(q)[w] = 0 => d <= 0
      BY <2>3
    <3>2. QED  BY <3>1
  <2>6. QED  BY <2>1, <2>3, <2>4, <2>5
<1>8. QED  BY <1>1, <1>2, <1>5, <1>6, <1>7 DEF WaveFacts, WaveNeeds

\* Wave u goes before wave w, and not for having less demand.
GoesFirst(q, u, w) ==
    /\ Solvers!Rank(q, u) = 0 /\ Solvers!Rank(q, w) = 1
    /\ Solvers!Demand(q)[u] >= Solvers!Demand(q)[w]

LEMMA RankOfTwo ==
    ASSUME Solvers!Waves = {1, 2}, NEW q,
           Solvers!Demand(q)[1] \in Nat, Solvers!Demand(q)[2] \in Nat
    PROVE  GoesFirst(q, 1, 2) \/ GoesFirst(q, 2, 1)
<1>1. ASSUME NEW u \in Solvers!Waves, NEW w \in Solvers!Waves, u # w,
             Solvers!Ahead(q, u, w), ~Solvers!Ahead(q, w, u)
      PROVE  Solvers!Rank(q, u) = 0 /\ Solvers!Rank(q, w) = 1
  <2>1. ~Solvers!Ahead(q, u, u) /\ ~Solvers!Ahead(q, w, w)
    BY DEF Solvers!Ahead
  <2>2. /\ {x \in Solvers!Waves : Solvers!Ahead(q, x, u)} = {}
        /\ {x \in Solvers!Waves : Solvers!Ahead(q, x, w)} = {u}
    BY <1>1, <2>1
  <2>3. Solvers!Rank(q, u) = 0
    BY <2>2, FS_EmptySet, SizeOfSet DEF Solvers!Rank
  <2>4. Solvers!Cardinality({u}) = 1
    BY FS_Singleton, SizeOfSet
  <2>5. Solvers!Rank(q, w) = 1
    BY <2>2, <2>4 DEF Solvers!Rank
  <2>6. QED  BY <2>3, <2>5
<1>2. CASE Solvers!Demand(q)[1] >= Solvers!Demand(q)[2]
  <2>1. Solvers!Ahead(q, 1, 2) /\ ~Solvers!Ahead(q, 2, 1)
    BY <1>2 DEF Solvers!Ahead
  <2>2. QED  BY <1>1, <1>2, <2>1 DEF GoesFirst
<1>3. CASE Solvers!Demand(q)[1] < Solvers!Demand(q)[2]
  <2>1. Solvers!Ahead(q, 2, 1) /\ ~Solvers!Ahead(q, 1, 2)
    BY <1>3 DEF Solvers!Ahead
  <2>2. QED  BY <1>1, <1>3, <2>1 DEF GoesFirst
<1>4. QED  BY <1>2, <1>3

\* When there are too few drivers, the proportion leaves one over at most, and he goes
\* with the wave of most demand, which needs him.
LEMMA SharedOut ==
    ASSUME TwoWaves, Solvers!ScheduleAssumption, NEW q \in Solvers!Shifts,
           0 < q.drivers, q.drivers < Solvers!Need(q)[1] + Solvers!Need(q)[2]
    PROVE  /\ \A w \in Solvers!Waves :
                  /\ Solvers!Shared(q)[w] \in Nat
                  /\ Solvers!Shared(q)[w] <= Solvers!Need(q)[w]
           /\ Solvers!Shared(q)[1] + Solvers!Shared(q)[2] = q.drivers
<1>1. /\ Solvers!Waves = {1, 2} /\ q.drivers \in Nat
      /\ Solvers!Need(q)[1] \in Nat /\ Solvers!Need(q)[2] \in Nat
      /\ Solvers!Demand(q)[1] \in Nat /\ Solvers!Demand(q)[2] \in Nat
      /\ \A w \in Solvers!Waves : Solvers!Need(q)[w] = 0 <=> Solvers!Demand(q)[w] = 0
  <2>1. WaveFacts(q)
    BY WavesOfTheDay
  <2>2. ASSUME NEW w \in Solvers!Waves
        PROVE  /\ Solvers!Need(q)[w] \in Nat /\ Solvers!Demand(q)[w] \in Nat
               /\ Solvers!Need(q)[w] = 0 <=> Solvers!Demand(q)[w] = 0
    <3>1. WaveNeeds(q, w)
      BY <2>1 DEF WaveFacts
    <3>2. QED  BY <3>1 DEF WaveNeeds
  <2>3. Solvers!Waves = {1, 2} /\ q.drivers \in Nat
    BY <2>1 DEF WaveFacts
  <2>4. QED  BY <2>2, <2>3
<1>2. PICK d \in Nat, need \in [Solvers!Waves -> Nat] :
        d = q.drivers /\ \A w \in Solvers!Waves : need[w] = Solvers!Need(q)[w]
  <2>1. [w \in Solvers!Waves |-> Solvers!Need(q)[w]] \in [Solvers!Waves -> Nat]
    BY <1>1
  <2>2. QED  BY <1>1, <2>1
<1>3. Solvers!Total(Solvers!Need(q)) = need[1] + need[2] /\ 0 < d /\ d < need[1] + need[2]
  BY <1>1, <1>2, TotalOfTwo
<1> DEFINE P == Solvers!Proportion(q)
<1>4. /\ P[1] = (d * need[1]) \div (need[1] + need[2])
      /\ P[2] = (d * need[2]) \div (need[1] + need[2])
  BY <1>1, <1>2, <1>3 DEF Solvers!Proportion
<1>5. PICK m \in Nat, n \in Nat, a \in Nat, b \in Nat :
        /\ m = need[1] /\ n = need[2] /\ a = P[1] /\ b = P[2]
        /\ 0 < d /\ d < m + n /\ Parted(d, m, n, a, b)
  <2> HIDE DEF P
  <2>1. PICK m \in Nat, n \in Nat : m = need[1] /\ n = need[2]
    BY <1>1, <1>2
  <2>2. d * m \in Nat /\ d * n \in Nat /\ m + n \in Nat \ {0} /\ 0 < d /\ d < m + n
    BY <1>3, <2>1
  <2>3. P[1] = (d * m) \div (m + n) /\ P[2] = (d * n) \div (m + n)
    BY <1>4, <2>1
  <2>4. PICK a \in Nat, b \in Nat : a = P[1] /\ b = P[2]
    BY <2>2, <2>3, Quotient
  <2>5. a = (d * m) \div (m + n) /\ b = (d * n) \div (m + n)
    BY <2>3, <2>4
  <2>6. Parted(d, m, n, a, b)
    BY <2>2, <2>5, ProportionOfTwo
  <2>7. QED  BY <2>1, <2>2, <2>4, <2>6
<1>6. Solvers!Total(P) = a + b
  BY <1>1, <1>5, TotalOfTwo
<1> DEFINE left == d - (a + b)
           Extra(w) == Solvers!Cardinality({k \in 0..(left - 1) : k % 2 = Solvers!Rank(q, w)})
<1>7. Solvers!Shared(q)[1] = a + Extra(1) /\ Solvers!Shared(q)[2] = b + Extra(2)
  <2>1. Solvers!Cardinality(Solvers!Waves) = 2
    <3>1. PICK one : one = {1}
      OBVIOUS
    <3>2. Solvers!Cardinality(one) = 1 /\ IsFiniteSet(one)
      BY <3>1, FS_Singleton, SizeOfSet
    <3>3. 2 \notin one /\ one \cup {2} = Solvers!Waves
      BY <1>1, <3>1
    <3>4. Solvers!Cardinality(one \cup {2}) = Solvers!Cardinality(one) + 1
      BY <3>2, <3>3, FS_AddElement, SizeOfSet
    <3>5. QED  BY <3>2, <3>3, <3>4
  <2>2. q.drivers - Solvers!Total(Solvers!Proportion(q)) = left
    BY <1>2, <1>6
  <2>3. \A w \in Solvers!Waves : Solvers!Shared(q)[w] = P[w] + Extra(w)
    BY <2>1, <2>2 DEF Solvers!Shared
  <2> HIDE DEF P, Extra
  <2>4. QED  BY <1>1, <1>5, <2>3
<1> HIDE DEF P
<1>8. Solvers!Need(q)[1] = m /\ Solvers!Need(q)[2] = n /\ q.drivers = d
  BY <1>1, <1>2, <1>5
<1>9. CASE d = a + b
  <2>1. \A w \in Solvers!Waves : Extra(w) = 0
    <3>1. 0..(left - 1) = {}
      BY <1>9
    <3>2. \A w \in Solvers!Waves : {k \in 0..(left - 1) : k % 2 = Solvers!Rank(q, w)} = {}
      BY <3>1
    <3>3. QED  BY <3>2, FS_EmptySet, SizeOfSet
  <2> HIDE DEF Extra
  <2>2. Solvers!Shared(q)[1] = a /\ Solvers!Shared(q)[2] = b
    BY <1>1, <1>7, <2>1
  <2>3. a <= m /\ b <= n
    BY <1>5 DEF Parted
  <2>4. QED  BY <1>1, <1>8, <1>9, <2>2, <2>3
<1>10. CASE d = a + b + 1
  <2>1. 0..(left - 1) = {0}
    BY <1>10
  <2> HIDE DEF left
  <2>2. ASSUME NEW w \in Solvers!Waves
        PROVE  /\ Solvers!Rank(q, w) = 0 => Extra(w) = 1
               /\ Solvers!Rank(q, w) = 1 => Extra(w) = 0
    <3>1. ASSUME Solvers!Rank(q, w) = 0 PROVE Extra(w) = 1
      <4>1. {k \in 0..(left - 1) : k % 2 = Solvers!Rank(q, w)} = {0}
        BY <2>1, <3>1
      <4>2. QED  BY <4>1, FS_Singleton, SizeOfSet
    <3>2. ASSUME Solvers!Rank(q, w) = 1 PROVE Extra(w) = 0
      <4>1. {k \in 0..(left - 1) : k % 2 = Solvers!Rank(q, w)} = {}
        BY <2>1, <3>2
      <4>2. QED  BY <4>1, FS_EmptySet, SizeOfSet
    <3>3. QED  BY <3>1, <3>2
  <2> HIDE DEF Extra
  <2>3. GoesFirst(q, 1, 2) \/ GoesFirst(q, 2, 1)
    BY <1>1, RankOfTwo
  <2>4. CASE GoesFirst(q, 1, 2)
    <3>1. Solvers!Shared(q)[1] = a + 1 /\ Solvers!Shared(q)[2] = b
      BY <1>1, <1>7, <2>2, <2>4 DEF GoesFirst
    <3>2. m = 0 => n = 0
      BY <1>1, <1>8, <2>4 DEF GoesFirst
    <3>3. a + 1 <= m /\ b <= n
      BY <1>5, <3>2 DEF Parted
    <3>4. QED  BY <1>1, <1>8, <1>10, <3>1, <3>3
  <2>5. CASE GoesFirst(q, 2, 1)
    <3>1. Solvers!Shared(q)[1] = a /\ Solvers!Shared(q)[2] = b + 1
      BY <1>1, <1>7, <2>2, <2>5 DEF GoesFirst
    <3>2. n = 0 => m = 0
      BY <1>1, <1>8, <2>5 DEF GoesFirst
    <3>3. a <= m /\ b + 1 <= n
      BY <1>5, <3>2 DEF Parted
    <3>4. QED  BY <1>1, <1>8, <1>10, <3>1, <3>3
  <2>6. QED  BY <2>3, <2>4, <2>5
<1>11. QED  BY <1>5, <1>9, <1>10 DEF Parted

\* Two waves, of 60 and 40 per cent.
LEMMA NobodyGoesInVain ==
    ASSUME TwoWaves, Solvers!ScheduleAssumption, NEW q \in Solvers!Shifts
    PROVE  Solvers!NobodyInVain(q)
<1>1. /\ Solvers!Waves = {1, 2} /\ q.perDriver \in Nat \ {0} /\ q.drivers \in Nat
      /\ \A w \in Solvers!Waves : /\ Solvers!Demand(q)[w] \in Nat /\ Solvers!Need(q)[w] \in Nat
                          /\ Solvers!Demand(q)[w] <= Solvers!Need(q)[w] * q.perDriver
      /\ Solvers!Demand(q)[1] + Solvers!Demand(q)[2] = q.orders
  <2>1. WaveFacts(q)
    BY WavesOfTheDay
  <2>2. ASSUME NEW w \in Solvers!Waves
        PROVE  /\ Solvers!Need(q)[w] \in Nat /\ Solvers!Demand(q)[w] \in Nat
               /\ Solvers!Demand(q)[w] <= Solvers!Need(q)[w] * q.perDriver
    <3>1. WaveNeeds(q, w)
      BY <2>1 DEF WaveFacts
    <3>2. QED  BY <3>1 DEF WaveNeeds
  <2>3. Solvers!Waves = {1, 2} /\ q.perDriver \in Nat \ {0} /\ q.drivers \in Nat
    BY <2>1 DEF WaveFacts
  <2>4. Solvers!Demand(q)[1] + Solvers!Demand(q)[2] = q.orders
    BY <2>1 DEF WaveFacts
  <2>5. QED  BY <2>2, <2>3, <2>4
<1>2. /\ Solvers!Total(Solvers!Demand(q)) = q.orders
      /\ Solvers!Total(Solvers!Need(q)) = Solvers!Need(q)[1] + Solvers!Need(q)[2]
  BY <1>1, TotalOfTwo
<1>3. CASE Solvers!Total(Solvers!Need(q)) <= q.drivers
  <2>1. Solvers!Assigned(q) = Solvers!Need(q)
    BY <1>3 DEF Solvers!Assigned
  <2>2. \A w \in Solvers!Waves : ~Solvers!Overloaded(q, w)
    <3> SUFFICES ASSUME NEW w \in Solvers!Waves PROVE ~Solvers!Overloaded(q, w)
      OBVIOUS
    <3>1. Solvers!Demand(q)[w] \in Nat /\ Solvers!Need(q)[w] * q.perDriver \in Nat
      BY <1>1
    <3>2. PICK x \in Nat, y \in Nat :
            x = Solvers!Demand(q)[w] /\ y = Solvers!Need(q)[w] * q.perDriver /\ x <= y
      BY <1>1, <3>1
    <3>3. QED  BY <2>1, <3>2 DEF Solvers!Overloaded
  <2>3. \A w \in Solvers!Waves : Solvers!Assigned(q)[w] <= Solvers!Need(q)[w]
    BY <1>1, <2>1
  <2>4. QED  BY <1>1, <1>2, <1>3, <2>1, <2>2, <2>3 DEF Solvers!NobodyInVain
<1>4. CASE q.drivers = 0 /\ ~(Solvers!Total(Solvers!Need(q)) <= q.drivers)
  <2>1. Solvers!Assigned(q) = [w \in Solvers!Waves |-> 0]
    BY <1>1, <1>4 DEF Solvers!Assigned
  <2>2. Solvers!Total(Solvers!Assigned(q)) = 0
    BY <1>1, <2>1, TotalOfTwo
  <2>3. QED  BY <1>1, <1>2, <1>4, <2>1, <2>2 DEF Solvers!NobodyInVain
<1>5. CASE q.drivers # 0 /\ ~(Solvers!Total(Solvers!Need(q)) <= q.drivers)
  <2>1. Solvers!Assigned(q) = Solvers!Shared(q)
    BY <1>5 DEF Solvers!Assigned
  <2>2. 0 < q.drivers /\ q.drivers < Solvers!Need(q)[1] + Solvers!Need(q)[2]
    BY <1>1, <1>2, <1>5
  <2>3. /\ \A w \in Solvers!Waves :
               /\ Solvers!Shared(q)[w] \in Nat
               /\ Solvers!Shared(q)[w] <= Solvers!Need(q)[w]
        /\ Solvers!Shared(q)[1] + Solvers!Shared(q)[2] = q.drivers
    BY <2>2, SharedOut
  <2>4. Solvers!Total(Solvers!Shared(q)) = q.drivers
    BY <1>1, <2>3, TotalOfTwo
  <2>5. QED  BY <1>1, <1>2, <2>1, <2>3, <2>4 DEF Solvers!NobodyInVain
<1>6. QED  BY <1>3, <1>4, <1>5

-----------------------------------------------------------------------------
\* The advisers (Advice).

\* The vehicles for a cluster.
LEMMA PicksAreEnough ==
    ASSUME Solvers!AdviceAssumption, NEW q \in Clusters
    PROVE  Solvers!PickCarriesAll(q)
<1> SUFFICES ASSUME NEW c \in Configs, Solvers!Suits(c, q)
             PROVE  /\ q.cold \ {"AMBIENT"} \subseteq Profile[c].modes
                    /\ q.km <= 85 * Solvers!Max(Profile[c].ranges) + 5
  BY DEF Solvers!PickCarriesAll, Solvers!Recommended
<1>1. /\ "FROZEN" \in Profile[c].modes => "CHILLED" \in Profile[c].modes
      /\ Profile[c].ranges \subseteq Nat
      /\ \E r \in Profile[c].ranges : \A s \in Profile[c].ranges : r >= s
      /\ q.km \in Nat /\ q.cold \subseteq {"AMBIENT", "CHILLED", "FROZEN"}
  BY DEF Solvers!AdviceAssumption
<1>2. /\ Solvers!Demanding(q.cold) = "AMBIENT" \/ Solvers!Demanding(q.cold) \in Profile[c].modes
      /\ Solvers!RangeMargin(Profile[c], q.km) >= 0
  BY DEF Solvers!Suits
<1>3. q.cold \ {"AMBIENT"} \subseteq Profile[c].modes
  BY <1>1, <1>2 DEF Solvers!Demanding
<1>4. PICK top \in Nat : top = Solvers!Max(Profile[c].ranges)
  BY <1>1 DEF Solvers!Max
<1>5. PICK km \in Nat : km = q.km
  BY <1>1
<1>6. (2 * (85 * top - km) + 10) \div 20 >= 0
  BY <1>2, <1>4, <1>5 DEF Solvers!RangeMargin, Solvers!Rounded
<1>7. km <= 85 * top + 5
  BY <1>6
<1>8. QED  BY <1>3, <1>4, <1>5, <1>7

\* Half of the unit is what rounding changes.
LEMMA RoundedToNearest ==
    ASSUME NEW e \in Nat
    PROVE  LET u == (2 * e + 100) \div 200 IN
             u \in Nat /\ 200 * u <= 2 * e + 100 /\ 2 * e - 100 < 200 * u
  OBVIOUS

LEMMA ChargesAreEnough ==
    ASSUME Solvers!AdviceAssumption, NEW q \in Solvers!Charges
    PROVE  Solvers!ChargedForTheDay(q)
<1>1. PICK b \in Nat, soc \in 0..100, n \in Nat : b = q.battery /\ soc = q.soc /\ n = q.need
  <2>1. q.battery \in Batteries /\ q.soc \in 0..100 /\ q.need \in Needs
    BY DEF Solvers!Charges
  <2>2. Batteries \subseteq Nat /\ Needs \subseteq Nat
    BY DEF Solvers!AdviceAssumption
  <2>3. QED  BY <2>1, <2>2
<1>2. PICK now \in Nat : now = b * soc /\ now <= 100 * b
  <2>1. PICK x \in Nat : 100 = soc + x
    <3>1. 100 - soc \in Nat /\ 100 = soc + (100 - soc)
      OBVIOUS
    <3>2. QED  BY <3>1
  <2>2. soc \in Nat /\ b * soc \in Nat /\ b * x \in Nat
    OBVIOUS
  <2>3. b * 100 = b * soc + b * x
    BY <2>1, <2>2
  <2>4. QED  BY <2>2, <2>3
<1>3. Solvers!Current(q) = now
  BY <1>1, <1>2 DEF Solvers!Current
<1>4. PICK t \in Nat : /\ t = Solvers!ChargeTarget(q) /\ t <= 100 * b
                       /\ n <= b => t >= 100 * n
  BY <1>1 DEF Solvers!ChargeTarget, Solvers!Least
<1>5. PICK e \in Nat : /\ e = Solvers!AtLeast0(t - now)
                       /\ e = t - now \/ (e = 0 /\ t <= now)
  BY DEF Solvers!AtLeast0
<1>6. PICK u \in Nat : /\ u = Solvers!EnergyKwh(q)
                       /\ 200 * u <= 2 * e + 100 /\ 2 * e - 100 < 200 * u
                       /\ e = 0 => u = 0
  <2>1. Solvers!EnergyKwh(q) = (2 * e + 100) \div 200
    BY <1>3, <1>4, <1>5 DEF Solvers!EnergyKwh, Solvers!Rounded
  <2>2. QED  BY <2>1, RoundedToNearest
<1>7. /\ n <= b => 2 * (now + 100 * u) >= 2 * 100 * n - 100
      /\ 2 * (now + 100 * u) <= 2 * 100 * b + 100
  <2>1. CASE e = 0 /\ t <= now
    <3>1. u = 0
      BY <1>6, <2>1
    <3>2. QED  BY <1>2, <1>4, <2>1, <3>1
  <2>2. CASE e = t - now
    <3>1. 2 * t <= 2 * now + 200 * u + 100 /\ 2 * now + 200 * u <= 2 * t + 100
      BY <1>6, <2>2
    <3>2. QED  BY <1>4, <3>1
  <2>3. QED  BY <1>5, <2>1, <2>2
<1>8. QED  BY <1>1, <1>3, <1>6, <1>7 DEF Solvers!ChargedForTheDay, Solvers!Ready

\* The forecast is of some of the day's orders that are cold, and of some of the cold
\* that are frozen.
LEMMA ForecastIsNested ==
    ASSUME Solvers!AdviceAssumption, NEW q \in Solvers!Capacities
    PROVE  LET f == Solvers!Forecast(q) IN
             f.orders \in Nat /\ f.cold \in Nat /\ f.frozen \in Nat
               /\ f.frozen <= f.cold /\ f.cold <= f.orders
<1>1. PICK r \in Nat, c \in Nat, z \in Nat, now \in Nat :
        /\ r = q.recent /\ c = q.cold /\ z = q.frozen /\ now = q.now
        /\ z <= c /\ c <= r
  BY DEF Solvers!Capacities, Solvers!AdviceAssumption
<1>2. CASE r = 0
  BY <1>1, <1>2 DEF Solvers!Forecast
<1>3. CASE r # 0
  <2>1. Solvers!Forecast(q) = [orders |-> (r + 14 - 1) \div 14, cold |-> (c + 14 - 1) \div 14,
                               frozen |-> (z + 14 - 1) \div 14]
    BY <1>1, <1>3 DEF Solvers!Forecast, Solvers!RoundedUp
  <2>2. /\ (r + 14 - 1) \div 14 \in Nat /\ (c + 14 - 1) \div 14 \in Nat
        /\ (z + 14 - 1) \div 14 \in Nat
        /\ (z + 14 - 1) \div 14 <= (c + 14 - 1) \div 14
        /\ (c + 14 - 1) \div 14 <= (r + 14 - 1) \div 14
    BY <1>1
  <2>3. QED  BY <2>1, <2>2
<1>4. QED  BY <1>2, <1>3

\* The fleet for a forecast.
LEMMA FleetsAreEnough ==
    ASSUME Solvers!AdviceAssumption, NEW q \in Solvers!Capacities
    PROVE  Solvers!FleetIsEnough(q)
<1> DEFINE f == Solvers!Forecast(q)
           fleet == Solvers!Fleet(q)
<1>1. PICK r \in Nat, c \in Nat, z \in Nat :
        r = f.orders /\ c = f.cold /\ z = f.frozen /\ z <= c /\ c <= r
  BY ForecastIsNested
<1>2. PICK p \in Nat \ {0} : p = PerVehicle
  BY DEF Solvers!AdviceAssumption
<1>3. c - z \in Nat /\ r - c \in Nat /\ Solvers!AtLeast0(r - c) = r - c
  BY <1>1 DEF Solvers!AtLeast0
<1>4. fleet = [frozen |-> (z + p - 1) \div p, chilled |-> ((c - z) + p - 1) \div p,
               dry |-> ((r - c) + p - 1) \div p]
  <2> HIDE DEF f
  <2>1. fleet = [frozen  |-> Solvers!RoundedUp(f.frozen, PerVehicle),
                 chilled |-> Solvers!RoundedUp(f.cold - f.frozen, PerVehicle),
                 dry     |-> Solvers!RoundedUp(Solvers!AtLeast0(f.orders - f.cold), PerVehicle)]
    BY DEF f, Solvers!Fleet
  <2>2. QED  BY <1>1, <1>2, <1>3, <2>1 DEF Solvers!RoundedUp
<1>5. PICK a \in Nat : a = fleet.frozen /\ z <= a * p /\ (a > 0 => (a - 1) * p < z)
  <2>1. fleet.frozen = (z + p - 1) \div p
    BY <1>4
  <2>2. QED  BY <2>1, QuotientUp
<1>6. PICK b \in Nat : b = fleet.chilled /\ c - z <= b * p /\ (b > 0 => (b - 1) * p < c - z)
  <2>1. fleet.chilled = ((c - z) + p - 1) \div p
    BY <1>4
  <2>2. QED  BY <1>3, <2>1, QuotientUp
<1>7. PICK d \in Nat : d = fleet.dry /\ r - c <= d * p /\ (d > 0 => (d - 1) * p < r - c)
  <2>1. fleet.dry = ((r - c) + p - 1) \div p
    BY <1>4
  <2>2. QED  BY <1>3, <2>1, QuotientUp
<1>8. DOMAIN fleet = {"frozen", "chilled", "dry"}
  BY <1>4
<1> HIDE DEF fleet, f
<1>9. c <= (a + b) * p /\ r <= (a + b + d) * p
  <2>1. a * p \in Nat /\ b * p \in Nat /\ d * p \in Nat
    OBVIOUS
  <2>2. \A x, y \in Nat : (x + y) * p = x * p + y * p
    OBVIOUS
  <2>3. PICK s \in Nat : s = a + b /\ s * p = a * p + b * p
    BY <2>2
  <2>4. PICK t \in Nat : t = s + d /\ t * p = s * p + d * p
    BY <2>2
  <2>5. PICK x \in Nat, y \in Nat, w \in Nat : x = a * p /\ y = b * p /\ w = d * p
    BY <2>1
  <2>6. z <= x /\ c - z <= y /\ r - c <= w
    BY <1>5, <1>6, <1>7, <2>5
  <2>7. c <= x + y /\ r <= x + y + w
    BY <1>1, <2>6
  <2>8. (a + b) * p = x + y /\ (a + b + d) * p = x + y + w
    BY <2>3, <2>4, <2>5
  <2>9. QED  BY <2>7, <2>8
<1>10. ASSUME NEW k \in {"frozen", "chilled", "dry"}, fleet[k] > 0
       PROVE  (fleet[k] - 1) * PerVehicle < (CASE k = "frozen" -> f.frozen
                                              [] k = "chilled" -> f.cold - f.frozen
                                              [] k = "dry" -> f.orders - f.cold)
  <2>1. CASE k = "frozen"
    BY <1>1, <1>2, <1>5, <1>10, <2>1
  <2>2. CASE k = "chilled"
    BY <1>1, <1>2, <1>6, <1>10, <2>2
  <2>3. CASE k = "dry"
    BY <1>1, <1>2, <1>7, <1>10, <2>3
  <2>4. QED  BY <2>1, <2>2, <2>3
<1>11. /\ f.frozen <= f.cold /\ f.cold <= f.orders
       /\ f.frozen <= fleet.frozen * PerVehicle
       /\ f.cold <= (fleet.frozen + fleet.chilled) * PerVehicle
       /\ f.orders <= (fleet.frozen + fleet.chilled + fleet.dry) * PerVehicle
  BY <1>1, <1>2, <1>5, <1>6, <1>7, <1>9
<1>12. QED  BY <1>8, <1>10, <1>11 DEF Solvers!FleetIsEnough, f, fleet

LEMMA AnswersAreEnough ==
    ASSUME Solvers!AdviceAssumption, NEW q \in Solvers!Queries
    PROVE  Solvers!IsEnough(q)
<1>1. CASE q \in Solvers!Picks
  <2>1. q.of = "pick" /\ q.cluster \in Clusters
    BY <1>1 DEF Solvers!Picks
  <2>2. QED  BY <2>1, PicksAreEnough DEF Solvers!IsEnough
<1>2. CASE q \in Solvers!Charges
  <2>1. q.of = "charge"
    BY <1>2 DEF Solvers!Charges
  <2>2. QED  BY <1>2, <2>1, ChargesAreEnough DEF Solvers!IsEnough
<1>3. CASE q \in Solvers!Capacities
  <2>1. q.of = "capacity"
    BY <1>3 DEF Solvers!Capacities
  <2>2. QED  BY <1>3, <2>1, FleetsAreEnough DEF Solvers!IsEnough
<1>4. QED  BY <1>1, <1>2, <1>3 DEF Solvers!Queries

-----------------------------------------------------------------------------
\* A question is asked once, and nothing changes it.
QuestionOK == shift \in Solvers!Shifts \cup {NONE} /\ query \in Solvers!Queries \cup {NONE}

LEMMA InitQuestionOK == FleetInit => QuestionOK
  BY DEF FleetInit, QuestionOK, Solvers!NoQuestion, Solvers!AdviceInit

LEMMA QuestionStays == QuestionOK /\ [FleetNext]_fleetVars => QuestionOK'
  BY DEF FleetNext, fleetVars, solverVars, QuestionOK

-----------------------------------------------------------------------------
\* The theorems.

\* A behaviour of the fleet's planning is one of the plans, the insertions and the
\* routes, and one of the chat.
THEOREM FleetImplementsParts == FleetSpec => Plan!Spec /\ Spec
<1>1. FleetInit => Plan!Init /\ Init
  BY DEF FleetInit
<1>2. [FleetNext]_fleetVars => [Plan!Next]_(Plan!vars) /\ [Next]_vars
  BY DEF FleetNext, fleetVars, planVars, vars, Plan!vars
<1>3. QED  BY <1>1, <1>2, PTL DEF FleetSpec, Plan!Spec, Spec

\* For any routes, orders and dispatchers: an order travels in one route, while no
\* two requests of dispatchers have overlapped.
THEOREM OrdersTravelOnce == FleetSpec => []OneRoutePerOrder
<1>1. PlanInv /\ [Plan!Next]_(Plan!vars) => PlanInv'
  BY PlanInvStays
<1>2. PlanInv => OneRoutePerOrder
  BY DEF PlanInv
<1>3. QED  BY PlanInvInit, <1>1, <1>2, FleetImplementsParts, PTL DEF Plan!Spec

\* ... and one that is assigned, in transit or over has the stop that delivers it.
THEOREM AssignedOrdersHaveDelivery == FleetSpec => []AssignedHasDelivery
<1>1. PlanInv /\ [Plan!Next]_(Plan!vars) => PlanInv'
  BY PlanInvStays
<1>2. PlanInv => AssignedHasDelivery
  BY DEF PlanInv
<1>3. QED  BY PlanInvInit, <1>1, <1>2, FleetImplementsParts, PTL DEF Plan!Spec

\* An insertion does not touch a stop that a driver attended, however many
\* insertions and resequencings of the route are in flight.
THEOREM InsertionsKeepAttended == FleetSpec => InsertionKeepsAttended
<1> DEFINE Keeps == \A d \in Dispatchers : Plan!InsertCommit(d) =>
                        \A x \in Plan!Slots : Plan!Attended(x) => stop'[x] = stop[x]
<1>1. ASSUME PlanInv, NEW d \in Dispatchers, Plan!InsertCommit(d),
             NEW x \in Plan!Slots, Plan!Attended(x)
      PROVE  stop'[x] = stop[x]
  <2> DEFINE r == job[d].route  queue == job[d].queue
  <2>1. /\ job[d].step = "insert"
        /\ queue \cap Plan!StopsOf(r) \subseteq Plan!PendingOf(r)
        /\ stop' = [y \in Plan!Slots |-> IF y \in queue THEN "PENDING"
                                         ELSE IF y \in Plan!PendingOf(r) THEN "absent"
                                         ELSE stop[y]]
    BY <1>1 DEF Plan!InsertCommit, Plan!ReplaceQueue
  <2>2. stop[x] # "absent" /\ x \notin Plan!PendingOf(r)
    BY <1>1 DEF Plan!Attended, Plan!PendingOf
  <2>3. x \in queue => x \in Plan!StopsOf(r)
    BY <1>1, <2>1, <2>2, SlotFacts DEF PlanInv, QueuesOnRoute, Plan!StopsOf
  <2>4. QED  BY <2>1, <2>2, <2>3
<1>2. PlanInv /\ [Plan!Next]_(Plan!vars) => PlanInv'
  BY PlanInvStays
<1>3. PlanInv => [Keeps]_(Plan!vars)
  BY <1>1
<1>4. QED
  BY PlanInvInit, <1>2, <1>3, FleetImplementsParts, PTL
  DEF Plan!Spec, InsertionKeepsAttended, Plan!InsertionKeepsAttended

\* The planner's routes can be driven by their vehicles, with what they carry, for any
\* travel times, windows and kinds of order and vehicle: as they are planned, turned by
\* 2-opt, given one more order (insertOrderIntoRoute) and put in an order a dispatcher
\* chose (evaluateSequence).
THEOREM RoutesCanBeDriven == FleetSpec => []RoutesAreFeasible
<1>1. FleetInit => SolverInv
  BY InitSolverInv DEF FleetInit
<1>2. SolverInv /\ [FleetNext]_fleetVars => SolverInv'
  BY StepSolverInv, FleetStepsSolvers
<1>3. SolverInv => RoutesAreFeasible
  BY DEF SolverInv
<1>4. QED  BY <1>1, <1>2, <1>3, PTL DEF FleetSpec

\* The loop of twoOptImprove makes no plan that it has had before, so that it ends:
\* each turn shortens a route.
THEOREM ImprovementsAreNew == FleetSpec => NoPlanComesBack
<1> DEFINE New == phase = "improve" /\ route' # route => route' \notin been
<1>1. FleetInit => SolverInv
  BY InitSolverInv DEF FleetInit
<1>2. SolverInv /\ [FleetNext]_fleetVars => SolverInv'
  BY StepSolverInv, FleetStepsSolvers
<1>3. SolverInv /\ [FleetNext]_fleetVars => [New]_(Solvers!vars)
  <2> SUFFICES ASSUME SolverInv, [Solvers!Next]_(Solvers!vars), phase = "improve", route' # route
               PROVE  route' \notin been
    BY FleetStepsSolvers
  <2>1. PICK v \in Vehicles : Solvers!twoOptImprove(v)
    BY DEF Solvers!Next, Solvers!vars, Solvers!Assign, Solvers!packLoad, Solvers!AllConsidered,
           Solvers!Publish, Solvers!insertOrderIntoRoute, Solvers!evaluateSequence, Solvers!Edit
  <2>2. QED  BY <2>1, TwoOptSolverInv
<1>4. QED
  BY <1>1, <1>2, <1>3, PTL DEF FleetSpec, NoPlanComesBack, Solvers!NoPlanComesBack

\* For any orders, vehicles, objective and travel model: an order that the planner leaves
\* out has been refused by every vehicle that may drive at the end of the route it had, and
\* one that packLoad leaves out is too much for every vehicle with what it has by now.
THEOREM LeftOutOnlyIfRefused == FleetSpec => []RefusedByAll
<1>1. FleetInit => SolverInv /\ RefusedInv
  BY InitSolverInv, InitRefusedInv DEF FleetInit
<1>2. SolverInv /\ RefusedInv /\ [FleetNext]_fleetVars => (SolverInv /\ RefusedInv)'
  BY StepSolverInv, StepRefusedInv, FleetStepsSolvers
<1>3. RefusedInv => RefusedByAll
  BY DEF RefusedInv
<1>4. QED  BY <1>1, <1>2, <1>3, PTL DEF FleetSpec

\* With the two waves of DEFAULT_WAVES, for any orders, drivers and capacity of a driver:
\* no wave is given more drivers than it needs, none stays idle while a wave is
\* overloaded, and every order is of one wave.
THEOREM SchedulesWasteNobody ==
    ASSUME TwoWaves
    PROVE  FleetSpec => []ScheduleIsRight
<1>1. QuestionOK => ScheduleIsRight
  <2>1. Solvers!ScheduleAssumption
    BY FleetAssumption
  <2>2. QED  BY <2>1, NobodyGoesInVain
             DEF QuestionOK, ScheduleIsRight, Solvers!ScheduleIsRight
<1>2. QED  BY InitQuestionOK, QuestionStays, <1>1, PTL DEF FleetSpec

\* For any table of vehicles where what freezes can chill, and any batteries, routes and
\* orders of a fortnight: the vehicle recommended carries all of the cluster at its
\* temperature and reaches, one said to be ready has the energy of its route, and the
\* fleet recommended takes the forecast with no vehicle to spare.
THEOREM AdviceCoversAll == FleetSpec => []AdviceIsEnough
<1>1. QuestionOK => AdviceIsEnough
  <2>1. Solvers!AdviceAssumption
    BY FleetAssumption
  <2>2. QED  BY <2>1, AnswersAreEnough
             DEF QuestionOK, AdviceIsEnough, Solvers!AdviceIsEnough
<1>2. QED  BY InitQuestionOK, QuestionStays, <1>1, PTL DEF FleetSpec
=============================================================================
