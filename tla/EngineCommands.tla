--------------------------- MODULE EngineCommands ---------------------------
(***************************************************************************)
(* Switching an engine off and on at a distance: the commands of           *)
(* modules/telematics/routes.ts (request, poll, ack, ingest) for one       *)
(* vehicle, and the loop of the device that carries them out,              *)
(* simulator/run.ts.                                                       *)
(*                                                                         *)
(* The device makes one request at a time.  A request that fails (the      *)
(* server throws, or its answer is lost) ends the device's turn; the next  *)
(* turn starts with a new poll.                                            *)
(***************************************************************************)
EXTENDS Naturals, Sequences

CONSTANTS
    MaxCommands,   \* bound on the commands requested
    Faults         \* whether requests may fail and the device restart

EngineAssumption == MaxCommands \in Nat /\ Faults \in BOOLEAN

VARIABLES
    commands,      \* VehicleCommand rows, in order of createdAt
    lastSpeed,     \* Vehicle.lastSpeedKmh: "none", "still" or "moving"
    engineOn,      \* Vehicle.engineOn, what the dispatcher sees
    immobilized,   \* Vehicle.immobilized
    asking,        \* the command a dispatcher's request is about to create
    engine,        \* the engine itself
    moving,        \* the vehicle itself
    step,          \* where the device is in its turn
    batch,         \* the commands it has polled and not yet finished (their indexes)
    ran,           \* history: the commands carried out, in order
    disturbed      \* history: a request failed or the device restarted

server == <<commands, lastSpeed, engineOn, immobilized>>
device == <<engine, moving, step, batch, ran, disturbed>>
vars == <<server, asking, device>>

CommandType == {"ENGINE_OFF", "ENGINE_ON"}
Init ==
    /\ commands = <<>>
    /\ lastSpeed = "none"
    /\ engineOn = TRUE /\ immobilized = FALSE
    /\ asking = "nothing"
    /\ engine = TRUE /\ moving = TRUE
    /\ step = "poll" /\ batch = {} /\ ran = <<>>
    /\ disturbed = FALSE

-----------------------------------------------------------------------------
\* POST /telematics/vehicles/:id/commands

\* Never switch off a vehicle in movement, as far as its last ping tells.
RequestRead(type) ==
    /\ asking = "nothing" /\ Len(commands) < MaxCommands
    /\ type = "ENGINE_OFF" => lastSpeed # "moving"
    /\ asking' = type
    /\ UNCHANGED <<server, device>>

RequestCreate ==
    /\ asking # "nothing"
    /\ commands' = Append(commands, [type |-> asking, status |-> "PENDING"])
    /\ asking' = "nothing"
    /\ UNCHANGED <<lastSpeed, engineOn, immobilized, device>>

-----------------------------------------------------------------------------
\* The device's turn: handleCommands, then step.

WithStatus(i, s) == [commands EXCEPT ![i].status = s]
Waiting(S) == {i \in DOMAIN commands : commands[i].status \in S}

\* The device takes them in the order of the answer, by createdAt.
Current == CHOOSE i \in batch : \A k \in batch : i <= k

\* The commands a poll returns; the device gets them once they are marked.
PollReadUnanswered ==
    /\ step = "poll"
    /\ batch' = Waiting({"PENDING", "SENT"})
    /\ step' = IF batch' = {} THEN "ping" ELSE "mark"
    /\ UNCHANGED <<server, asking, engine, moving, ran, disturbed>>

PollRead ==
    /\ step = "poll"
    /\ batch' = Waiting({"PENDING"})
    /\ step' = IF batch' = {} THEN "ping" ELSE "mark"
    /\ UNCHANGED <<server, asking, engine, moving, ran, disturbed>>

PollMarkEveryPending ==
    /\ step = "mark"
    /\ commands' = [i \in DOMAIN commands |->
                      IF commands[i].status = "PENDING"
                      THEN [commands[i] EXCEPT !.status = "SENT"] ELSE commands[i]]
    /\ step' = "run"
    /\ UNCHANGED <<lastSpeed, engineOn, immobilized, asking, engine, moving, batch, ran, disturbed>>

\* Only the commands read, by id: one created meanwhile stays PENDING.
PollMark ==
    /\ step = "mark"
    /\ commands' = [i \in DOMAIN commands |->
                      IF i \in batch THEN [commands[i] EXCEPT !.status = "SENT"] ELSE commands[i]]
    /\ step' = "run"
    /\ UNCHANGED <<lastSpeed, engineOn, immobilized, asking, engine, moving, batch, ran, disturbed>>

\* The device does as it is told, whatever its speed, then acknowledges.
Run ==
    /\ step = "run"
    /\ LET on == commands[Current].type = "ENGINE_ON"
       IN engine' = on /\ moving' = on
    /\ ran' = Append(ran, Current)
    /\ step' = "ack"
    /\ UNCHANGED <<server, asking, batch, disturbed>>

\* The acknowledgement: the command first...
Ack ==
    /\ step = "ack"
    /\ commands' = WithStatus(Current, "ACK")
    /\ step' = "reflect"
    /\ UNCHANGED <<lastSpeed, engineOn, immobilized, asking, engine, moving, batch, ran, disturbed>>

ReflectOnlyEngine ==
    /\ step = "reflect"
    /\ engineOn' = (commands[Current].type = "ENGINE_ON")
    /\ UNCHANGED <<immobilized, lastSpeed>>
    /\ batch' = batch \ {Current}
    /\ step' = IF batch \ {Current} = {} THEN "ping" ELSE "run"
    /\ UNCHANGED <<commands, asking, engine, moving, ran, disturbed>>

\* ...then its effect on the vehicle's row.
Reflect ==
    /\ step = "reflect"
    /\ LET off == commands[Current].type = "ENGINE_OFF"
       IN /\ engineOn' = ~off /\ immobilized' = off
          /\ lastSpeed' = IF off THEN "still" ELSE lastSpeed
    /\ batch' = batch \ {Current}
    /\ step' = IF batch \ {Current} = {} THEN "ping" ELSE "run"
    /\ UNCHANGED <<commands, asking, engine, moving, ran, disturbed>>

\* The ping of the turn (POST /telematics/ingest).  Its two writes do not matter
\* apart: the row of the ping is not read here.
Ping ==
    /\ step = "ping"
    /\ lastSpeed' = IF moving THEN "moving" ELSE "still"
    /\ engineOn' = engine
    /\ step' = "sleep"
    /\ UNCHANGED <<commands, immobilized, asking, engine, moving, batch, ran, disturbed>>

Wake ==
    /\ step = "sleep"
    /\ step' = "poll"
    /\ UNCHANGED <<server, asking, engine, moving, batch, ran, disturbed>>

\* A request of the turn fails, before or after the write it is for: the rest
\* of the turn is dropped, with the commands polled.
Fail ==
    /\ Faults
    /\ step \in {"mark", "run", "ack", "reflect", "ping"}
    /\ step' = "sleep" /\ batch' = {} /\ disturbed' = TRUE
    /\ UNCHANGED <<server, asking, engine, moving, ran>>

\* loadVehicles: a simulator started again drives every vehicle.
Restart ==
    /\ Faults
    /\ engine' = TRUE /\ moving' = TRUE
    /\ step' = "poll" /\ batch' = {} /\ disturbed' = TRUE
    /\ UNCHANGED <<server, asking, ran>>

\* A vehicle in the street stops and moves on with its engine on.
Drive ==
    /\ engine
    /\ moving' = ~moving
    /\ UNCHANGED <<server, asking, engine, step, batch, ran, disturbed>>

Turn == PollRead \/ PollMark \/ Run \/ Ack \/ Reflect \/ Ping \/ Wake

Next ==
    \/ \E type \in CommandType : RequestRead(type)
    \/ RequestCreate
    \/ Turn
    \/ Fail \/ Restart \/ Drive

Spec == Init /\ [][Next]_vars

\* The device's loop never ends, and the API serves every request.
FairSpec == Spec /\ WF_vars(Turn) /\ WF_vars(RequestCreate)

\* The behaviours where a request to switch off finds the vehicle standing, as its last
\* ping has reported and as it is: what moves it comes after the check.
CheckedStanding == asking = "nothing" /\ asking' = "ENGINE_OFF" => lastSpeed = "still" /\ ~moving
StandingSpec == Init /\ [][Next /\ CheckedStanding]_vars

-----------------------------------------------------------------------------
\* Properties.

\* However answers are lost and the device restarts, a command is carried out
\* at most once and never after a later one; and an acknowledged command was.
RunOnceInOrder ==
    /\ \A i, j \in DOMAIN ran : i < j => ran[i] < ran[j]
    /\ \A c \in DOMAIN commands :
         commands[c].status = "ACK" => \E i \in DOMAIN ran : ran[i] = c

\* While no request has failed, between turns the row shows what the engine is:
\* blocked if and only if the last command switched it off.
RowMatchesEngine ==
    ~disturbed /\ step \in {"sleep", "poll"} =>
        /\ immobilized = ~engine
        /\ engineOn = engine

\* A command requested is carried out and acknowledged, however many arrive
\* while the device is busy, unless a request fails.
CommandsAcked ==
    \A c \in 1..MaxCommands :
        c \in DOMAIN commands ~>
            \/ disturbed
            \/ c \in DOMAIN commands /\ commands[c].status = "ACK"

\* The engine is only switched off with the vehicle stopped.
OffOnlyWhenStill == [][engine /\ ~engine' => ~moving]_vars
=============================================================================
