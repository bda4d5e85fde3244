----------------------------- MODULE Background -----------------------------
(***************************************************************************)
(* The loops that run outside the requests of the API: the driver's queue, *)
(* which sends again what found no network (DriverQueue), the device of a  *)
(* vehicle, which asks for its commands (EngineCommands), and the job that *)
(* builds the tracks every night before it deletes their positions         *)
(* (Retention).  They run on three machines and share no state, so each    *)
(* behaviour is of one of them.                                            *)
(***************************************************************************)
EXTENDS Retention

CONSTANTS
    Actions, MaxFaults,                                           \* of DriverQueue
    MaxCommands, RequestsFail                                     \* of EngineCommands

VARIABLES
    queue, elapsed, flush, live, faults, executed, discarded, settled,  \* of DriverQueue
    commands, lastSpeed, engineOn, immobilized, asking,           \* of EngineCommands
    engine, moving, step, batch, ran, disturbed,
    part               \* which of the three this behaviour is of

Phone == INSTANCE DriverQueue
Device == INSTANCE EngineCommands WITH Faults <- RequestsFail

ASSUME BackgroundAssumption == Device!EngineAssumption

deviceVars == <<commands, lastSpeed, engineOn, immobilized, asking,
                engine, moving, step, batch, ran, disturbed>>
phoneVars == <<queue, elapsed, flush, live, faults, executed, discarded, settled>>
backgroundVars == <<vars, phoneVars, deviceVars, part>>

BackgroundInit ==
    /\ Init /\ Phone!Init /\ Device!Init
    /\ part \in {"phone", "device", "job"}

OfPhone(A) == part = "phone" /\ A /\ UNCHANGED <<vars, deviceVars, part>>
OfDevice(A) == part = "device" /\ A /\ UNCHANGED <<vars, phoneVars, part>>
OfJob(A) == part = "job" /\ A /\ UNCHANGED <<phoneVars, deviceVars, part>>

BackgroundNext == OfPhone(Phone!Next) \/ OfDevice(Device!Next) \/ OfJob(Next)

\* The fairness of each loop, as its module justifies it.
BackgroundSpec ==
    /\ BackgroundInit /\ [][BackgroundNext]_backgroundVars
    /\ WF_backgroundVars(OfPhone(Phone!FlushStart))
    /\ WF_backgroundVars(OfPhone(\E o \in Phone!Outcome : Phone!FlushAnswer(o)))
    /\ \A a \in Actions : WF_backgroundVars(OfPhone(Phone!BackoffOver(a)))
    /\ WF_backgroundVars(OfDevice(Device!Turn))
    /\ WF_backgroundVars(OfDevice(Device!RequestCreate))
    /\ \A j \in Jobs : /\ WF_backgroundVars(OfJob(JobStart(j)))
                       /\ WF_backgroundVars(OfJob(JobStep(j)))

-----------------------------------------------------------------------------
\* The properties of DriverQueue and EngineCommands, of the loops together.

RunOnceInOrder == Device!RunOnceInOrder
RowMatchesEngine == Device!RowMatchesEngine
CommandsAcked == Device!CommandsAcked
OffOnlyWhenStill == Device!OffOnlyWhenStill
SettledActionsKept == Phone!SettledActionsKept
QueueDrains == Phone!QueueDrains
=============================================================================
