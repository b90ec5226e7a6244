------------------------------- MODULE RunAll -------------------------------
(* scripts/run_all.py: it builds and starts the engine, starts the Binance   *)
(* connector, runs the validator, and stops both.  A KeyboardInterrupt falls *)
(* between two of its statements and reaches the whole process group.        *)
EXTENDS TLAPS

VARIABLES
  main, io_thread, g_running, stopped,   \* of EngineProcess
  pc,          \* where the harness stands
  connector,   \* "none", "running", "ending" or "gone"
  cleaned      \* the finally block has run to its end

Process == INSTANCE EngineProcess

process == <<main, io_thread, g_running, stopped>>
vars == <<process, pc, connector, cleaned>>

Init ==
  /\ Process!NotStarted
  /\ pc = "configure"
  /\ connector = "none"
  /\ cleaned = FALSE

(* The statements before the try block: each may end the script. *)
Goto(from, to) ==
  /\ pc = from
  /\ pc' \in {to, "ended"}
  /\ UNCHANGED <<process, connector, cleaned>>

Configure == Goto("configure", "build")
Build     == Goto("build", "locate")
Locate    == Goto("locate", "spawn_engine")

SpawnEngine ==
  /\ pc = "spawn_engine"
  /\ \/ Process!Boot /\ pc' = "spawn_connector"
     \/ UNCHANGED process /\ pc' = "ended"
  /\ UNCHANGED <<connector, cleaned>>

(* Popen raises when there is no uv to run; the try block has not begun. *)
SpawnConnector ==
  /\ pc = "spawn_connector"
  /\ \/ connector' = "running" /\ pc' = "sleep"
     \/ UNCHANGED connector /\ pc' = "ended"
  /\ UNCHANGED <<process, cleaned>>

Sleep ==
  /\ pc = "sleep"
  /\ pc' = "validate"
  /\ UNCHANGED <<process, connector, cleaned>>

(* Fault: a validator that cannot be run is not followed by the clean-up. *)
ValidateUnprotected ==
  /\ pc = "validate"
  /\ pc' \in {"terminate_engine", "ended"}
  /\ UNCHANGED <<process, connector, cleaned>>

(* Whether the validator ends or cannot be run, the finally block follows. *)
Validate ==
  /\ pc = "validate"
  /\ pc' = "terminate_engine"
  /\ UNCHANGED <<process, connector, cleaned>>

TerminateEngine ==
  /\ pc = "terminate_engine"
  /\ IF Process!Gone THEN UNCHANGED process ELSE Process!Signal
  /\ pc' = "terminate_connector"
  /\ UNCHANGED <<connector, cleaned>>

TerminateConnector ==
  /\ pc = "terminate_connector"
  /\ connector' = IF connector = "running" THEN "ending" ELSE connector
  /\ pc' = "wait_engine"
  /\ UNCHANGED <<process, cleaned>>

(* Each wait ends with its child or after three seconds. *)
WaitEngine ==
  /\ pc = "wait_engine"
  /\ \/ Process!Gone /\ pc' = "wait_connector"
     \/ ~ Process!Gone /\ pc' = "kill"
  /\ UNCHANGED <<process, connector, cleaned>>

WaitConnector ==
  /\ pc = "wait_connector"
  /\ \/ connector = "gone" /\ pc' = "ended" /\ cleaned' = TRUE
     \/ connector # "gone" /\ pc' = "kill" /\ UNCHANGED cleaned
  /\ UNCHANGED <<process, connector>>

(* Fault: only the child that was waited for is killed. *)
KillEngineOnly ==
  /\ pc = "kill"
  /\ IF Process!Gone THEN UNCHANGED process ELSE Process!Kill
  /\ pc' = "ended"
  /\ cleaned' = TRUE
  /\ UNCHANGED connector

KillBoth ==
  /\ pc = "kill"
  /\ IF Process!Gone THEN UNCHANGED process ELSE Process!Kill
  /\ connector' = "gone"
  /\ pc' = "ended"
  /\ cleaned' = TRUE

InTry == pc \in {"sleep", "validate"}

(* Ctrl-C: the engine is signalled, the connector ends, and the harness      *)
(* leaves its try block for the clean-up, or leaves altogether: "except      *)
(* Exception" does not catch an interrupt of the clean-up.                   *)
Interrupt ==
  /\ pc # "ended"
  /\ pc' = IF InTry THEN "terminate_engine" ELSE "ended"
  /\ IF Process!Gone THEN UNCHANGED process ELSE Process!Signal
  /\ connector' = IF connector = "running" THEN "ending" ELSE connector
  /\ UNCHANGED cleaned

(* The children on their own.  The connector also ends when the exchange     *)
(* cannot tell it the symbols.                                               *)
EngineRuns == Process!Run /\ UNCHANGED <<pc, connector, cleaned>>

EngineFails == Process!HandlerThrows /\ UNCHANGED <<pc, connector, cleaned>>

ConnectorEnds ==
  /\ connector = "ending"
  /\ connector' = "gone"
  /\ UNCHANGED <<process, pc, cleaned>>

ConnectorFails ==
  /\ connector = "running"
  /\ connector' = "gone"
  /\ UNCHANGED <<process, pc, cleaned>>

Harness ==
  \/ Configure \/ Build \/ Locate
  \/ SpawnEngine \/ SpawnConnector
  \/ Sleep \/ Validate
  \/ TerminateEngine \/ TerminateConnector
  \/ WaitEngine \/ WaitConnector \/ KillBoth

Next == Harness \/ Interrupt \/ EngineRuns \/ EngineFails \/ ConnectorEnds \/ ConnectorFails

Spec == Init /\ [][Next]_vars

(* The processes go on; the user of the validator need not. *)
FairSpec ==
  /\ Spec
  /\ WF_vars(Harness /\ pc # "validate")
  /\ WF_vars(EngineRuns)
  /\ WF_vars(ConnectorEnds)

-----------------------------------------------------------------------------
(* What the harness promises *)

AllGone == Process!Gone /\ connector \in {"none", "gone"}

(* When the clean-up has run to its end nothing is left, even of an engine   *)
(* or a connector that would not end by itself.                              *)
NothingOutlivesCleanUp == cleaned => AllGone

(* Once both services have been started they end with the harness, however   *)
(* it ends: after the validator, interrupted, or interrupted again while it  *)
(* cleans up.                                                                *)
ServicesEnd == (pc = "ended" /\ connector # "none") ~> AllGone

-----------------------------------------------------------------------------
(* Proofs *)

(* The engine is waited for before the connector, so a clean-up that ends by *)
(* waiting has seen both end; a process that has ended does not come back.   *)
IInv ==
  /\ connector \in {"none", "running", "ending", "gone"}
  /\ cleaned \in BOOLEAN
  /\ pc = "wait_connector" => Process!Gone
  /\ cleaned => pc = "ended" /\ AllGone

(* A process that has ended does not come back. *)
LEMMA GoneForGood ==
  ASSUME Process!Gone, Process!Run \/ Process!HandlerThrows
  PROVE  Process!Gone'
BY DEF Process!Gone, Process!Run, Process!HandlerThrows, Process!InstallHandlers,
       Process!start, Process!stop, Process!RunReturns, Process!Join

LEMMA InitIInv == Init => IInv
BY DEF Init, IInv

LEMMA StepIInv == IInv /\ [Next]_vars => IInv'
<1> SUFFICES ASSUME IInv, [Next]_vars PROVE IInv'
  OBVIOUS
<1> USE DEF IInv, AllGone
<1>1. CASE Configure \/ Build \/ Locate
  BY <1>1 DEF Configure, Build, Locate, Goto, process, Process!Gone
<1>2. CASE SpawnEngine
  BY <1>2 DEF SpawnEngine, process, Process!Gone
<1>3. CASE SpawnConnector
  BY <1>3 DEF SpawnConnector, process, Process!Gone
<1>4. CASE Sleep \/ Validate
  BY <1>4 DEF Sleep, Validate, process, Process!Gone
<1>5. CASE TerminateEngine
  BY <1>5 DEF TerminateEngine
<1>6. CASE TerminateConnector
  BY <1>6 DEF TerminateConnector
<1>7. CASE WaitEngine
  BY <1>7 DEF WaitEngine, process, Process!Gone
<1>8. CASE WaitConnector
  <2>1. Process!Gone' /\ connector' = connector /\ cleaned = FALSE
    BY <1>8 DEF WaitConnector, process, Process!Gone
  <2>2. CASE connector = "gone"
    <3>1. pc' = "ended" /\ cleaned' = TRUE
      BY <2>2, <1>8 DEF WaitConnector
    <3> QED
      BY <2>1, <2>2, <3>1
  <2>3. CASE connector # "gone"
    <3>1. pc' = "kill" /\ cleaned' = FALSE
      BY <2>1, <2>3, <1>8 DEF WaitConnector
    <3> QED
      BY <2>1, <3>1
  <2> QED
    BY <2>2, <2>3
<1>9. CASE KillBoth
  <2>1. Process!Gone'
    BY <1>9 DEF KillBoth, process, Process!Gone, Process!Kill
  <2> QED
    BY <1>9, <2>1 DEF KillBoth
<1>10. CASE Interrupt
  <2>1. cleaned = FALSE /\ cleaned' = cleaned
    BY <1>10 DEF Interrupt
  <2>2. pc' \in {"terminate_engine", "ended"}
    BY <1>10 DEF Interrupt
  <2>3. connector' \in {"none", "running", "ending", "gone"}
    BY <1>10 DEF Interrupt
  <2> QED
    BY <2>1, <2>2, <2>3
<1>11. CASE EngineRuns \/ EngineFails
  BY <1>11, GoneForGood DEF EngineRuns, EngineFails
<1>12. CASE ConnectorEnds \/ ConnectorFails
  BY <1>12 DEF ConnectorEnds, ConnectorFails, process, Process!Gone
<1>13. CASE UNCHANGED vars
  BY <1>13 DEF vars, process, Process!Gone
<1> QED
  BY <1>1, <1>2, <1>3, <1>4, <1>5, <1>6, <1>7, <1>8, <1>9, <1>10, <1>11, <1>12, <1>13
  DEF Next, Harness

(* When the clean-up has run to its end both children have ended: those that *)
(* were waited for, and those that were killed because they would not end.   *)
THEOREM CleanUpIsComplete == Spec => []NothingOutlivesCleanUp
<1>1. IInv => NothingOutlivesCleanUp
  BY DEF IInv, NothingOutlivesCleanUp
<1> QED
  BY <1>1, InitIInv, StepIInv, PTL DEF Spec
=============================================================================
