--------------------------- MODULE EngineProcess ----------------------------
(* The process of the engine: main of src/main.cpp, and the thread on which  *)
(* ApiServer runs every handler, from start to stop.                         *)

VARIABLES
  main,        \* where main stands
  io_thread,   \* server_thread_
  g_running,   \* no signal has been handled
  stopped      \* server_.stop() has been called

process == <<main, io_thread, g_running, stopped>>

Gone    == main \in {"none", "killed", "aborted", "done"}
Serving == io_thread = "running"

NotStarted ==
  /\ main = "none"
  /\ io_thread = "none"
  /\ g_running = TRUE
  /\ stopped = FALSE

Boot ==
  /\ main = "none"
  /\ main' = "loading"
  /\ UNCHANGED <<io_thread, g_running, stopped>>

InstallHandlers ==
  /\ main = "loading"
  /\ main' = "starting"
  /\ UNCHANGED <<io_thread, g_running, stopped>>

(* SIGINT or SIGTERM: deadly until main has installed its handler. *)
Signal ==
  /\ ~ Gone
  /\ IF main = "loading"
     THEN main' = "killed" /\ UNCHANGED g_running
     ELSE g_running' = FALSE /\ UNCHANGED main
  /\ UNCHANGED <<io_thread, stopped>>

(* SIGKILL: nothing is left of the process. *)
Kill ==
  /\ ~ Gone
  /\ main' = "killed"
  /\ io_thread' = "none"
  /\ UNCHANGED <<g_running, stopped>>

(* listen may throw, the port being taken: nobody catches it. *)
start ==
  /\ main = "starting"
  /\ \/ main' = "waiting" /\ io_thread' = "running"
     \/ main' = "aborted" /\ UNCHANGED io_thread
  /\ UNCHANGED <<g_running, stopped>>

(* An exception that leaves a handler leaves run() too.  The thread logs it  *)
(* and ends; main is not told.                                               *)
HandlerThrows ==
  /\ Serving
  /\ io_thread' = "ended"
  /\ UNCHANGED <<main, g_running, stopped>>

(* Fault: the thread is joined without being asked to return. *)
JoinOnly ==
  /\ main = "waiting"
  /\ ~ g_running
  /\ main' = "joining"
  /\ UNCHANGED <<io_thread, g_running, stopped>>

(* The loop of main sees the flag. *)
stop ==
  /\ main = "waiting"
  /\ ~ g_running
  /\ stopped' = TRUE
  /\ main' = "joining"
  /\ UNCHANGED <<io_thread, g_running>>

RunReturns ==
  /\ Serving
  /\ stopped
  /\ io_thread' = "ended"
  /\ UNCHANGED <<main, g_running, stopped>>

Join ==
  /\ main = "joining"
  /\ io_thread = "ended"
  /\ io_thread' = "joined"
  /\ main' = "done"
  /\ UNCHANGED <<g_running, stopped>>

(* What the process does by itself. *)
Run == InstallHandlers \/ start \/ stop \/ RunReturns \/ Join

(* An engine that has been asked to end does, whether the thread that serves *)
(* its clients still runs or has been ended by an exception.                 *)
SignalEndsProcess == ~ g_running ~> Gone
=============================================================================
