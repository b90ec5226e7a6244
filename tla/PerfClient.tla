----------------------------- MODULE PerfClient -----------------------------
(* scripts/perf_test.py: one task sends orders on /ws/orders, another counts *)
(* the answers, and a semaphore keeps the unanswered ones within a window.   *)
(* The engine answers the orders of a connection one by one, in order, which *)
(* is what ApiServer shows of it; so orders and answers under way are        *)
(* numbers, and the next answer is to the first order that has none.         *)
EXTENDS Integers

CONSTANTS
  NumOrders,   \* 5000 in the script
  Window       \* the permits of the semaphore, 100

ASSUME SizeAssumption == NumOrders \in Nat /\ Window \in Nat \ {0}

VARIABLES
  send_task,   \* "acquire", "send", "done", or "failed" by an exception
  recv_task,   \* "recv", "done" or "failed"
  benchmark,   \* "await_send", "await_recv", "reported" or "failed"
  connected,
  permits,     \* what is left of the semaphore
  timed,       \* orders whose time of sending is recorded: the first so many
  sent,        \* orders given to the connection
  orders,      \* orders the engine has not executed
  answers,     \* answers the receiver has not read
  confirmations, success_count,
  latencies    \* answers whose round trip was measured

tasks == <<send_task, recv_task, benchmark>>
tally == <<confirmations, success_count, latencies>>
vars  == <<tasks, connected, permits, timed, sent, orders, answers, tally>>

Init ==
  /\ send_task = "acquire" /\ recv_task = "recv" /\ benchmark = "await_send"
  /\ connected = TRUE
  /\ permits = Window
  /\ timed = 0 /\ sent = 0 /\ orders = 0 /\ answers = 0
  /\ confirmations = 0 /\ success_count = 0 /\ latencies = 0

Ended == benchmark \in {"reported", "failed"}

-----------------------------------------------------------------------------
(* send_orders *)

(* Fault: the time is recorded when the send has returned. *)
AcquireUntimed ==
  /\ ~ Ended /\ send_task = "acquire" /\ sent < NumOrders /\ permits > 0
  /\ permits' = permits - 1
  /\ send_task' = "send"
  /\ timed' = sent
  /\ UNCHANGED <<recv_task, benchmark, connected, sent, orders, answers, tally>>

Acquire ==
  /\ ~ Ended /\ send_task = "acquire" /\ sent < NumOrders /\ permits > 0
  /\ permits' = permits - 1
  /\ send_task' = "send"
  /\ timed' = sent + 1
  /\ UNCHANGED <<recv_task, benchmark, connected, sent, orders, answers, tally>>

(* Sending on a lost connection raises. *)
Send ==
  /\ ~ Ended /\ send_task = "send"
  /\ IF connected
     THEN send_task' = "acquire" /\ sent' = sent + 1 /\ orders' = orders + 1
     ELSE send_task' = "failed" /\ UNCHANGED <<sent, orders>>
  /\ UNCHANGED <<recv_task, benchmark, connected, permits, timed, answers, tally>>

SendersEnd ==
  /\ ~ Ended /\ send_task = "acquire" /\ sent = NumOrders
  /\ send_task' = "done"
  /\ UNCHANGED <<recv_task, benchmark, connected, permits, timed, sent, orders, answers, tally>>

(* receive_confirmations *)

(* Fault: only a success gives its permit back. *)
ReleaseOnSuccess(status) == IF status = "success" THEN permits + 1 ELSE permits

(* Every confirmation gives a permit back. *)
Released(status) == permits + 1

(* An answer that reports an exception names no order. *)
Receive ==
  /\ ~ Ended /\ recv_task = "recv" /\ confirmations < NumOrders /\ answers > 0
  /\ \E status \in {"success", "error"} :
       /\ answers' = answers - 1
       /\ confirmations' = confirmations + 1
       /\ permits' = Released(status)
       /\ success_count' = IF status = "success" THEN success_count + 1 ELSE success_count
       /\ latencies' = IF status = "success" /\ confirmations < timed
                       THEN latencies + 1 ELSE latencies
  /\ UNCHANGED <<tasks, connected, timed, sent, orders>>

(* What has arrived is still read after the connection is lost. *)
ReceiverEnds ==
  /\ ~ Ended /\ recv_task = "recv"
  /\ \/ confirmations = NumOrders /\ recv_task' = "done"
     \/ confirmations < NumOrders /\ answers = 0 /\ ~ connected /\ recv_task' = "failed"
  /\ UNCHANGED <<send_task, benchmark, connected, permits, timed, sent, orders, answers, tally>>

(* run_benchmark waits for the sender first, and for the receiver then. *)
Await ==
  /\ \/ /\ benchmark = "await_send"
        /\ \/ send_task = "done" /\ benchmark' = "await_recv"
           \/ send_task = "failed" /\ benchmark' = "failed"
     \/ /\ benchmark = "await_recv"
        /\ \/ recv_task = "done" /\ benchmark' = "reported"
           \/ recv_task = "failed" /\ benchmark' = "failed"
  /\ UNCHANGED <<send_task, recv_task, connected, permits, timed, sent, orders, answers, tally>>

-----------------------------------------------------------------------------
(* The engine and the connection *)

Answer ==
  /\ connected /\ orders > 0
  /\ orders' = orders - 1
  /\ answers' = answers + 1
  /\ UNCHANGED <<tasks, connected, permits, timed, sent, tally>>

Lose ==
  /\ connected
  /\ connected' = FALSE
  /\ orders' = 0
  /\ answers' \in 0 .. answers
  /\ UNCHANGED <<tasks, permits, timed, sent, tally>>

Client == Acquire \/ Send \/ SendersEnd \/ Receive \/ ReceiverEnds \/ Await

Next == Client \/ Answer \/ Lose

Spec == Init /\ [][Next]_vars

(* Each task runs when it can; the engine answers while it is connected. *)
FairSpec ==
  /\ Spec
  /\ WF_vars(Acquire \/ Send \/ SendersEnd)
  /\ WF_vars(Receive \/ ReceiverEnds)
  /\ WF_vars(Await)
  /\ WF_vars(Answer)

-----------------------------------------------------------------------------
(* What the benchmark promises *)

(* Orders that hold a permit: acquired, and not confirmed. *)
Unconfirmed == sent + (IF send_task \in {"send", "failed"} THEN 1 ELSE 0) - confirmations

(* The variables keep their types, and nothing under way is made up.         *)
TypeOK ==
  /\ send_task \in {"acquire", "send", "done", "failed"}
  /\ recv_task \in {"recv", "done", "failed"}
  /\ benchmark \in {"await_send", "await_recv", "reported", "failed"}
  /\ connected \in BOOLEAN
  /\ permits \in Int /\ timed \in Nat /\ sent \in 0 .. NumOrders
  /\ orders \in Nat /\ answers \in Nat
  /\ confirmations \in Nat /\ success_count \in 0 .. confirmations /\ latencies \in Nat
  /\ confirmations + answers + orders <= sent
  /\ send_task \in {"send", "failed"} => sent < NumOrders

(* No permit is lost or made: the window is what is unconfirmed and what is  *)
(* left, through errors and the loss of the connection, and never overrun.   *)
WindowIsKept == permits >= 0 /\ permits + Unconfirmed = Window

(* The benchmark reports or fails, unless the sender waits for a permit that *)
(* a receiver ended by the loss of the connection will never give back.      *)
Stuck ==
  recv_task = "failed" /\ send_task = "acquire" /\ sent < NumOrders /\ permits = 0

EndsUnlessStuck == <>(Ended \/ Stuck)

(* A report is complete: it counts every order once, and every answer that   *)
(* names its order was measured, its time of sending having been recorded    *)
(* before the answer could come.                                             *)
ReportIsComplete ==
  benchmark = "reported" =>
    /\ sent = NumOrders /\ confirmations = NumOrders /\ permits = Window
    /\ latencies = success_count
=============================================================================
