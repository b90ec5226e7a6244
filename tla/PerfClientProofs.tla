-------------------------- MODULE PerfClientProofs --------------------------
(* The window of PerfClient, for any number of orders and any window.        *)
EXTENDS PerfClient, TLAPS

(* The sender is done only when everything is sent, and each task ends as    *)
(* the benchmark says.                                                       *)
Stage ==
  /\ send_task = "done" => sent = NumOrders
  /\ recv_task = "done" => confirmations = NumOrders
  /\ benchmark \in {"await_recv", "reported"} => send_task = "done"
  /\ benchmark = "reported" => recv_task = "done"

(* What is timed is what has had a permit. *)
Timed == timed = sent + (IF send_task \in {"send", "failed"} THEN 1 ELSE 0)

(* An answer to an order that is timed is measured, if it is a success. *)
ConfirmationsAreTimed == latencies = success_count

IInv == TypeOK /\ WindowIsKept /\ Timed /\ ConfirmationsAreTimed /\ Stage

(* Initially nothing is under way and every permit is free. *)
LEMMA InitIInv == Init => IInv
BY SizeAssumption
DEF Init, IInv, TypeOK, WindowIsKept, Timed, ConfirmationsAreTimed, Stage, Unconfirmed

(* Every step of the sender, the receiver, the engine and the connection     *)
(* keeps the accounts.                                                       *)
LEMMA StepIInv == IInv /\ [Next]_vars => IInv'
<1> SUFFICES ASSUME IInv, [Next]_vars PROVE IInv'
  OBVIOUS
<1> USE SizeAssumption
    DEF IInv, TypeOK, WindowIsKept, Timed, ConfirmationsAreTimed, Stage, Unconfirmed
<1>1. CASE Acquire
  BY <1>1 DEF Acquire, tally
<1>2. CASE Send
  BY <1>2 DEF Send, tally
<1>3. CASE SendersEnd
  BY <1>3 DEF SendersEnd, tally
<1>4. CASE Receive
  BY <1>4 DEF Receive, Released, tasks, Ended
<1>5. CASE ReceiverEnds
  BY <1>5 DEF ReceiverEnds, tally, Ended
<1>6. CASE Await
  BY <1>6 DEF Await, tally
<1>7. CASE Answer
  BY <1>7 DEF Answer, tasks, tally
<1>8. CASE Lose
  <2>1. connected' \in BOOLEAN
    BY <1>8 DEF Lose
  <2>2. orders' = 0 /\ answers' \in 0 .. answers
    BY <1>8 DEF Lose
  <2>3. answers' \in Nat /\ confirmations + answers' <= sent
    <3>1. /\ confirmations \in Nat /\ answers \in Nat /\ orders \in Nat /\ sent \in Nat
          /\ confirmations + answers + orders <= sent
      OBVIOUS
    <3> HIDE DEF IInv, TypeOK, WindowIsKept, Timed, ConfirmationsAreTimed, Stage, Unconfirmed
    <3>2. PICK k \in 0 .. answers : answers' = k
      BY <2>2
    <3> QED
      BY <3>1, <3>2
  <2>4. /\ send_task' = send_task /\ recv_task' = recv_task /\ benchmark' = benchmark
        /\ permits' = permits /\ timed' = timed /\ sent' = sent
        /\ confirmations' = confirmations /\ success_count' = success_count
        /\ latencies' = latencies
    BY <1>8 DEF Lose, tasks, tally
  <2>5. TypeOK'
    <3>1. /\ send_task' \in {"acquire", "send", "done", "failed"}
          /\ recv_task' \in {"recv", "done", "failed"}
          /\ benchmark' \in {"await_send", "await_recv", "reported", "failed"}
          /\ send_task' \in {"send", "failed"} => sent' < NumOrders
      BY <2>4
    <3>2. /\ permits' \in Int /\ timed' \in Nat /\ sent' \in 0 .. NumOrders
          /\ confirmations' \in Nat /\ success_count' \in 0 .. confirmations'
          /\ latencies' \in Nat
      BY <2>4
    <3>3. orders' \in Nat /\ answers' \in Nat /\ confirmations' + answers' + orders' <= sent'
      <4>1. confirmations \in Nat /\ sent \in Nat
        OBVIOUS
      <4>2. \A c, a, s \in Nat : c + a <= s => c + a + 0 <= s
        OBVIOUS
      <4> QED
        BY <4>1, <4>2, <2>2, <2>3, <2>4, Zenon
    <3> HIDE DEF IInv, WindowIsKept, Timed, ConfirmationsAreTimed, Stage, Unconfirmed
    <3> QED
      BY <2>1, <3>1, <3>2, <3>3, Zenon
  <2>6. WindowIsKept' /\ Timed' /\ ConfirmationsAreTimed' /\ Stage'
    BY <2>4
  <2> QED
    BY <2>5, <2>6
<1>9. CASE UNCHANGED vars
  BY <1>9 DEF vars, tasks, tally
<1> QED
  BY <1>1, <1>2, <1>3, <1>4, <1>5, <1>6, <1>7, <1>8, <1>9 DEF Next, Client

(* The accounts of the benchmark are right in every state of it. *)
THEOREM Accounts == Spec => []IInv
BY InitIInv, StepIInv, PTL DEF Spec

(* No permit is ever lost or made up, so the window is never overrun. *)
THEOREM WindowAlwaysKept == Spec => []WindowIsKept
<1>1. IInv => WindowIsKept
  BY DEF IInv
<1> QED
  BY <1>1, Accounts, PTL

(* What is reported counts every order once and measures every success.      *)
THEOREM ReportsAreComplete == Spec => []ReportIsComplete
<1>1. IInv => ReportIsComplete
  BY SizeAssumption
  DEF IInv, TypeOK, WindowIsKept, ConfirmationsAreTimed, Stage, Unconfirmed, ReportIsComplete
<1> QED
  BY <1>1, Accounts, PTL
=============================================================================
