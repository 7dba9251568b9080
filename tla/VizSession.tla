----------------------------- MODULE VizSession -----------------------------
(***************************************************************************)
(* The session between the visualisation threads of the tasks and the      *)
(* stand-alone server of rundir.  Each task's thread connects, then makes  *)
(* a report with the threads of all other tasks and waits for a message of *)
(* the server, over and over.  The server greets the clients in the order  *)
(* it accepted them.  MPI_Finalize (here with -z, so without a report of   *)
(* its own) closes the table of the task, which is not modelled here, and  *)
(* joins the thread.                                                       *)
(*                                                                         *)
(* TCP keeps the order of the messages but not their limits: one recv may  *)
(* return several.  Times of sleep are left out.                           *)
(***************************************************************************)
EXTENDS Integers, Sequences, FiniteSets

CONSTANTS Rank,       \* the tasks, one client each: numps of them
          Capacity    \* bound: messages a socket holds before send blocks

ASSUME SessionAssumption == IsFiniteSet(Rank) /\ Capacity \in Nat \ {0}

VARIABLES
  server,   \* what the server does
  iter,     \* its loop variable, counted from 1
  flag1,    \* it has received "End"
  flag2,    \* it has sent "Byebye"
  clients,  \* visItsockfd: the tasks in the order of accept
  sock,     \* messages on the way to each task
  viz,      \* where the thread of each task is
  round,    \* reports of each thread, modulo 3
  main      \* where the program of each task is

serverVars == <<server, iter, flag1, flag2, clients>>
taskVars == <<viz, round, main>>
vars == <<serverVars, sock, taskVars>>

Init ==
  /\ server = "accept"
  /\ iter = 1
  /\ flag1 = FALSE /\ flag2 = FALSE
  /\ clients = <<>>
  /\ sock = [r \in Rank |-> <<>>]
  /\ viz = [r \in Rank |-> "connect"]
  /\ round = [r \in Rank |-> 0]
  /\ main = [r \in Rank |-> "run"]

-----------------------------------------------------------------------------
\* initConn connects and the server accepts, numps times.
Connect(r) ==
  /\ viz[r] = "connect"
  /\ server = "accept"
  /\ clients' = Append(clients, r)
  /\ server' = IF Len(clients') = Cardinality(Rank) THEN "send" ELSE "accept"
  /\ viz' = [viz EXCEPT ![r] = "sleep"]
  /\ UNCHANGED <<iter, flag1, flag2, sock, round, main>>

\* Mutants: the loop ends one client early, and one late.
LastIterEarly == Cardinality(Rank) - 1
LastIterLate  == Cardinality(Rank) + 1

LastIter == Cardinality(Rank)

\* One pass of the server's inner loop.  It reads from the client only behind
\* flag1, so what it compares with "End" is the text it has just sent.
ServerSend ==
  LET to   == clients[iter]
      text == IF flag1 THEN "Byebye" ELSE "Hello"
  IN
  /\ server = "send"
  /\ Len(sock[to]) < Capacity
  /\ sock' = [sock EXCEPT ![to] = Append(@, text)]
  /\ flag2' = (flag2 \/ flag1)
  /\ flag1' = (flag1 \/ text = "End")
  /\ IF iter = LastIter \/ text = "End"
     THEN server' = "wait" /\ iter' = 1
     ELSE server' = "send" /\ iter' = iter + 1
  /\ UNCHANGED <<clients, taskVars>>

\* The end of a pass of the outer loop: close all, or sleep and go on.
ServerWait ==
  /\ server = "wait"
  /\ server' = IF flag2 THEN "closed" ELSE "send"
  /\ UNCHANGED <<iter, flag1, flag2, clients, sock, taskVars>>

-----------------------------------------------------------------------------
\* sim_msg_handler: the thread starts its next report.
StartReport(r) ==
  /\ viz[r] = "sleep"
  /\ viz' = [viz EXCEPT ![r] = "report"]
  /\ round' = [round EXCEPT ![r] = (@ + 1) % 3]
  /\ UNCHANGED <<serverVars, sock, main>>

\* The collectives of the report have the calls of all tasks.
AllInReport(r) == \A s \in Rank : round[s] \in {round[r], (round[r] + 1) % 3}

EndReport(r) ==
  /\ viz[r] = "report"
  /\ AllInReport(r)
  /\ viz' = [viz EXCEPT ![r] = "recv"]
  /\ UNCHANGED <<serverVars, sock, round, main>>

\* recv returns the first k messages in one buffer; only the beginning of the
\* buffer is compared with "Byebye".
Receive(r) ==
  /\ viz[r] = "recv"
  /\ \E k \in 1 .. Len(sock[r]) :
       sock' = [sock EXCEPT ![r] = SubSeq(@, k + 1, Len(@))]
  /\ viz' = [viz EXCEPT ![r] = IF Head(sock[r]) = "Byebye" THEN "exited" ELSE "sleep"]
  /\ UNCHANGED <<serverVars, round, main>>

\* mpiPi_finalize comes to pthread_join, after h_close of the task's table.
Finalize(r) ==
  /\ main[r] = "run"
  /\ main' = [main EXCEPT ![r] = "join"]
  /\ UNCHANGED <<serverVars, sock, viz, round>>

-----------------------------------------------------------------------------
Server == ServerSend \/ ServerWait
Thread(r) == Connect(r) \/ StartReport(r) \/ EndReport(r) \/ Receive(r)

Next == Server \/ \E r \in Rank : Thread(r) \/ Finalize(r)

Spec == Init /\ [][Next]_vars

\* Server and threads are processes and threads of their own that run whenever
\* they can; every program comes to its MPI_Finalize.
Fairness == WF_vars(Server) /\ \A r \in Rank : WF_vars(Thread(r)) /\ WF_vars(Finalize(r))

FairSpec == Spec /\ Fairness

-----------------------------------------------------------------------------
\* Every variable has its type.
TypeOK ==
  /\ server \in {"accept", "send", "wait", "closed"}
  /\ iter \in 1 .. Cardinality(Rank)
  /\ flag1 \in BOOLEAN /\ flag2 \in BOOLEAN
  /\ clients \in Seq(Rank) /\ Len(clients) <= Cardinality(Rank)
  /\ \A r \in Rank : sock[r] \in Seq({"Hello", "Byebye"}) /\ Len(sock[r]) <= Capacity
  /\ viz \in [Rank -> {"connect", "sleep", "report", "recv", "exited"}]
  /\ round \in [Rank -> 0 .. 2]
  /\ main \in [Rank -> {"run", "join"}]

\* The server's greetings and the collective reports keep each other going: a
\* thread that waits for the server gets to its next report.
ReportsGoOn == \A r \in Rank : viz[r] = "recv" ~> viz[r] = "report"

=============================================================================
