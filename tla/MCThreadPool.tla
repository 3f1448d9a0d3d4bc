--------------------------- MODULE MCThreadPool ---------------------------
(* Small instances of ThreadPool for TLC.  "usage" is chosen once per behaviour
   and restricts what the clients call: "any" call at any time; "stopping" pools,
   whose target is only ever lowered, so that nobody refills a pool that is being
   shut down; "orderly" pools, which nobody refills or shuts down once more while a
   shutdown() goes on; "growing" pools, started first and never reduced; "joining"
   ones, which grow and where one client at a time sleeps in join().               *)
EXTENDS ThreadPool, TLC

CONSTANTS
  w1, w2, w3, c1, c2, t1, t2, t3,
  Usages           \* the usages of a run

VARIABLE usage

MCWorkers2   == {w1, w2}
MCWorkers3   == {w1, w2, w3}
MCClients1   == {c1}
MCClients2   == {c1, c2}
MCTasks      == {t1, t2}
MCTasks3     == {t1, t2, t3}
MCSizes      == 0 .. 2
MCTimeouts   == {TRUE, FALSE}
MCSymmetry   == Permutations(MCWorkers3) \cup Permutations(MCTasks3) \cup Permutations(MCClients2)

allVars == <<vars, usage>>

Grows  == /\ itsTargetWorkerCount' >= itsTargetWorkerCount
          /\ itsIsRunning' \/ itsWorkerCount' = 0
Lowers == itsTargetWorkerCount' <= itsTargetWorkerCount

ShuttingDown == {c \in Clients : cpc[c] \in {"deathWait", "deathWoken", "interrupting"}}

Allowed ==
  /\ usage = "stopping" => Lowers
  /\ usage = "orderly" =>
       /\ ShuttingDown # {} => Lowers
       /\ Cardinality(ShuttingDown') <= 1
  /\ usage \in {"growing", "joining"} => Grows
  /\ usage = "joining" => Cardinality({c \in Clients : cpc'[c] = "joinWait"}) <= 1

MCInit == Init /\ usage \in Usages
MCNext == Next /\ Allowed /\ UNCHANGED usage
MCSpec == MCInit /\ [][MCNext]_allVars

(* Clients outside an operation are free to call nothing: restricting their
   calls restricts nothing the fairness of ThreadPool speaks of.            *)
MCFairSpec == MCSpec /\ Fairness

JoinEnds(kind) ==
  NoMoreCalls =>
    \A c \in Clients : (usage = kind /\ cpc[c] = "joinWait") ~> (cpc[c] = "idle")

(* In a pool that is never reduced, one client in join() returns once the others have
   stopped adding tasks, whatever they scheduled and resized while it slept: the last
   worker to go idle finds it (ThreadPool.h:484-495, 515-521).                        *)
GrowingJoinEnds == JoinEnds("joining")

(* join(): "Wait until all queued tasks are finished" (ThreadPool.h:480).  Every client
   that waits there returns when they are, however many of them wait.                *)
EveryJoinEnds == JoinEnds("growing")

(* A shutdown() ends that is not disturbed by another one or by a resize() to more
   workers, while others schedule, join, resize and set its grace: every worker's death
   reaches the wait.  (A thread lost to an interruption stays counted for ever.)       *)
ShutdownEnds ==
  \A c \in Clients :
    (/\ usage = "orderly"
     /\ cpc[c] \in {"deathWait", "interrupting"}
     /\ In("lost") = {}) ~> (cpc[c] = "idle")

(* ReturnsWithoutThreads while nobody refills the pool that is shut down. *)
StoppingLeavesNoThread == [][usage = "stopping" => ReturnsWithoutThreads]_allVars
=============================================================================
