----------------------------- MODULE WorkerPod -----------------------------
(***************************************************************************)
(* The worker pod: launcher.run starts one child process per GPU, each     *)
(* running the worker loop of JobPipeline, and _supervise waits for them.  *)
(* The first child that exits, or a SIGTERM to the pod, has the others     *)
(* told to stop; when the last one is gone the pod exits and k8s starts it *)
(* again.                                                                  *)
(*                                                                         *)
(* A child told to stop before it has installed its signal handlers dies;  *)
(* afterwards its stop event is set, which main.run looks at between two   *)
(* jobs.                                                                   *)
(***************************************************************************)
EXTENDS JobPipeline

VARIABLES
    phase,     \* of launcher.run: "starting" or "supervising"
    procs,     \* the children in its list
    spawned,   \* the children whose handlers are not yet installed
    stop,      \* the children whose stop event is set
    stopping   \* _supervise's event

podVars == <<phase, procs, spawned, stop, stopping>>

is_alive(w) == w \in spawned \/ pc[w] # "down"

PodInit ==
    /\ Init
    /\ phase = "starting"
    /\ procs = {}
    /\ spawned = {}
    /\ stop = {}
    /\ stopping = FALSE
-----------------------------------------------------------------------------
(* Supervisor                                                              *)

StartChild(w) ==
    /\ phase = "starting"
    /\ w \notin procs
    /\ procs' = procs \cup {w}
    /\ spawned' = spawned \cup {w}
    /\ UNCHANGED <<vars, phase, stop, stopping>>

Supervise ==
    /\ phase = "starting"
    /\ procs = Workers
    /\ phase' = "supervising"
    /\ UNCHANGED <<vars, procs, spawned, stop, stopping>>

\* Mutant: _run_pinned without _install_signal_handlers.
terminateUnhandled(ws) ==
    /\ spawned' = spawned \ ws
    /\ pc' = [w \in Workers |-> IF w \in ws THEN "down" ELSE pc[w]]
    /\ job' = [w \in Workers |-> IF w \in ws THEN NoJob ELSE job[w]]
    /\ todo' = [w \in Workers |-> IF w \in ws THEN {} ELSE todo[w]]
    /\ seen' = [w \in Workers |-> IF w \in ws THEN {} ELSE seen[w]]
    /\ UNCHANGED stop

\* SIGTERM to the children that are alive.
terminate(ws) ==
    /\ spawned' = spawned \ ws
    /\ stop' = stop \cup {w \in ws : pc[w] # "down"}
    /\ UNCHANGED worker

\* Mutant: no _terminate_remaining.
ReapOnly(w) ==
    /\ phase = "supervising"
    /\ w \in procs /\ ~is_alive(w)
    /\ procs' = procs \ {w}
    /\ IF procs' = {} THEN phase' = "starting" /\ stopping' = FALSE
                      ELSE stopping' = TRUE /\ UNCHANGED phase
    /\ UNCHANGED <<vars, spawned, stop>>

\* join() finds a child gone.  The first one to go takes the others along;
\* after the last one the pod exits and is started again.
Reap(w) ==
    /\ phase = "supervising"
    /\ w \in procs /\ ~is_alive(w)
    /\ procs' = procs \ {w}
    /\ terminate(IF stopping THEN {} ELSE procs \ {w})
    /\ IF procs' = {} THEN phase' = "starting" /\ stopping' = FALSE
                      ELSE stopping' = TRUE /\ UNCHANGED phase
    /\ UNCHANGED <<rows, lists, hash, uploaded, api, mishaps>>

\* k8s stops the pod.
Sigterm ==
    /\ phase = "supervising"
    /\ Mishap
    /\ stopping' = TRUE
    /\ terminate(procs)
    /\ UNCHANGED <<rows, lists, hash, uploaded, api, phase, procs>>

\* The node fails, the pod's grace period ends before its jobs do, or it is
\* signalled before the supervisor has installed its handlers.
PodKill ==
    /\ \A w \in Workers : pc[w] \in CrashPoints \cup {"down"}
    /\ procs # {}
    /\ Mishap
    /\ pc' = [w \in Workers |-> "down"]
    /\ job' = [w \in Workers |-> NoJob]
    /\ todo' = [w \in Workers |-> {}]
    /\ seen' = [w \in Workers |-> {}]
    /\ phase' = "starting" /\ stopping' = FALSE
    /\ procs' = {} /\ spawned' = {} /\ stop' = {}
    /\ UNCHANGED <<rows, lists, hash, uploaded, api>>
-----------------------------------------------------------------------------
(* Children                                                                *)

\* _run_pinned installs the handlers and enters main.run.
RunPinned(w) ==
    /\ w \in spawned
    /\ Boot(w)
    /\ spawned' = spawned \ {w}
    /\ UNCHANGED <<phase, procs, stop, stopping>>

ChildWork(w) ==
    /\ pc[w] = "loop" => w \notin stop
    /\ Work(w)
    /\ UNCHANGED podVars

ChildReconcile(w) == Reconcile(w) /\ UNCHANGED podVars

\* The loop ends at the next test of the event.
ChildExit(w) ==
    /\ w \in stop
    /\ LoopExit(w)
    /\ stop' = stop \ {w}
    /\ UNCHANGED <<mishaps, phase, procs, spawned, stopping>>

\* An exception leaves main.run, or the child dies.
ChildDies(w) ==
    /\ Crash(w)
    /\ stop' = stop \ {w}
    /\ UNCHANGED <<phase, procs, spawned, stopping>>
-----------------------------------------------------------------------------
Supervisor == Supervise \/ \E w \in Workers : StartChild(w) \/ Reap(w)

PodNext ==
    \/ \E j \in Jobs : /\ \/ CreateJob(j) \/ CancelLock(j) \/ Handler(j)
                          \/ EnqueueError(j) \/ CreateDrop(j) \/ CancelDrop(j)
                          \/ Age(j) \/ Expire(j)
                       /\ UNCHANGED podVars
    \/ \E w \in Workers : \/ RunPinned(w) \/ ChildWork(w)
                          \/ ChildReconcile(w)
                          \/ ChildExit(w) \/ ChildDies(w)
                          \/ Raise(w) /\ UNCHANGED podVars
    \/ Supervisor \/ Sigterm \/ PodKill

all == <<vars, podVars>>

\* As in JobPipeline, with the supervisor and k8s in the place of a restart
\* of each worker.
PodFairness ==
    /\ WF_all(Supervisor)
    /\ \A j \in Jobs : /\ WF_all(Handler(j) /\ UNCHANGED podVars)
                        /\ WF_all(Age(j) /\ UNCHANGED podVars)
    /\ \A w \in Workers :
          /\ WF_all(RunPinned(w)) /\ WF_all(ChildWork(w))
          /\ WF_all(ChildExit(w)) /\ WF_all(ChildReconcile(w))
          /\ SF_all(TickReconcile(w) /\ UNCHANGED podVars)
          /\ SF_all(PublishHeartbeat(w) /\ pc'[w] = "upload"
                      /\ UNCHANGED podVars)

PodSpec == PodInit /\ [][PodNext]_all /\ PodFairness
-----------------------------------------------------------------------------
(* Properties                                                              *)

\* Stopping the pod never cuts a job short: a child leaves its loop with a
\* job in hand only if the process itself is killed ("shutting down after
\* current job", launcher.py), not because a sibling exited or the pod was
\* told to stop.
StopFinishesJob ==
    [][\A w \in Workers :
          job[w] # NoJob /\ pc'[w] = "down"
              => mishaps' > mishaps /\ (stopping' => stopping)]_all

\* "If any child exits, the rest are terminated so the pod stops as a unit"
\* (launcher.py): a dead child is followed by a restart of the whole pod,
\* once the jobs in hand are done.
StopsAsUnit ==
    \A w \in Workers : phase = "supervising" /\ ~is_alive(w)
                         ~> phase = "starting"
=============================================================================
