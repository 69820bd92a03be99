------------------------------ MODULE FcfsServer ------------------------------
(***************************************************************************)
(* What the serving simulator promises: a single server that works through *)
(* its jobs first come, first served, without preemption, without idling   *)
(* while a job waits, each job for exactly its service time.  There are no *)
(* events, no scheduler and no phases here, only jobs and the time.        *)
(***************************************************************************)
EXTENDS Integers

CONSTANTS
  Jobs,  \* natural numbers: ties between arrivals go by number
  None   \* not a number

VARIABLES
  now,
  jobs   \* per job: None, or its status and its times

vars == <<now, jobs>>

Job == [ status : {"waiting", "served", "done", "cancelled"},
         arrival : Nat, service : Nat,
         start : Nat \cup {None}, end : Nat \cup {None} ]

InStatus(js, status) == {j \in Jobs : js[j] # None /\ js[j].status = status}
Arrived(js) == {j \in InStatus(js, "waiting") : js[j].arrival <= now}

Changed(js, j, job) == [k \in Jobs |-> IF k = j THEN job ELSE js[k]]

\* j comes before every other job in W.
IsFirst(js, j, W) ==
  \A k \in W \ {j} : \/ js[j].arrival < js[k].arrival
                     \/ js[j].arrival = js[k].arrival /\ j < k

\* The server, idle, takes up the first of the jobs that have arrived.
StartedFrom(js) ==
  {Changed(js, j, [js[j] EXCEPT !.status = "served", !.start = now]) :
     j \in {k \in Arrived(js) : InStatus(js, "served") = {} /\ IsFirst(js, k, Arrived(js))}}

-----------------------------------------------------------------------------

Init == now = 0 /\ jobs = [j \in Jobs |-> None]

\* A new job, with any arrival from now on and any service time.
Submit(j) ==
  /\ jobs[j] = None
  /\ jobs'[j] \in Job
  /\ jobs'[j].status = "waiting" /\ jobs'[j].arrival >= now
  /\ jobs'[j].start = None /\ jobs'[j].end = None
  /\ jobs' = Changed(jobs, j, jobs'[j])
  /\ UNCHANGED now

\* Time passes unless a service is due to end or an idle server has a job.
Advance ==
  /\ now' \in Nat /\ now' >= now
  /\ \A j \in InStatus(jobs, "served") : now' <= jobs[j].start + jobs[j].service
  /\ InStatus(jobs, "served") = {} =>
       \A j \in InStatus(jobs, "waiting") : now' <= jobs[j].arrival
  /\ UNCHANGED jobs

Start ==
  /\ jobs' \in StartedFrom(jobs)
  /\ UNCHANGED now

Complete(j) ==
  /\ j \in InStatus(jobs, "served")
  /\ now = jobs[j].start + jobs[j].service
  /\ jobs' = Changed(jobs, j, [jobs[j] EXCEPT !.status = "done", !.end = now])
  /\ UNCHANGED now

\* A job may be withdrawn at any time; the server may turn to the next at once.
Cancel(j) ==
  /\ j \in InStatus(jobs, "waiting") \cup InStatus(jobs, "served")
  /\ LET withdrawn == Changed(jobs, j, [jobs[j] EXCEPT !.status = "cancelled", !.end = now])
     IN  jobs' \in {withdrawn} \cup StartedFrom(withdrawn)
  /\ UNCHANGED now

Next ==
  \/ \E j \in Jobs : Submit(j) \/ Complete(j) \/ Cancel(j)
  \/ Advance
  \/ Start

Spec == Init /\ [][Next]_vars
=============================================================================
