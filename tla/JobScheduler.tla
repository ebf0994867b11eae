---------------------------- MODULE JobScheduler ----------------------------
(***************************************************************************)
(* The scheduler of periodic jobs: the threads that call it (Scheduler,    *)
(* SchedulerImpl), and the timer thread of every job (Timer, TimerThread). *)
(*                                                                         *)
(* A job (ScheduleOP) owns its timer, and the timer's callback_ holds a    *)
(* reference to the job until the timer thread resets it; a job is         *)
(* destroyed with the last reference to it.  Time passes at any speed: a   *)
(* timer may fire whenever it waits.  The callback is any work that ends   *)
(* and that does not call the scheduler.                                   *)
(***************************************************************************)
EXTENDS Naturals, FiniteSets

CONSTANTS
  Names,     \* names of jobs
  Clients,   \* threads that call the scheduler
  Removals,  \* how they remove jobs: removeJob() that waits ("wait"), one that
             \* does not ("nowait", the default), removeAllJobs() ("all")
  MaxJobs    \* bound: jobs that are added

None == 0
Jobs == 1..MaxJobs

ASSUME SchedulerAssumption ==
  /\ MaxJobs \in Nat /\ None \notin Clients
  /\ Removals \subseteq {"wait", "nowait", "all"}

VARIABLES
  \* SchedulerImpl
  jobs,        \* jobs_
  mutex,       \* who holds mutex_
  \* ScheduleOP
  running, immediatly,
  \* TimerThread
  periodic,    \* interval_ is not 0
  stop,        \* stop_
  callback,    \* whether callback_ still refers to the job
  tpc,         \* where the timer thread is
  \* the callers: where they are, the job they refer to, and whether to wait
  cpc, job, wait,
  waited,      \* history: removeJob() has waited for the job
  added        \* bound: number of jobs added

opVars == <<running, immediatly>>
timerVars == <<periodic, stop, callback, tpc>>
clientVars == <<cpc, job, wait>>
vars == <<jobs, mutex, opVars, timerVars, clientVars, waited, added>>

Init ==
  /\ jobs = [n \in Names |-> None] /\ mutex = None
  /\ running = [j \in Jobs |-> FALSE] /\ immediatly = [j \in Jobs |-> FALSE]
  /\ periodic = [j \in Jobs |-> FALSE] /\ stop = [j \in Jobs |-> FALSE]
  /\ callback = [j \in Jobs |-> FALSE] /\ tpc = [j \in Jobs |-> "none"]
  /\ cpc = [c \in Clients |-> "idle"] /\ job = [c \in Clients |-> None]
  /\ wait = [c \in Clients |-> FALSE]
  /\ waited = {} /\ added = 0

Busy(j) == running[j] \/ immediatly[j]
Referred(j) == \/ \E n \in Names : jobs[n] = j
               \/ \E c \in Clients : job[c] = j

-----------------------------------------------------------------------------
(***************************************************************************)
(* The callers                                                             *)
(***************************************************************************)
Client(c, from, to) == cpc[c] = from /\ cpc' = [cpc EXCEPT ![c] = to]
Return(c) == job' = [job EXCEPT ![c] = None]

addJob(c, n) ==
  /\ cpc[c] = "idle" /\ mutex = None
  /\ jobs[n] = None /\ added < MaxJobs
  /\ added' = added + 1
  /\ jobs' = [jobs EXCEPT ![n] = added']
  /\ \E p \in BOOLEAN : periodic' = [periodic EXCEPT ![added'] = p]
  /\ callback' = [callback EXCEPT ![added'] = TRUE]
  /\ tpc' = [tpc EXCEPT ![added'] = "due"]
  /\ UNCHANGED <<mutex, opVars, stop, clientVars, waited>>

(* runJobImmediatly() looks the job up; it waits for a while as long as    *)
(* the job is running, and gives up.                                       *)
runJobImmediatly(c, n) ==
  /\ mutex = None /\ jobs[n] # None
  /\ Client(c, "idle", "look")
  /\ job' = [job EXCEPT ![c] = jobs[n]]
  /\ UNCHANGED <<jobs, mutex, opVars, timerVars, wait, waited, added>>

Look(c) ==
  /\ Client(c, "look", "enter")
  /\ ~Busy(job[c])
  /\ UNCHANGED <<jobs, mutex, opVars, timerVars, job, wait, waited, added>>

GiveUp(c) ==
  /\ Client(c, "look", "idle") /\ Return(c)
  /\ Busy(job[c])
  /\ UNCHANGED <<jobs, mutex, opVars, timerVars, wait, waited, added>>

(* Faulty variant: what was seen without the lock is relied on.            *)
EnterUnchecked(c) ==
  /\ Client(c, "enter", "running")
  /\ immediatly' = [immediatly EXCEPT ![job[c]] = TRUE]
  /\ UNCHANGED <<jobs, mutex, running, timerVars, job, wait, waited, added>>

(* With jobmutex the job is looked at again.                               *)
Enter(c) ==
  /\ \/ /\ Client(c, "enter", "idle") /\ Return(c)
        /\ Busy(job[c]) /\ UNCHANGED immediatly
     \/ /\ Client(c, "enter", "running") /\ UNCHANGED job
        /\ ~Busy(job[c])
        /\ immediatly' = [immediatly EXCEPT ![job[c]] = TRUE]
  /\ UNCHANGED <<jobs, mutex, running, timerVars, wait, waited, added>>

(* The thread that runs the callback is joined.                            *)
Leave(c) ==
  /\ Client(c, "running", "idle") /\ Return(c)
  /\ immediatly' = [immediatly EXCEPT ![job[c]] = FALSE]
  /\ UNCHANGED <<jobs, mutex, running, timerVars, wait, waited, added>>

(* Timer::stop() needs TimerThread::mutex_, which a timer thread that has  *)
(* locked itself out ("stuck") never releases.                             *)
removeJob(c, n) ==
  /\ mutex = None /\ jobs[n] # None
  /\ mutex' = c
  /\ Client(c, "idle", "stop")
  /\ job' = [job EXCEPT ![c] = jobs[n]]
  /\ \E w \in Removals \ {"all"} : wait' = [wait EXCEPT ![c] = (w = "wait")]
  /\ UNCHANGED <<jobs, opVars, timerVars, waited, added>>

(* Faulty variant: the thread is joined without being told to stop.        *)
StopUntold(c) ==
  /\ Client(c, "stop", IF wait[c] THEN "join" ELSE "erase")
  /\ tpc[job[c]] # "stuck"
  /\ stop' = IF wait[c] THEN stop ELSE [stop EXCEPT ![job[c]] = TRUE]
  /\ UNCHANGED <<jobs, mutex, opVars, periodic, callback, tpc, job, wait, waited, added>>

(* Faulty variant: the lock of the scheduler is given up before the join.  *)
StopUnlocks(c) ==
  /\ Client(c, "stop", IF wait[c] THEN "join" ELSE "erase")
  /\ stop' = [stop EXCEPT ![job[c]] = TRUE]
  /\ mutex' = None
  /\ UNCHANGED <<jobs, opVars, periodic, callback, tpc, job, wait, waited, added>>

Stop(c) ==
  /\ Client(c, "stop", IF wait[c] THEN "join" ELSE "erase")
  /\ tpc[job[c]] # "stuck"
  /\ stop' = [stop EXCEPT ![job[c]] = TRUE]
  /\ UNCHANGED <<jobs, mutex, opVars, periodic, callback, tpc, job, wait, waited, added>>

(* Faulty variant: the thread is not joined while it waits.                *)
JoinRunning(c) ==
  /\ Client(c, "join", "erase")
  /\ tpc[job[c]] # "callback"
  /\ waited' = waited \cup {job[c]}
  /\ UNCHANGED <<jobs, mutex, opVars, timerVars, job, wait, added>>

Join(c) ==
  /\ Client(c, "join", "erase")
  /\ tpc[job[c]] = "done"
  /\ waited' = waited \cup {job[c]}
  /\ UNCHANGED <<jobs, mutex, opVars, timerVars, job, wait, added>>

(* If the caller holds the last reference the job is destroyed here: its   *)
(* timer thread, which no longer refers to it, has ended or is about to.   *)
Erase(c) ==
  /\ Client(c, "erase", "idle")
  /\ jobs' = [n \in Names |-> IF jobs[n] = job[c] THEN None ELSE jobs[n]]
  /\ mutex' = None /\ Return(c)
  /\ UNCHANGED <<opVars, timerVars, wait, waited, added>>

(* Faulty variant: the jobs are dropped and their timers go on.            *)
removeAllJobsUntold(c) ==
  /\ "all" \in Removals
  /\ mutex = None /\ mutex' = c
  /\ Client(c, "idle", "clear")
  /\ UNCHANGED <<jobs, opVars, timerVars, job, wait, waited, added>>

(* Every timer is told to stop, none is waited for, and the jobs are       *)
(* dropped.                                                                *)
removeAllJobs(c) ==
  /\ "all" \in Removals
  /\ mutex = None /\ mutex' = c
  /\ Client(c, "idle", "clear")
  /\ stop' = [j \in Jobs |-> stop[j] \/ \E n \in Names : jobs[n] = j]
  /\ UNCHANGED <<jobs, opVars, periodic, callback, tpc, job, wait, waited, added>>

Clear(c) ==
  /\ Client(c, "clear", "idle")
  /\ jobs' = [n \in Names |-> None] /\ mutex' = None
  /\ UNCHANGED <<opVars, timerVars, job, wait, waited, added>>

-----------------------------------------------------------------------------
(***************************************************************************)
(* TimerThread::run()                                                      *)
(***************************************************************************)
Timer(j, from, to) == tpc[j] = from /\ tpc' = [tpc EXCEPT ![j] = to]

(* callback_ = NULL.  If it was the last reference to the job, the thread  *)
(* destroys the job, its timer and thereby its own TimerThread, whose      *)
(* destructor locks mutex_: with the lock held the thread waits for itself *)
(* ("stuck"), else it ends in an object that is gone ("destroyed").        *)
Reset(j, from, locked) ==
  /\ callback' = [callback EXCEPT ![j] = FALSE]
  /\ Timer(j, from, IF Referred(j) THEN "done" ELSE IF locked THEN "stuck" ELSE "destroyed")
  /\ UNCHANGED <<jobs, mutex, opVars, periodic, stop, clientVars, waited, added>>

(* timed_wait() returns.                                                   *)
Wake(j) ==
  \/ stop[j] /\ Reset(j, "due", TRUE)
  \/ /\ ~stop[j] /\ Timer(j, "due", "call")
     /\ UNCHANGED <<jobs, mutex, opVars, periodic, stop, callback, clientVars, waited, added>>

(* timerCallback(): skipped if the job is running.                         *)
TimerEnter(j) ==
  /\ Timer(j, "call", IF Busy(j) THEN "called" ELSE "callback")
  /\ running' = [running EXCEPT ![j] = @ \/ ~Busy(j)]
  /\ UNCHANGED <<jobs, mutex, immediatly, periodic, stop, callback, clientVars, waited, added>>

TimerLeave(j) ==
  /\ Timer(j, "callback", "called")
  /\ running' = [running EXCEPT ![j] = FALSE]
  /\ UNCHANGED <<jobs, mutex, immediatly, periodic, stop, callback, clientVars, waited, added>>

(* A one-shot timer, or one that is stopped, ends.                         *)
Called(j) ==
  \/ (~periodic[j] \/ stop[j]) /\ Reset(j, "called", FALSE)
  \/ /\ periodic[j] /\ ~stop[j] /\ Timer(j, "called", "due")
     /\ UNCHANGED <<jobs, mutex, opVars, periodic, stop, callback, clientVars, waited, added>>

-----------------------------------------------------------------------------
Calls(c) ==
  \/ \E n \in Names : addJob(c, n) \/ runJobImmediatly(c, n) \/ removeJob(c, n)
  \/ removeAllJobs(c)

ClientStep(c) ==
  \/ Look(c) \/ GiveUp(c) \/ Enter(c) \/ Leave(c) \/ Stop(c) \/ Join(c) \/ Erase(c)
  \/ Clear(c)

TimerStep(j) == Wake(j) \/ TimerEnter(j) \/ TimerLeave(j) \/ Called(j)

Next ==
  \/ \E c \in Clients : Calls(c) \/ ClientStep(c)
  \/ \E j \in Jobs : TimerStep(j)

(***************************************************************************)
(* A call that was made, and a timer thread that was started, goes on; in  *)
(* particular every callback ends.                                         *)
(***************************************************************************)
Fairness ==
  /\ \A c \in Clients : WF_vars(ClientStep(c))
  /\ \A j \in Jobs : WF_vars(TimerStep(j))

Spec == Init /\ [][Next]_vars /\ Fairness

-----------------------------------------------------------------------------
(***************************************************************************)
(* The types of the variables; the lock of the scheduler is held by the    *)
(* caller that removes jobs, until it returns, and a caller refers to a    *)
(* job while it works on it and no longer.                                 *)
(***************************************************************************)
TypeOK ==
  /\ jobs \in [Names -> Jobs \cup {None}] /\ mutex \in Clients \cup {None}
  /\ running \in [Jobs -> BOOLEAN] /\ immediatly \in [Jobs -> BOOLEAN]
  /\ periodic \in [Jobs -> BOOLEAN] /\ stop \in [Jobs -> BOOLEAN]
  /\ callback \in [Jobs -> BOOLEAN]
  /\ tpc \in [Jobs -> {"none", "due", "call", "callback", "called", "done", "stuck", "destroyed"}]
  /\ cpc \in [Clients -> {"idle", "look", "enter", "running", "stop", "join", "erase", "clear"}]
  /\ job \in [Clients -> Jobs \cup {None}] /\ wait \in [Clients -> BOOLEAN]
  /\ waited \subseteq Jobs /\ added \in 0..MaxJobs
  /\ \A c \in Clients :
       /\ mutex = c <=> cpc[c] \in {"stop", "join", "erase", "clear"}
       /\ job[c] = None <=> cpc[c] \in {"idle", "clear"}

(* The threads that are inside the callback of a job.                      *)
Inside(j) ==
  {c \in Clients : cpc[c] = "running" /\ job[c] = j}
    \cup (IF tpc[j] = "callback" THEN {None} ELSE {})

(***************************************************************************)
(* The callback of a job is never run by two threads at once, whether its  *)
(* timer fires or callers run it immediately, and although the callers     *)
(* look at the flags without a lock first.                                 *)
(***************************************************************************)
OneAtATime == \A j \in Jobs : Cardinality(Inside(j)) <= 1

(***************************************************************************)
(* Once removeJob() has waited for a job, its timer does not run the       *)
(* callback any more: what the callback uses may be destroyed, as          *)
(* ~ZooKeeperRouter() does.  (A caller of runJobImmediatly() that found    *)
(* the job earlier still may run it.)                                      *)
(***************************************************************************)
NoCallbackAfterWait == \A j \in waited : tpc[j] \notin {"due", "call", "callback"}

(***************************************************************************)
(* The destruction of a timer waits for the end of its thread, as the      *)
(* comment on ~Timer() says: no timer thread is left in a TimerThread that *)
(* is destroyed or being destroyed.  So it is if every job is removed by a *)
(* removeJob() that waits; otherwise the thread may drop the last          *)
(* reference to its own job and destroy the object that it runs in.        *)
(***************************************************************************)
DestructionWaits == \A j \in Jobs : tpc[j] \notin {"stuck", "destroyed"}

(***************************************************************************)
(* removeJob() and runJobImmediatly() return, although the former holds    *)
(* the lock of the scheduler while it waits for the timer thread.          *)
(***************************************************************************)
CallsReturn == \A c \in Clients : cpc[c] # "idle" ~> cpc[c] = "idle"

(***************************************************************************)
(* A job that was removed, whether waited for or not, or with all the      *)
(* others, runs out: its timer thread fires no more.                       *)
(***************************************************************************)
RemovedRunsOut ==
  \A j \in Jobs :
    j <= added /\ (\A n \in Names : jobs[n] # j) ~> tpc[j] \in {"done", "stuck", "destroyed"}
=============================================================================
