------------------------- MODULE JobSchedulerProofs -------------------------
(***************************************************************************)
(* Safety of the scheduler of periodic jobs, for any number of names,      *)
(* callers and jobs.                                                       *)
(***************************************************************************)
EXTENDS JobScheduler, FiniteSetTheorems, TLAPS

(***************************************************************************)
(* What the flags of a job say.  `running' is set while its timer thread   *)
(* is inside the callback, `immediatly' while a caller is, never both, and *)
(* only one caller is.                                                     *)
(***************************************************************************)
FlagsTell ==
  /\ \A j \in Jobs : running[j] <=> tpc[j] = "callback"
  /\ \A j \in Jobs : immediatly[j] <=> \E c \in Clients : cpc[c] = "running" /\ job[c] = j
  /\ \A j \in Jobs : ~(running[j] /\ immediatly[j])
  /\ \A c, d \in Clients :
       cpc[c] = "running" /\ cpc[d] = "running" /\ job[c] = job[d] => c = d

(* Nothing refers to a job that is still to be added.                      *)
Fresh ==
  \A j \in Jobs : j > added =>
    /\ tpc[j] = "none" /\ j \notin waited /\ ~Referred(j)

(* A timer thread that was waited for has ended.                           *)
WaitedDone == \A j \in waited : tpc[j] = "done"

IInv == TypeOK /\ Fresh /\ FlagsTell /\ WaitedDone

(***************************************************************************)
(* If every removal waits, a job leaves the scheduler only after its timer *)
(* thread has ended: until then the scheduler refers to it.                *)
(***************************************************************************)
HeldUntilDone ==
  /\ \A c \in Clients : cpc[c] # "clear"
  /\ \A c \in Clients : cpc[c] \in {"stop", "join"} => wait[c]
  /\ \A c \in Clients : cpc[c] = "erase" => tpc[job[c]] = "done"
  /\ \A j \in Jobs : tpc[j] \in {"due", "call", "callback", "called"} =>
       \E n \in Names : jobs[n] = j

-----------------------------------------------------------------------------
(* The constants: None is no job and no client.                            *)
LEMMA ConstantFacts ==
  /\ MaxJobs \in Nat
  /\ \A j \in Jobs : j # None /\ j \in Nat
  /\ \A c \in Clients : c # None
  BY SchedulerAssumption DEF Jobs, None

(* The initial state satisfies the inductive invariant.                    *)
LEMMA InitIInv == Init => IInv
  BY ConstantFacts, SchedulerAssumption
  DEF Init, IInv, TypeOK, Fresh, FlagsTell, WaitedDone, Referred, Jobs, None

(* Every step of a caller or a timer thread keeps the types, the lock and  *)
(* the callers' references in order.                                       *)
LEMMA TypeStep == TypeOK /\ [Next]_vars => TypeOK'
<1> SUFFICES ASSUME TypeOK, [Next]_vars PROVE TypeOK'
  OBVIOUS
<1> USE ConstantFacts DEF TypeOK
<1>1. ASSUME NEW c \in Clients, NEW n \in Names, addJob(c, n) PROVE TypeOK'
  <2>1. added' \in Jobs /\ added' \in 0..MaxJobs
    BY <1>1 DEF addJob, Jobs
  <2> QED BY <1>1, <2>1 DEF addJob, clientVars, opVars
<1>2. ASSUME NEW c \in Clients, NEW n \in Names, runJobImmediatly(c, n) PROVE TypeOK'
  BY <1>2 DEF runJobImmediatly, Client, opVars, timerVars
<1>3. ASSUME NEW c \in Clients, NEW n \in Names, removeJob(c, n) PROVE TypeOK'
  BY <1>3 DEF removeJob, Client, opVars, timerVars
<1>4. ASSUME NEW c \in Clients, removeAllJobs(c) PROVE TypeOK'
  BY <1>4 DEF removeAllJobs, Client, opVars
<1>5. ASSUME NEW c \in Clients, Look(c) PROVE TypeOK'
  BY <1>5 DEF Look, Client, opVars, timerVars
<1>6. ASSUME NEW c \in Clients, GiveUp(c) PROVE TypeOK'
  BY <1>6 DEF GiveUp, Client, Return, opVars, timerVars
<1>7. ASSUME NEW c \in Clients, Enter(c) PROVE TypeOK'
  <2>1. CASE cpc' = [cpc EXCEPT ![c] = "idle"]
    BY <1>7, <2>1 DEF Enter, Client, Return, timerVars
  <2>2. CASE cpc' = [cpc EXCEPT ![c] = "running"]
    BY <1>7, <2>2 DEF Enter, Client, Return, timerVars
  <2> QED BY <1>7, <2>1, <2>2 DEF Enter, Client
<1>8. ASSUME NEW c \in Clients, Leave(c) PROVE TypeOK'
  BY <1>8 DEF Leave, Client, Return, timerVars
<1>9. ASSUME NEW c \in Clients, Stop(c) PROVE TypeOK'
  BY <1>9 DEF Stop, Client, opVars
<1>10. ASSUME NEW c \in Clients, Join(c) PROVE TypeOK'
  BY <1>10 DEF Join, Client, opVars, timerVars
<1>11. ASSUME NEW c \in Clients, Erase(c) PROVE TypeOK'
  BY <1>11 DEF Erase, Client, Return, opVars, timerVars
<1>12. ASSUME NEW c \in Clients, Clear(c) PROVE TypeOK'
  BY <1>12 DEF Clear, Client, opVars, timerVars
<1>13. ASSUME NEW j \in Jobs, Wake(j) PROVE TypeOK'
  <2>1. CASE Reset(j, "due", TRUE)
    BY <2>1 DEF Timer, Reset, opVars, clientVars
  <2>2. CASE /\ Timer(j, "due", "call")
             /\ UNCHANGED <<jobs, mutex, opVars, periodic, stop, callback, clientVars, waited, added>>
    BY <2>2 DEF Timer, opVars, clientVars
  <2> QED BY <1>13, <2>1, <2>2 DEF Wake
<1>14. ASSUME NEW j \in Jobs, TimerEnter(j) PROVE TypeOK'
  BY <1>14 DEF TimerEnter, Timer, clientVars
<1>15. ASSUME NEW j \in Jobs, TimerLeave(j) PROVE TypeOK'
  BY <1>15 DEF TimerLeave, Timer, clientVars
<1>16. ASSUME NEW j \in Jobs, Called(j) PROVE TypeOK'
  <2>1. CASE Reset(j, "called", FALSE)
    BY <2>1 DEF Timer, Reset, opVars, clientVars
  <2>2. CASE /\ Timer(j, "called", "due")
             /\ UNCHANGED <<jobs, mutex, opVars, periodic, stop, callback, clientVars, waited, added>>
    BY <2>2 DEF Timer, opVars, clientVars
  <2> QED BY <1>16, <2>1, <2>2 DEF Called
<1>17. CASE UNCHANGED vars
  BY <1>17 DEF vars, opVars, timerVars, clientVars
<1> QED
  BY <1>1, <1>2, <1>3, <1>4, <1>5, <1>6, <1>7, <1>8, <1>9, <1>10, <1>11, <1>12,
     <1>13, <1>14, <1>15, <1>16, <1>17
  DEF Next, Calls, ClientStep, TimerStep

(* Every step leaves the jobs alone that are still to be added.            *)
LEMMA FreshStep ==
  IInv /\ TypeOK' /\ [Next]_vars => Fresh'
<1> SUFFICES ASSUME IInv, TypeOK', [Next]_vars PROVE Fresh'
  OBVIOUS
<1> USE ConstantFacts DEF IInv, TypeOK, Fresh, Referred
<1>1. ASSUME NEW c \in Clients, NEW n \in Names, addJob(c, n) PROVE Fresh'
  BY <1>1 DEF addJob, clientVars, opVars
<1>2. ASSUME NEW c \in Clients, NEW n \in Names, runJobImmediatly(c, n) PROVE Fresh'
  BY <1>2 DEF runJobImmediatly, Client, opVars, timerVars
<1>3. ASSUME NEW c \in Clients, NEW n \in Names, removeJob(c, n) PROVE Fresh'
  BY <1>3 DEF removeJob, Client, opVars, timerVars
<1>4. ASSUME NEW c \in Clients, removeAllJobs(c) PROVE Fresh'
  BY <1>4 DEF removeAllJobs, Client, opVars
<1>5. ASSUME NEW c \in Clients, Look(c) PROVE Fresh'
  BY <1>5 DEF Look, Client, opVars, timerVars
<1>6. ASSUME NEW c \in Clients, GiveUp(c) PROVE Fresh'
  BY <1>6 DEF GiveUp, Client, Return, opVars, timerVars
<1>7. ASSUME NEW c \in Clients, Enter(c) PROVE Fresh'
  BY <1>7 DEF Enter, Client, Return, timerVars
<1>8. ASSUME NEW c \in Clients, Leave(c) PROVE Fresh'
  BY <1>8 DEF Leave, Client, Return, timerVars
<1>9. ASSUME NEW c \in Clients, Stop(c) PROVE Fresh'
  BY <1>9 DEF Stop, Client, opVars
<1>10. ASSUME NEW c \in Clients, Join(c) PROVE Fresh'
  BY <1>10 DEF Join, Client, opVars, timerVars
<1>11. ASSUME NEW c \in Clients, Erase(c) PROVE Fresh'
  BY <1>11 DEF Erase, Client, Return, opVars, timerVars
<1>12. ASSUME NEW c \in Clients, Clear(c) PROVE Fresh'
  BY <1>12 DEF Clear, Client, opVars, timerVars
<1>13. ASSUME NEW j \in Jobs, Wake(j) PROVE Fresh'
  BY <1>13 DEF Wake, Timer, Reset, opVars, clientVars
<1>14. ASSUME NEW j \in Jobs, TimerEnter(j) PROVE Fresh'
  BY <1>14 DEF TimerEnter, Timer, clientVars
<1>15. ASSUME NEW j \in Jobs, TimerLeave(j) PROVE Fresh'
  BY <1>15 DEF TimerLeave, Timer, clientVars
<1>16. ASSUME NEW j \in Jobs, Called(j) PROVE Fresh'
  BY <1>16 DEF Called, Timer, Reset, opVars, clientVars
<1>17. CASE UNCHANGED vars
  BY <1>17 DEF vars, opVars, timerVars, clientVars
<1> QED
  BY <1>1, <1>2, <1>3, <1>4, <1>5, <1>6, <1>7, <1>8, <1>9, <1>10, <1>11, <1>12,
     <1>13, <1>14, <1>15, <1>16, <1>17
  DEF Next, Calls, ClientStep, TimerStep

(* Every step keeps the threads ended that were waited for.                *)
LEMMA WaitedStep ==
  IInv /\ TypeOK' /\ [Next]_vars => WaitedDone'
<1> SUFFICES ASSUME IInv, TypeOK', [Next]_vars PROVE WaitedDone'
  OBVIOUS
<1> USE ConstantFacts DEF IInv, TypeOK, WaitedDone, Fresh
<1>1. ASSUME NEW c \in Clients, NEW n \in Names, addJob(c, n) PROVE WaitedDone'
  BY <1>1 DEF addJob, clientVars, opVars
<1>2. ASSUME NEW c \in Clients, NEW n \in Names, runJobImmediatly(c, n) PROVE WaitedDone'
  BY <1>2 DEF runJobImmediatly, Client, opVars, timerVars
<1>3. ASSUME NEW c \in Clients, NEW n \in Names, removeJob(c, n) PROVE WaitedDone'
  BY <1>3 DEF removeJob, Client, opVars, timerVars
<1>4. ASSUME NEW c \in Clients, removeAllJobs(c) PROVE WaitedDone'
  BY <1>4 DEF removeAllJobs, Client, opVars
<1>5. ASSUME NEW c \in Clients, Look(c) PROVE WaitedDone'
  BY <1>5 DEF Look, Client, opVars, timerVars
<1>6. ASSUME NEW c \in Clients, GiveUp(c) PROVE WaitedDone'
  BY <1>6 DEF GiveUp, Client, Return, opVars, timerVars
<1>7. ASSUME NEW c \in Clients, Enter(c) PROVE WaitedDone'
  BY <1>7 DEF Enter, Client, Return, timerVars
<1>8. ASSUME NEW c \in Clients, Leave(c) PROVE WaitedDone'
  BY <1>8 DEF Leave, Client, Return, timerVars
<1>9. ASSUME NEW c \in Clients, Stop(c) PROVE WaitedDone'
  BY <1>9 DEF Stop, Client, opVars
<1>10. ASSUME NEW c \in Clients, Join(c) PROVE WaitedDone'
  BY <1>10 DEF Join, Client, opVars, timerVars
<1>11. ASSUME NEW c \in Clients, Erase(c) PROVE WaitedDone'
  BY <1>11 DEF Erase, Client, Return, opVars, timerVars
<1>12. ASSUME NEW c \in Clients, Clear(c) PROVE WaitedDone'
  BY <1>12 DEF Clear, Client, opVars, timerVars
<1>13. ASSUME NEW j \in Jobs, Wake(j) PROVE WaitedDone'
  BY <1>13 DEF Wake, Timer, Reset, opVars, clientVars
<1>14. ASSUME NEW j \in Jobs, TimerEnter(j) PROVE WaitedDone'
  BY <1>14 DEF TimerEnter, Timer, clientVars
<1>15. ASSUME NEW j \in Jobs, TimerLeave(j) PROVE WaitedDone'
  BY <1>15 DEF TimerLeave, Timer, clientVars
<1>16. ASSUME NEW j \in Jobs, Called(j) PROVE WaitedDone'
  BY <1>16 DEF Called, Timer, Reset, opVars, clientVars
<1>17. CASE UNCHANGED vars
  BY <1>17 DEF vars, opVars, timerVars, clientVars
<1> QED
  BY <1>1, <1>2, <1>3, <1>4, <1>5, <1>6, <1>7, <1>8, <1>9, <1>10, <1>11, <1>12,
     <1>13, <1>14, <1>15, <1>16, <1>17
  DEF Next, Calls, ClientStep, TimerStep

(* Every step keeps the flags of the jobs true to what the threads do.     *)
LEMMA FlagsStep ==
  IInv /\ TypeOK' /\ [Next]_vars => FlagsTell'
<1> SUFFICES ASSUME IInv, TypeOK', [Next]_vars PROVE FlagsTell'
  OBVIOUS
<1> USE ConstantFacts DEF IInv, TypeOK, FlagsTell, Fresh
<1>1. ASSUME NEW c \in Clients, NEW n \in Names, addJob(c, n) PROVE FlagsTell'
  BY <1>1 DEF addJob, clientVars, opVars
<1>2. ASSUME NEW c \in Clients, NEW n \in Names, runJobImmediatly(c, n) PROVE FlagsTell'
  BY <1>2 DEF runJobImmediatly, Client, opVars, timerVars
<1>3. ASSUME NEW c \in Clients, NEW n \in Names, removeJob(c, n) PROVE FlagsTell'
  BY <1>3 DEF removeJob, Client, opVars, timerVars
<1>4. ASSUME NEW c \in Clients, removeAllJobs(c) PROVE FlagsTell'
  BY <1>4 DEF removeAllJobs, Client, opVars
<1>5. ASSUME NEW c \in Clients, Look(c) PROVE FlagsTell'
  BY <1>5 DEF Look, Client, opVars, timerVars
<1>6. ASSUME NEW c \in Clients, GiveUp(c) PROVE FlagsTell'
  BY <1>6 DEF GiveUp, Client, Return, opVars, timerVars
<1>7. ASSUME NEW c \in Clients, Enter(c) PROVE FlagsTell'
  <2>1. CASE cpc' = [cpc EXCEPT ![c] = "idle"]
    BY <1>7, <2>1 DEF Enter, Client, Return, timerVars
  <2>2. CASE cpc' = [cpc EXCEPT ![c] = "running"]
    <3>1. /\ job' = job /\ UNCHANGED <<running, tpc>> /\ job[c] \in Jobs
          /\ cpc[c] = "enter" /\ ~running[job[c]] /\ ~immediatly[job[c]]
          /\ immediatly' = [immediatly EXCEPT ![job[c]] = TRUE]
      BY <1>7, <2>2 DEF Enter, Client, Busy, timerVars
    <3> QED BY <2>2, <3>1
  <2> QED BY <1>7, <2>1, <2>2 DEF Enter, Client
<1>8. ASSUME NEW c \in Clients, Leave(c) PROVE FlagsTell'
  BY <1>8 DEF Leave, Client, Return, timerVars
<1>9. ASSUME NEW c \in Clients, Stop(c) PROVE FlagsTell'
  BY <1>9 DEF Stop, Client, opVars
<1>10. ASSUME NEW c \in Clients, Join(c) PROVE FlagsTell'
  BY <1>10 DEF Join, Client, opVars, timerVars
<1>11. ASSUME NEW c \in Clients, Erase(c) PROVE FlagsTell'
  BY <1>11 DEF Erase, Client, Return, opVars, timerVars
<1>12. ASSUME NEW c \in Clients, Clear(c) PROVE FlagsTell'
  BY <1>12 DEF Clear, Client, opVars, timerVars
<1>13. ASSUME NEW j \in Jobs, Wake(j) PROVE FlagsTell'
  BY <1>13 DEF Wake, Timer, Reset, opVars, clientVars
<1>14. ASSUME NEW j \in Jobs, TimerEnter(j) PROVE FlagsTell'
  <2>1. CASE running[j] \/ immediatly[j]
    BY <1>14, <2>1 DEF TimerEnter, Timer, Busy, clientVars
  <2>2. CASE ~running[j] /\ ~immediatly[j]
    <3>1. /\ tpc' = [tpc EXCEPT ![j] = "callback"] /\ running' = [running EXCEPT ![j] = TRUE]
          /\ UNCHANGED <<immediatly, cpc, job>>
      BY <1>14, <2>2 DEF TimerEnter, Timer, Busy, clientVars
    <3> QED BY <2>2, <3>1
  <2> QED BY <2>1, <2>2
<1>15. ASSUME NEW j \in Jobs, TimerLeave(j) PROVE FlagsTell'
  BY <1>15 DEF TimerLeave, Timer, clientVars
<1>16. ASSUME NEW j \in Jobs, Called(j) PROVE FlagsTell'
  BY <1>16 DEF Called, Timer, Reset, opVars, clientVars
<1>17. CASE UNCHANGED vars
  BY <1>17 DEF vars, opVars, timerVars, clientVars
<1> QED
  BY <1>1, <1>2, <1>3, <1>4, <1>5, <1>6, <1>7, <1>8, <1>9, <1>10, <1>11, <1>12,
     <1>13, <1>14, <1>15, <1>16, <1>17
  DEF Next, Calls, ClientStep, TimerStep

-----------------------------------------------------------------------------
(* Every step preserves the inductive invariant.                           *)
LEMMA InductiveStep == IInv /\ [Next]_vars => IInv'
<1> SUFFICES ASSUME IInv, [Next]_vars PROVE IInv'
  OBVIOUS
<1>1. TypeOK'
  BY TypeStep DEF IInv
<1> QED BY <1>1, FreshStep, WaitedStep, FlagsStep DEF IInv

(* The inductive invariant holds in every reachable state.                 *)
LEMMA Inductive == Spec => []IInv
BY InductiveStep, InitIInv, PTL DEF Spec

(* At most one thread is inside the callback: the flags exclude a caller   *)
(* from the timer thread and callers from each other.                      *)
LEMMA FlagsExclude == IInv => OneAtATime
<1> SUFFICES ASSUME IInv, NEW j \in Jobs PROVE Cardinality(Inside(j)) <= 1
  BY DEF OneAtATime
<1>1. \A x, y \in Inside(j) : x = y
  BY DEF Inside, IInv, FlagsTell
<1>2. CASE Inside(j) = {}
  BY <1>2, FS_EmptySet
<1>3. CASE Inside(j) # {}
  <2> PICK x \in Inside(j) : TRUE
    BY <1>3
  <2>1. Inside(j) = {x}
    BY <1>1
  <2>2. Cardinality({x}) = 1
    BY FS_Singleton
  <2> QED BY <2>1, <2>2
<1> QED BY <1>2, <1>3

(***************************************************************************)
(* The types of the scheduler's state, the holder of SchedulerImpl::mutex_ *)
(* and the callers' references to jobs (addJob(), removeJob(),             *)
(* removeAllJobs(), runJobImmediatly()).                                   *)
(***************************************************************************)
THEOREM TypeCorrect == Spec => []TypeOK
<1>1. IInv => TypeOK
  BY DEF IInv
<1> QED BY <1>1, Inductive, PTL

(***************************************************************************)
(* No two threads are inside the callback of a job, however timerCallback()*)
(* and runJobImmediatly() interleave.                                      *)
(***************************************************************************)
THEOREM CallbackExclusive == Spec => []OneAtATime
BY FlagsExclude, Inductive, PTL

(***************************************************************************)
(* When removeJob() has waited for a job, TimerThread::run() is over.      *)
(***************************************************************************)
THEOREM WaitEndsTimer == Spec => []NoCallbackAfterWait
<1>1. IInv => NoCallbackAfterWait
  BY DEF IInv, WaitedDone, NoCallbackAfterWait
<1> QED BY <1>1, Inductive, PTL

(* If every removal waits, every step keeps the scheduler's reference to   *)
(* the jobs whose timer threads have not ended.                            *)
LEMMA HeldStep ==
  ASSUME Removals \subseteq {"wait"}, IInv, HeldUntilDone, DestructionWaits, TypeOK', [Next]_vars
  PROVE  HeldUntilDone' /\ DestructionWaits'
<1> DEFINE Goal == HeldUntilDone' /\ DestructionWaits'
<1> USE ConstantFacts DEF IInv, TypeOK, HeldUntilDone, DestructionWaits, Fresh
<1>1. ASSUME NEW c \in Clients, NEW n \in Names, addJob(c, n) PROVE Goal
  BY <1>1 DEF addJob, clientVars, opVars
<1>2. ASSUME NEW c \in Clients, NEW n \in Names, runJobImmediatly(c, n) PROVE Goal
  BY <1>2 DEF runJobImmediatly, Client, opVars, timerVars
<1>3. ASSUME NEW c \in Clients, NEW n \in Names, removeJob(c, n) PROVE Goal
  <2>1. wait' = [wait EXCEPT ![c] = TRUE]
    BY <1>3 DEF removeJob
  <2> QED BY <1>3, <2>1 DEF removeJob, Client, opVars, timerVars
<1>4. ASSUME NEW c \in Clients, removeAllJobs(c) PROVE Goal
  BY <1>4 DEF removeAllJobs, Client, opVars
<1>5. ASSUME NEW c \in Clients, Look(c) PROVE Goal
  BY <1>5 DEF Look, Client, opVars, timerVars
<1>6. ASSUME NEW c \in Clients, GiveUp(c) PROVE Goal
  BY <1>6 DEF GiveUp, Client, Return, opVars, timerVars
<1>7. ASSUME NEW c \in Clients, Enter(c) PROVE Goal
  BY <1>7 DEF Enter, Client, Return, timerVars
<1>8. ASSUME NEW c \in Clients, Leave(c) PROVE Goal
  BY <1>8 DEF Leave, Client, Return, timerVars
<1>9. ASSUME NEW c \in Clients, Stop(c) PROVE Goal
  BY <1>9 DEF Stop, Client, opVars
<1>10. ASSUME NEW c \in Clients, Join(c) PROVE Goal
  BY <1>10 DEF Join, Client, opVars, timerVars
<1>11. ASSUME NEW c \in Clients, Erase(c) PROVE Goal
  BY <1>11 DEF Erase, Client, Return, opVars, timerVars
<1>12. ASSUME NEW c \in Clients, Clear(c) PROVE Goal
  BY <1>12 DEF Clear, Client, opVars, timerVars
<1>13. ASSUME NEW j \in Jobs, Wake(j) PROVE Goal
  BY <1>13 DEF Wake, Timer, Reset, Referred, opVars, clientVars
<1>14. ASSUME NEW j \in Jobs, TimerEnter(j) PROVE Goal
  BY <1>14 DEF TimerEnter, Timer, clientVars
<1>15. ASSUME NEW j \in Jobs, TimerLeave(j) PROVE Goal
  BY <1>15 DEF TimerLeave, Timer, clientVars
<1>16. ASSUME NEW j \in Jobs, Called(j) PROVE Goal
  BY <1>16 DEF Called, Timer, Reset, Referred, opVars, clientVars
<1>17. CASE UNCHANGED vars
  BY <1>17 DEF vars, opVars, timerVars, clientVars
<1> QED
  BY <1>1, <1>2, <1>3, <1>4, <1>5, <1>6, <1>7, <1>8, <1>9, <1>10, <1>11, <1>12,
     <1>13, <1>14, <1>15, <1>16, <1>17
  DEF Next, Calls, ClientStep, TimerStep

(***************************************************************************)
(* If every job is removed by a removeJob() that waits, no timer thread    *)
(* destroys the TimerThread that it runs in: when callback_ is reset the   *)
(* scheduler still refers to the job, and when it gives up that reference  *)
(* the thread has ended.                                                   *)
(***************************************************************************)
THEOREM WaitedRemovalsDestroyInOrder ==
  ASSUME Removals \subseteq {"wait"}
  PROVE  Spec => []DestructionWaits
<1> DEFINE Inv == IInv /\ HeldUntilDone /\ DestructionWaits
<1>1. Init => Inv
  BY InitIInv DEF Init, HeldUntilDone, DestructionWaits
<1>2. Inv /\ [Next]_vars => Inv'
  <2> SUFFICES ASSUME Inv, [Next]_vars PROVE Inv'
    OBVIOUS
  <2>1. IInv'
    BY InductiveStep
  <2>2. TypeOK'
    BY <2>1 DEF IInv
  <2> QED BY <2>1, <2>2, HeldStep
<1>3. Inv => DestructionWaits
  OBVIOUS
<1> QED BY <1>1, <1>2, <1>3, PTL DEF Spec
=============================================================================
