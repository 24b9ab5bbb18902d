--------------------------- MODULE SessionProofs ---------------------------
(***************************************************************************)
(* The safety of Session for every set of callers and every bound on the   *)
(* number of volumes, and its refinement of ComExecutor.                   *)
(*                                                                         *)
(* IInv (Session.tla) is inductive.  NoSendOnClosedChannel alone is not:   *)
(* that a goroutine in "send" keeps reqCh open follows from the lock, so   *)
(* the invariant must say who holds the lock at which program counter,     *)
(* that at most one goroutine is inside closeOnce, and what it has already *)
(* done there.                                                             *)
(***************************************************************************)
EXTENDS Session, TLAPS

USE DEF ctorVars, comVars, lockVars

-----------------------------------------------------------------------------
(* IInv is inductive *)

\* A Session that NewSession has not started yet satisfies the invariant.
LEMMA InitIInv == Init => IInv
<1> SUFFICES ASSUME Init PROVE IInv
  OBVIOUS
<1> USE DEF Init, DoPcs, ClosePcs, Starting, Ending
<1>1. TypeOK
  <2>1. created \in 0..MaxVolumes
    BY VolumesAssumption
  <2>2. pc \in [Callers -> {"idle", "once"} \cup DoPcs \cup ClosePcs]
    BY Zenon
  <2>3. current \in Callers \cup {Nobody} /\ readers \in SUBSET Callers
    OBVIOUS
  <2> QED
    BY <2>1, <2>2, <2>3 DEF TypeOK, Ref
<1>2. CtorInv
  BY DEF CtorInv
<1>3. RefInv
  <2>1. created <= opts.volumes
    BY VolumesAssumption
  <2> QED
    BY <2>1 DEF RefInv
<1>4. LockInv
  BY DEF LockInv
<1> QED
  BY <1>1, <1>2, <1>3, <1>4 DEF IInv

\* Every step of NewSession, comThread, do and Close preserves it.
LEMMA StepIInv == IInv /\ [Next]_vars => IInv'
<1> SUFFICES ASSUME IInv, [Next]_vars PROVE IInv'
  OBVIOUS
<1> USE CallersAssumption, VolumesAssumption
    DEF IInv, TypeOK, CtorInv, RefInv, LockInv, Ref, DoPcs, ClosePcs,
        Starting, Ending, Goto
<1>1. CASE NewSessionReject
  BY <1>1, SMTT(30) DEF NewSessionReject
<1>2. CASE NewSessionStart
  BY <1>2, SMTT(30) DEF NewSessionStart
<1>3. CASE NewSessionReturn
  BY <1>3, SMTT(30) DEF NewSessionReturn
<1>4. CASE InitCOM
  BY <1>4, SMTT(30) DEF InitCOM, StartupUnchanged
<1>5. CASE ActivateSessionManager
  BY <1>5, SMTT(30) DEF ActivateSessionManager, StartupUnchanged
<1>6. CASE CreateSession
  BY <1>6, SMTT(30) DEF CreateSession, StartupUnchanged
<1>7. CASE CreateVolume
  BY <1>7, SMTT(30) DEF CreateVolume, StartupUnchanged
<1>8. CASE VolumesDone
  BY <1>8, SMTT(30) DEF VolumesDone, StartupUnchanged
<1>9. CASE Abandon
  BY <1>9, SMTT(30) DEF Abandon, StartupUnchanged
<1>10. CASE Fail
  BY <1>10, SMTT(30) DEF Fail, StartupUnchanged
<1>11. CASE Ready
  BY <1>11, SMTT(30) DEF Ready, StartupUnchanged
<1>12. CASE RunRequest
  BY <1>12, SMTT(30) DEF RunRequest, ThreadUnchanged
<1>13. CASE DetectClosed
  BY <1>13, SMTT(30) DEF DetectClosed, ThreadUnchanged
<1>14. CASE Terminate
  BY <1>14, SMTT(30) DEF Terminate, ThreadUnchanged
<1>15. CASE ReleaseRefs
  BY <1>15, SMTT(30) DEF ReleaseRefs, ThreadUnchanged
<1>16. CASE CloseClosed
  BY <1>16, SMTT(30) DEF CloseClosed, ThreadUnchanged
<1>17. ASSUME NEW c \in Callers, DoCall(c) PROVE IInv'
  BY <1>17, SMTT(30) DEF DoCall, CallerUnchanged
<1>18. ASSUME NEW c \in Callers, CloseCall(c) PROVE IInv'
  BY <1>18, SMTT(30) DEF CloseCall, CallerUnchanged
<1>19. ASSUME NEW c \in Callers, Receive(c) PROVE IInv'
  BY <1>19, SMTT(30) DEF Receive, ThreadUnchanged
<1>20. ASSUME NEW c \in Callers, RLock(c) PROVE IInv'
  BY <1>20, SMTT(30) DEF RLock, CallerUnchanged
<1>21. ASSUME NEW c \in Callers, CheckStopped(c) PROVE IInv'
  BY <1>21, SMTT(30) DEF CheckStopped, CallerUnchanged
<1>22. ASSUME NEW c \in Callers, RUnlock(c) PROVE IInv'
  BY <1>22, SMTT(30) DEF RUnlock, CallerUnchanged
<1>23. ASSUME NEW c \in Callers, OnceEnter(c) PROVE IInv'
  BY <1>23, SMTT(30) DEF OnceEnter, CallerUnchanged
<1>24. ASSUME NEW c \in Callers, OnceWait(c) PROVE IInv'
  BY <1>24, SMTT(30) DEF OnceWait, CallerUnchanged
<1>25. ASSUME NEW c \in Callers, LockAnnounce(c) PROVE IInv'
  BY <1>25, SMTT(30) DEF LockAnnounce, CallerUnchanged
<1>26. ASSUME NEW c \in Callers, LockAcquire(c) PROVE IInv'
  BY <1>26, SMTT(30) DEF LockAcquire, CallerUnchanged
<1>27. ASSUME NEW c \in Callers, StopAndCloseReqCh(c) PROVE IInv'
  <2> USE <1>27 DEF StopAndCloseReqCh, CallerUnchanged
  \* The lock is held for writing, so no goroutine is inside do, and the
  \* request loop has nobody to serve.
  <2>1. readers = {} /\ ctor = "ok" /\ thread = "loop"
    <3>1. wlock = "held" /\ readers = {} /\ ~stopped
      OBVIOUS
    <3>2. ctor = "ok"
      OBVIOUS
    <3>3. thread # "running"
      BY <3>1
    <3> QED
      BY <3>1, <3>2, <3>3
  <2>2. \A d \in Callers : pc[d] \notin DoPcs \ {"rlock"}
    BY <2>1
  <2>3. TypeOK'
    BY <2>1
  <2>4. CtorInv'
    BY <2>1
  <2>5. RefInv'
    BY <2>1
  <2>6. LockInv'
    <3>1. pc' = [pc EXCEPT ![c] = "unlock"] /\ pc[c] = "stop"
      OBVIOUS
    <3>2. readers' = {d \in Callers : pc'[d] \in DoPcs \ {"rlock"}}
      BY <2>2, <3>1
    <3>3. \A d \in Callers : d # c => pc[d] \notin ClosePcs
      BY <3>1
    <3> QED
      BY <2>1, <2>2, <3>1, <3>2, <3>3
  <2> QED
    BY <2>3, <2>4, <2>5, <2>6
<1>28. ASSUME NEW c \in Callers, Unlock(c) PROVE IInv'
  BY <1>28, SMTT(30) DEF Unlock, CallerUnchanged
<1>29. ASSUME NEW c \in Callers, AwaitClosed(c) PROVE IInv'
  BY <1>29, SMTT(30) DEF AwaitClosed, CallerUnchanged
<1>30. CASE UNCHANGED vars
  BY <1>30 DEF vars
<1> QED
  BY <1>1, <1>2, <1>3, <1>4, <1>5, <1>6, <1>7, <1>8, <1>9, <1>10,
     <1>11, <1>12, <1>13, <1>14, <1>15, <1>16, <1>17, <1>18, <1>19, <1>20,
     <1>21, <1>22, <1>23, <1>24, <1>25, <1>26, <1>27, <1>28, <1>29, <1>30
     DEF Next, NewSession, Startup, Teardown, Do, Close, Terminated

\* The invariant holds in every state of every behaviour.
THEOREM Invariance == Spec => []IInv
<1> QED
  BY InitIInv, StepIInv, PTL DEF Spec

-----------------------------------------------------------------------------
(* What it says of the code *)

\* Every variable keeps its type.
THEOREM TypeCorrect == Spec => []TypeOK
<1>1. IInv => TypeOK
  BY DEF IInv
<1> QED
  BY <1>1, Invariance, PTL

\* However many goroutines call do while Close runs, none of them panics with
\* "send on closed channel".
THEOREM NoPanicOnSend == Spec => []NoSendOnClosedChannel
<1>1. IInv => NoSendOnClosedChannel
  BY DEF IInv, LockInv, NoSendOnClosedChannel
<1> QED
  BY <1>1, Invariance, PTL

\* No closure ever meets a released COM reference.
THEOREM LiveRequests == Spec => []RequestsMeetLiveSession
<1>1. IInv => RequestsMeetLiveSession
  <2> SUFFICES ASSUME IInv, thread = "running"
               PROVE  RequestsMeetLiveSession
    BY DEF RequestsMeetLiveSession
  <2>1. current \in Callers /\ pc[current] = "await"
    BY DEF IInv, LockInv
  <2>2. ~stopped
    BY <2>1 DEF IInv, TypeOK, LockInv
  <2> QED
    BY <2>1, <2>2 DEF IInv, RefInv, RequestsMeetLiveSession
<1> QED
  BY <1>1, Invariance, PTL

\* Every call of Close, the first, a later or a concurrent one, returns only
\* after the whole teardown.
THEOREM CloseBlocks == Spec => []CloseReturnsAfterTeardown
<1>1. IInv => CloseReturnsAfterTeardown
  BY DEF IInv, LockInv, RefInv, CloseReturnsAfterTeardown
<1> QED
  BY <1>1, Invariance, PTL

\* NewSession hands back all of the volumes or nothing.
THEOREM AllOrNothingHolds == Spec => []AllOrNothing
<1>1. IInv => AllOrNothing
  BY DEF IInv, CtorInv, RefInv, AllOrNothing
<1> QED
  BY <1>1, Invariance, PTL

-----------------------------------------------------------------------------
(* Session implements ComExecutor *)

LEMMA InitRefines == Init => Exec!Init
BY DEF Init, Exec!Init, phase, req, RequestAt

\* A caller that moves on changes its own request and no other.
LEMMA RequestStep ==
  ASSUME NEW c \in Callers, NEW to, pc' = [pc EXCEPT ![c] = to],
         pc \in [Callers -> {"idle", "once"} \cup DoPcs \cup ClosePcs]
  PROVE  /\ req' = [req EXCEPT ![c] = RequestAt(to)]
         /\ req[c] = RequestAt(pc[c])
  BY DEF req

\* A step inside do or Close that a user cannot tell from no step.
LEMMA RequestQuiet ==
  ASSUME NEW c \in Callers, NEW to, pc' = [pc EXCEPT ![c] = to],
         pc \in [Callers -> {"idle", "once"} \cup DoPcs \cup ClosePcs],
         RequestAt(to) = RequestAt(pc[c])
  PROVE  req' = req
<1>1. ASSUME NEW d \in Callers PROVE RequestAt(pc'[d]) = RequestAt(pc[d])
  <2>1. CASE d = c
    BY <2>1
  <2>2. CASE d # c
    <3>1. pc'[d] = pc[d]
      BY <2>2
    <3> QED
      BY <3>1
  <2> QED
    BY <2>1, <2>2
<1> QED
  BY <1>1 DEF req

\* Each step of the threads is one step of the contract or none.
LEMMA StepRefines == IInv /\ [Next]_vars => [Exec!Next]_(Exec!vars)
<1> SUFFICES ASSUME IInv, [Next]_vars PROVE [Exec!Next]_(Exec!vars)
  OBVIOUS
<1> USE DEF IInv, TypeOK, CtorInv, RefInv, LockInv, DoPcs, ClosePcs,
        Starting, Ending, Goto, phase, Exec!vars, Exec!Next
<1>1. CASE NewSessionReject
  <2> USE <1>1 DEF NewSessionReject, Exec!Start
  <2>1. req' = req
    BY DEF req
  <2> QED
    BY <2>1
<1>2. CASE NewSessionStart
  <2> USE <1>2 DEF NewSessionStart
  <2>1. req' = req
    BY DEF req
  <2> QED
    BY <2>1
<1>3. CASE NewSessionReturn
  <2> USE <1>3 DEF NewSessionReturn, Exec!Start
  <2>1. req' = req
    BY DEF req
  <2> QED
    BY <2>1
<1>4. CASE InitCOM
  <2> USE <1>4 DEF InitCOM, StartupUnchanged
  <2>1. req' = req
    BY DEF req
  <2> QED
    BY <2>1
<1>5. CASE ActivateSessionManager
  <2> USE <1>5 DEF ActivateSessionManager, StartupUnchanged
  <2>1. req' = req
    BY DEF req
  <2> QED
    BY <2>1
<1>6. CASE CreateSession
  <2> USE <1>6 DEF CreateSession, StartupUnchanged
  <2>1. req' = req
    BY DEF req
  <2> QED
    BY <2>1
<1>7. CASE CreateVolume
  <2> USE <1>7 DEF CreateVolume, StartupUnchanged
  <2>1. req' = req
    BY DEF req
  <2> QED
    BY <2>1
<1>8. CASE VolumesDone
  <2> USE <1>8 DEF VolumesDone, StartupUnchanged
  <2>1. req' = req
    BY DEF req
  <2> QED
    BY <2>1
<1>9. CASE Abandon
  <2> USE <1>9 DEF Abandon, StartupUnchanged
  <2>1. req' = req
    BY DEF req
  <2> QED
    BY <2>1
<1>10. CASE Fail
  <2> USE <1>10 DEF Fail, StartupUnchanged
  <2>1. req' = req
    BY DEF req
  <2> QED
    BY <2>1
<1>11. CASE Ready
  <2> USE <1>11 DEF Ready, StartupUnchanged
  <2>1. req' = req
    BY DEF req
  <2> QED
    BY <2>1
<1>12. CASE RunRequest
  <2> USE <1>12 DEF RunRequest, ThreadUnchanged
  <2>1. current \in Callers /\ pc[current] = "await"
    OBVIOUS
  <2>2. req[current] = "called" /\ req' = [req EXCEPT ![current] = "ran"]
    BY <2>1, RequestStep DEF RequestAt
  <2>3. phase = "open" /\ phase' = phase
    BY <2>1
  <2>4. Exec!Run(current)
    BY <2>1, <2>2, <2>3 DEF Exec!Run
  <2> QED
    BY <2>1, <2>4
<1>13. CASE DetectClosed
  <2> USE <1>13 DEF DetectClosed, ThreadUnchanged
  <2>1. req' = req
    BY DEF req
  <2> QED
    BY <2>1
<1>14. CASE Terminate
  <2> USE <1>14 DEF Terminate, ThreadUnchanged
  <2>1. req' = req
    BY DEF req
  <2> QED
    BY <2>1
<1>15. CASE ReleaseRefs
  <2> USE <1>15 DEF ReleaseRefs, ThreadUnchanged
  <2>1. req' = req
    BY DEF req
  <2> QED
    BY <2>1
<1>16. CASE CloseClosed
  <2> USE <1>16 DEF CloseClosed, ThreadUnchanged, Exec!TearDown
  <2>1. req' = req
    BY DEF req
  <2> QED
    BY <2>1
<1>17. ASSUME NEW c \in Callers, DoCall(c)
      PROVE  [Exec!Next]_(Exec!vars)
  <2> USE <1>17 DEF DoCall, CallerUnchanged
  <2>1. req[c] = "idle" /\ req' = [req EXCEPT ![c] = "called"]
    BY RequestStep DEF RequestAt
  <2>2. phase \in {"open", "stopped", "torndown"} /\ phase' = phase
    OBVIOUS
  <2> QED
    BY <2>1, <2>2 DEF Exec!Call
<1>18. ASSUME NEW c \in Callers, CloseCall(c)
      PROVE  [Exec!Next]_(Exec!vars)
  <2> USE <1>18 DEF CloseCall, CallerUnchanged
  <2>1. req' = req
    BY RequestQuiet DEF RequestAt
  <2> QED
    BY <2>1
<1>19. ASSUME NEW c \in Callers, Receive(c)
      PROVE  [Exec!Next]_(Exec!vars)
  <2> USE <1>19 DEF Receive, ThreadUnchanged
  <2>1. req' = req
    BY RequestQuiet DEF RequestAt
  <2> QED
    BY <2>1
<1>20. ASSUME NEW c \in Callers, RLock(c)
      PROVE  [Exec!Next]_(Exec!vars)
  <2> USE <1>20 DEF RLock, CallerUnchanged
  <2>1. req' = req
    BY RequestQuiet DEF RequestAt
  <2> QED
    BY <2>1
<1>21. ASSUME NEW c \in Callers, CheckStopped(c)
      PROVE  [Exec!Next]_(Exec!vars)
  <2> USE <1>21 DEF CheckStopped, CallerUnchanged
  <2>1. phase' = phase /\ req[c] = "called"
    BY RequestStep DEF RequestAt
  <2>2. CASE stopped
    <3>1. req' = [req EXCEPT ![c] = "skipped"]
      BY <2>2, RequestStep DEF RequestAt
    <3>2. phase \in {"stopped", "torndown"}
      BY <2>2
    <3> QED
      BY <2>1, <3>1, <3>2 DEF Exec!Skip
  <2>3. CASE ~stopped
    <3>1. req' = [req EXCEPT ![c] = "called"]
      BY <2>3, RequestStep DEF RequestAt
    <3>2. req' = req
      BY <2>1, <3>1 DEF req
    <3> QED
      BY <2>1, <3>2
  <2> QED
    BY <2>2, <2>3
<1>22. ASSUME NEW c \in Callers, RUnlock(c)
      PROVE  [Exec!Next]_(Exec!vars)
  <2> USE <1>22 DEF RUnlock, CallerUnchanged
  <2>1. /\ req[c] \in {"ran", "skipped"}
        /\ req' = [req EXCEPT ![c] = "idle"]
    BY RequestStep DEF RequestAt
  <2>2. phase' = phase
    OBVIOUS
  <2> QED
    BY <2>1, <2>2 DEF Exec!Return
<1>23. ASSUME NEW c \in Callers, OnceEnter(c)
      PROVE  [Exec!Next]_(Exec!vars)
  <2> USE <1>23 DEF OnceEnter, CallerUnchanged
  <2>1. req' = req
    BY RequestQuiet DEF RequestAt
  <2> QED
    BY <2>1
<1>24. ASSUME NEW c \in Callers, OnceWait(c)
      PROVE  [Exec!Next]_(Exec!vars)
  <2> USE <1>24 DEF OnceWait, CallerUnchanged, Exec!CloseReturns
  <2>1. req' = req
    BY RequestQuiet DEF RequestAt
  <2> QED
    BY <2>1
<1>25. ASSUME NEW c \in Callers, LockAnnounce(c)
      PROVE  [Exec!Next]_(Exec!vars)
  <2> USE <1>25 DEF LockAnnounce, CallerUnchanged
  <2>1. req' = req
    BY RequestQuiet DEF RequestAt
  <2> QED
    BY <2>1
<1>26. ASSUME NEW c \in Callers, LockAcquire(c)
      PROVE  [Exec!Next]_(Exec!vars)
  <2> USE <1>26 DEF LockAcquire, CallerUnchanged
  <2>1. req' = req
    BY RequestQuiet DEF RequestAt
  <2> QED
    BY <2>1
<1>27. ASSUME NEW c \in Callers, StopAndCloseReqCh(c)
      PROVE  [Exec!Next]_(Exec!vars)
  <2> USE <1>27 DEF StopAndCloseReqCh, CallerUnchanged, Exec!Stop
  <2>1. req' = req
    BY RequestQuiet DEF RequestAt
  <2> QED
    BY <2>1
<1>28. ASSUME NEW c \in Callers, Unlock(c)
      PROVE  [Exec!Next]_(Exec!vars)
  <2> USE <1>28 DEF Unlock, CallerUnchanged
  <2>1. req' = req
    BY RequestQuiet DEF RequestAt
  <2> QED
    BY <2>1
<1>29. ASSUME NEW c \in Callers, AwaitClosed(c)
      PROVE  [Exec!Next]_(Exec!vars)
  <2> USE <1>29 DEF AwaitClosed, CallerUnchanged, Exec!CloseReturns
  <2>1. req' = req
    BY RequestQuiet DEF RequestAt
  <2> QED
    BY <2>1
<1>30. CASE UNCHANGED vars
  BY <1>30 DEF vars, req
<1> QED
  BY <1>1, <1>2, <1>3, <1>4, <1>5, <1>6, <1>7, <1>8, <1>9, <1>10,
     <1>11, <1>12, <1>13, <1>14, <1>15, <1>16, <1>17, <1>18, <1>19, <1>20,
     <1>21, <1>22, <1>23, <1>24, <1>25, <1>26, <1>27, <1>28, <1>29, <1>30
     DEF Next, NewSession, Startup, Teardown, Do, Close, Terminated

\* The threads, the lock and the channels together keep the contract of do
\* and Close: ComExecutor is all a caller has to know.
THEOREM Refinement == Spec => ImplementsComExecutor
<1> QED
  BY InitRefines, StepRefines, Invariance, PTL
     DEF Spec, ImplementsComExecutor, Exec!Spec

-----------------------------------------------------------------------------
(* Nobody waits for ever *)

\* Where goroutine c, comThread and NewSession can go on: the guards of Do(c),
\* Close(c) and Receive(c), of Startup, RunRequest and Teardown, and of
\* NewSession.
CallerMoves(c) == \/ pc[c] \in {"check", "ran", "skipped", "stop", "unlock"}
                  \/ pc[c] \in {"rlock", "lock"} /\ wlock = "free"
                  \/ pc[c] = "send" /\ thread = "loop" /\ reqOpen
                  \/ pc[c] = "once" /\ once # "running"
                  \/ pc[c] = "drain" /\ readers = {}
                  \/ pc[c] = "closed" /\ closedCh

ThreadMoves == \/ thread \in Starting \ {"none"}
               \/ thread = "loop" /\ ~reqOpen
               \/ thread \in {"running", "terminate", "release", "signal"}

CtorMoves == ctor = "called" \/ (ctor = "waiting" /\ initErr # "empty")

\* closeOnce is busy only while somebody is inside it.
OnceBusy == once = "running" => \E c \in Callers : pc[c] \in ClosePcs

\* The goroutine, or comThread, that one which cannot go on waits for, along
\* closeOnce, closeMu, reqCh, done and closed (session.go:139-163).  Each line
\* leads to one further down, and the last to one that moves.
WaitsInOrder ==
  /\ ctor = "waiting" => CtorMoves \/ ThreadMoves
  /\ \A c \in Callers : ~CallerMoves(c) =>
       /\ pc[c] = "once"  => \E d \in Callers : pc[d] \in ClosePcs
       /\ pc[c] = "rlock" => \E d \in Callers : pc[d] \in {"drain", "stop", "unlock"}
       /\ pc[c] # "lock"
       /\ pc[c] = "drain" => \E d \in Callers : pc[d] \in DoPcs \ {"rlock"}
       /\ pc[c] \in {"send", "await", "closed"} => ThreadMoves

\* While anybody is inside NewSession, do or Close, or comThread is busy,
\* somebody can take a step that does not depend on a new call.
NoDeadlock ==
  \/ ctor \in {"called", "waiting"} \/ thread \notin {"none", "loop", "exited"}
  \/ \E c \in Callers : pc[c] # "idle"
  => CtorMoves \/ ThreadMoves \/ \E c \in Callers : CallerMoves(c)

\* closeOnce is left by the goroutine that entered it, and by nobody else.
LEMMA OnceBusyStep == IInv /\ OnceBusy /\ [Next]_vars => OnceBusy'
<1> SUFFICES ASSUME IInv, OnceBusy, [Next]_vars PROVE OnceBusy'
  OBVIOUS
<1> DEFINE quiet == once' = once /\ \A c \in Callers : pc[c] \in ClosePcs => pc'[c] \in ClosePcs
<1>1. quiet => OnceBusy'
  BY DEF OnceBusy
<1>2. pc \in [Callers -> {"idle", "once"} \cup DoPcs \cup ClosePcs]
  BY DEF IInv, TypeOK
<1> USE DEF Goto, DoPcs, ClosePcs
<1>3. NewSession \/ Startup \/ Terminated \/ UNCHANGED vars => quiet
  BY DEF NewSession, NewSessionReject, NewSessionStart, NewSessionReturn, Startup,
         StartupUnchanged, InitCOM, ActivateSessionManager, CreateSession,
         CreateVolume, VolumesDone, Abandon, Fail, Ready, Terminated, vars
<1>4. RunRequest \/ Teardown => quiet
  <2>1. thread = "running" => current \in Callers /\ pc[current] = "await"
    BY DEF IInv, LockInv
  <2> QED
    BY <1>2, <2>1 DEF RunRequest, Teardown, DetectClosed, Terminate, ReleaseRefs,
                      CloseClosed, ThreadUnchanged
<1>5. ASSUME NEW c \in Callers, DoCall(c) \/ CloseCall(c) \/ Do(c) \/ Receive(c)
      PROVE  quiet
  BY <1>2, <1>5 DEF DoCall, CloseCall, Do, RLock, CheckStopped, RUnlock, Receive,
                    CallerUnchanged, ThreadUnchanged
<1>6. ASSUME NEW c \in Callers, Close(c) PROVE OnceBusy'
  <2> USE <1>2, <1>6
  <2>1. CASE OnceEnter(c)
    BY <2>1 DEF OnceEnter, OnceBusy
  <2>2. CASE AwaitClosed(c)
    BY <2>2 DEF AwaitClosed, OnceBusy
  <2>3. CASE \/ OnceWait(c) \/ LockAnnounce(c) \/ LockAcquire(c)
             \/ StopAndCloseReqCh(c) \/ Unlock(c)
    <3>1. quiet
      BY <2>3 DEF OnceWait, LockAnnounce, LockAcquire, StopAndCloseReqCh, Unlock
    <3> QED
      BY <1>1, <3>1
  <2> QED
    BY <2>1, <2>2, <2>3 DEF Close
<1> HIDE DEF quiet
<1> QED
  BY <1>1, <1>3, <1>4, <1>5, <1>6 DEF Next

\* Who waits for whom follows from who holds what.
LEMMA Waits == IInv /\ OnceBusy => WaitsInOrder
<1> SUFFICES ASSUME IInv, OnceBusy PROVE WaitsInOrder
  OBVIOUS
<1>1. ctor = "waiting" => CtorMoves \/ ThreadMoves
  BY DEF IInv, CtorInv, TypeOK, CtorMoves, ThreadMoves, Starting, Ending
<1>2. ASSUME NEW c \in Callers, ~CallerMoves(c)
      PROVE  /\ pc[c] = "once"  => \E d \in Callers : pc[d] \in ClosePcs
             /\ pc[c] = "rlock" => \E d \in Callers : pc[d] \in {"drain", "stop", "unlock"}
             /\ pc[c] # "lock"
             /\ pc[c] = "drain" => \E d \in Callers : pc[d] \in DoPcs \ {"rlock"}
             /\ pc[c] \in {"send", "await", "closed"} => ThreadMoves
  <2>1. LockInv
    BY DEF IInv
  <2>2. pc[c] = "once" => \E d \in Callers : pc[d] \in ClosePcs
    BY <1>2 DEF CallerMoves, OnceBusy
  <2>3. wlock # "free" => \E d \in Callers : pc[d] \in {"drain", "stop", "unlock"}
    BY <2>1 DEF LockInv
  <2>4. pc[c] = "rlock" => wlock # "free"
    BY <1>2 DEF CallerMoves
  <2>5. pc[c] = "lock" => wlock = "free"
    BY <2>1, <2>3 DEF LockInv, ClosePcs
  <2>6. pc[c] # "lock"
    BY <1>2, <2>5 DEF CallerMoves
  <2>7. pc[c] = "drain" => \E d \in Callers : pc[d] \in DoPcs \ {"rlock"}
    BY <1>2, <2>1 DEF CallerMoves, LockInv
  <2>8. pc[c] \in {"send", "await", "closed"} => ThreadMoves
    <3>1. thread \in Starting \cup {"loop", "running"} \cup Ending
      BY DEF IInv, TypeOK
    <3>2. ctor # "ok" => pc[c] = "idle"
      BY DEF IInv, CtorInv
    <3>3. thread \in Starting => ctor # "ok"
      BY DEF IInv, CtorInv
    <3>4. closedCh <=> thread = "exited"
      BY DEF IInv, RefInv
    <3>5. thread = "exited" /\ ctor = "ok" => stopped
      BY <2>1 DEF LockInv
    <3>6. /\ stopped => pc[c] \notin {"send", "await"}
          /\ stopped <=> ~reqOpen
          /\ pc[c] = "closed" => stopped
          /\ pc[c] = "await" => thread = "running"
      BY <2>1 DEF LockInv
    <3> QED
      BY <1>2, <3>1, <3>2, <3>3, <3>4, <3>5, <3>6 DEF CallerMoves, ThreadMoves, Ending
  <2> QED
    BY <2>2, <2>3, <2>4, <2>6, <2>7, <2>8
<1> QED
  BY <1>1, <1>2 DEF WaitsInOrder

\* The waits are in order: a goroutine that has to wait, for closeOnce, for
\* closeMu, in reqCh, on done or on closed, waits for one that is ahead of it
\* (session.go:139-163).
THEOREM EveryWaitIsAnswered == Spec => []WaitsInOrder
<1>1. Init => OnceBusy
  BY DEF Init, OnceBusy
<1> QED
  BY <1>1, OnceBusyStep, Waits, Invariance, PTL DEF Spec

\* Close under the lock that do holds while it blocks in reqCh does not
\* deadlock the session, however many goroutines are in either
\* (session.go:139-163).
THEOREM DeadlockFree == Spec => []NoDeadlock
<1>1. IInv /\ WaitsInOrder => NoDeadlock
  <2> SUFFICES ASSUME IInv, WaitsInOrder,
                      ~CtorMoves, ~ThreadMoves, \A c \in Callers : ~CallerMoves(c)
               PROVE  /\ ctor \notin {"called", "waiting"}
                      /\ thread \in {"none", "loop", "exited"}
                      /\ \A c \in Callers : pc[c] = "idle"
    BY DEF NoDeadlock
  <2>1. ctor \notin {"called", "waiting"}
    BY DEF WaitsInOrder, CtorMoves
  <2>2. thread \in {"none", "loop", "exited"}
    BY DEF IInv, TypeOK, ThreadMoves, Ending
  <2>3. \A c \in Callers : pc[c] \notin {"send", "await", "closed", "lock",
                                        "check", "ran", "skipped", "stop", "unlock"}
    BY DEF WaitsInOrder, CallerMoves
  <2>4. \A c \in Callers : pc[c] # "drain"
    BY <2>3 DEF WaitsInOrder, DoPcs
  <2>5. \A c \in Callers : pc[c] \notin {"once", "rlock"}
    BY <2>3, <2>4 DEF WaitsInOrder, ClosePcs
  <2>6. pc \in [Callers -> {"idle", "once"} \cup DoPcs \cup ClosePcs]
    BY DEF IInv, TypeOK
  <2> QED
    BY <2>1, <2>2, <2>3, <2>4, <2>5, <2>6 DEF DoPcs, ClosePcs
<1> QED
  BY <1>1, EveryWaitIsAnswered, Invariance, PTL

-----------------------------------------------------------------------------
(* Channels and locks are used as Go allows *)

\* No step of the code panics in, or blocks for ever on, a channel or a lock:
\* reqCh and closed are closed once, by whoever comes first, initErr has room
\* for the one answer, and closeMu is given back only by those who hold it.
SyncIsLegal ==
  [][/\ Fail \/ Ready => initErr = "empty"
     /\ Fail \/ CloseClosed => ~closedCh
     /\ \A c \in Callers :
          /\ StopAndCloseReqCh(c) => reqOpen /\ readers = {}
          /\ Unlock(c) => wlock = "held"
          /\ RUnlock(c) => c \in readers]_vars

\* "close of closed channel", "unlock of unlocked RWMutex" and a comThread
\* stuck on a full initErr cannot happen, although fail, the end of comThread
\* and Close close channels at different places (session.go:88-91, 125-163).
THEOREM SynchronisationIsLegal == Spec => SyncIsLegal
<1>1. IInv => /\ Fail \/ Ready => initErr = "empty"
              /\ Fail \/ CloseClosed => ~closedCh
              /\ \A c \in Callers :
                   /\ StopAndCloseReqCh(c) => reqOpen /\ readers = {}
                   /\ Unlock(c) => wlock = "held"
                   /\ RUnlock(c) => c \in readers
  <2> SUFFICES ASSUME IInv
               PROVE  /\ Fail \/ Ready => initErr = "empty"
                      /\ Fail \/ CloseClosed => ~closedCh
                      /\ \A c \in Callers :
                           /\ StopAndCloseReqCh(c) => reqOpen /\ readers = {}
                           /\ Unlock(c) => wlock = "held"
                           /\ RUnlock(c) => c \in readers
    OBVIOUS
  <2>1. Fail \/ Ready => initErr = "empty"
    BY DEF IInv, CtorInv, Fail, Ready, Starting
  <2>2. Fail \/ CloseClosed => ~closedCh
    BY DEF IInv, RefInv, Fail, CloseClosed
  <2>3. ASSUME NEW c \in Callers
        PROVE  /\ StopAndCloseReqCh(c) => reqOpen /\ readers = {}
               /\ Unlock(c) => wlock = "held"
               /\ RUnlock(c) => c \in readers
    BY DEF IInv, TypeOK, LockInv, StopAndCloseReqCh, Unlock, RUnlock, Goto, DoPcs
  <2> QED
    BY <2>1, <2>2, <2>3
<1> QED
  BY <1>1, Invariance, PTL DEF SyncIsLegal

\* The steps a goroutine inside do has left until it gives closeMu back.
StepsLeft(p) == CASE p = "check" -> 4
                  [] p = "send" -> 3
                  [] p = "await" -> 2
                  [] p \in {"ran", "skipped"} -> 1
                  [] OTHER -> 0

\* What Close waits for only gets less: once it has announced itself nobody
\* else gets into do, and those inside only go towards its end.
DrainShrinks ==
  [][wlock # "free" => /\ readers' \subseteq readers
                       /\ \A c \in Callers : StepsLeft(pc'[c]) <= StepsLeft(pc[c])]_vars

\* An endless stream of do calls cannot hold Close back (session.go:35-44); with
\* DeadlockFree, the part of CloseReturns that needs no fairness.
THEOREM CloseIsNotOvertaken == Spec => DrainShrinks
<1> DEFINE less == /\ readers' \subseteq readers
                   /\ \A c \in Callers : StepsLeft(pc'[c]) <= StepsLeft(pc[c])
           same == readers' = readers /\ pc' = pc
<1>1. ASSUME NEW p PROVE StepsLeft(p) \in 0..4
  BY DEF StepsLeft
<1>2. ASSUME IInv, [Next]_vars, wlock # "free" PROVE less
  <2>1. same => less
    BY <1>1
  <2>2. pc \in [Callers -> {"idle", "once"} \cup DoPcs \cup ClosePcs]
    BY <1>2 DEF IInv, TypeOK
  <2>3. ASSUME NEW c \in Callers, NEW p, pc' = [pc EXCEPT ![c] = p],
               StepsLeft(p) <= StepsLeft(pc[c]), readers' \subseteq readers
        PROVE  less
    BY <1>1, <2>2, <2>3
  <2>4. CASE NewSession \/ Startup \/ Teardown \/ Terminated \/ UNCHANGED vars
    <3>1. same
      BY <2>4 DEF NewSession, NewSessionReject, NewSessionStart, NewSessionReturn,
             Startup, StartupUnchanged, InitCOM, ActivateSessionManager, CreateSession,
             CreateVolume, VolumesDone, Abandon, Fail, Ready, Teardown, DetectClosed,
             Terminate, ReleaseRefs, CloseClosed, ThreadUnchanged, Terminated, vars
    <3> QED
      BY <2>1, <3>1
  <2>5. CASE RunRequest
    <3>1. current \in Callers /\ pc[current] = "await"
      BY <1>2, <2>5 DEF IInv, LockInv, RunRequest
    <3>2. pc' = [pc EXCEPT ![current] = "ran"] /\ readers' = readers
      BY <2>5 DEF RunRequest, ThreadUnchanged
    <3>3. StepsLeft("ran") <= StepsLeft("await")
      BY DEF StepsLeft
    <3> QED
      BY <2>3, <3>1, <3>2, <3>3
  <2>6. ASSUME NEW c \in Callers,
               DoCall(c) \/ CloseCall(c) \/ Do(c) \/ Receive(c) \/ Close(c)
        PROVE  less
    <3>1. PICK p : /\ pc' = [pc EXCEPT ![c] = p] /\ readers' \subseteq readers
                   /\ StepsLeft(p) <= StepsLeft(pc[c])
      BY <1>2, <2>6 DEF DoCall, CloseCall, Do, RLock, CheckStopped, RUnlock, Receive,
             Close, OnceEnter, OnceWait, LockAnnounce, LockAcquire, StopAndCloseReqCh,
             Unlock, AwaitClosed, CallerUnchanged, ThreadUnchanged, Goto, StepsLeft
    <3> QED
      BY <2>3, <3>1
  <2> HIDE DEF less
  <2> QED
    BY <1>2, <2>4, <2>5, <2>6 DEF Next
<1> QED
  BY <1>2, Invariance, PTL DEF Spec, DrainShrinks
=============================================================================
