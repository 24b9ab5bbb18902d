------------------------------ MODULE Session ------------------------------
(***************************************************************************)
(* The lifecycle and threading core of session.go: NewSession, comThread,  *)
(* do and Close.                                                           *)
(*                                                                         *)
(* One goroutine (comThread) owns every COM object of the session.  Any    *)
(* other goroutine reaches it by sending a closure on the unbuffered       *)
(* channel reqCh (do), holding closeMu for reading until the closure has   *)
(* run.  Close takes closeMu for writing, sets stopped, closes reqCh, and  *)
(* waits on the channel closed, which comThread closes after teardown.     *)
(*                                                                         *)
(* pc[c] is the program counter of goroutine c, thread that of comThread,  *)
(* ctor that of the goroutine inside NewSession.  Every step that another  *)
(* goroutine can observe is an action of its own.  The closures themselves *)
(* are opaque here; Dial.tla models what they do.                          *)
(***************************************************************************)
EXTENDS Naturals

CONSTANTS Callers,      \* goroutines that hold the *Session
          Nobody,       \* no caller
          MaxVolumes    \* bound on len(opts.Volumes)

ASSUME CallersAssumption == Nobody \notin Callers
ASSUME VolumesAssumption == MaxVolumes \in Nat

VARIABLES
  opts,          \* the Options of NewSession, as far as control depends on them
  ctor,          \* NewSession: "called", "waiting", "ok" or "failed"
  initErr,       \* the one-slot channel initErr
  thread,        \* program counter of comThread
  current,       \* the caller whose closure comThread is running
  mgr, sess,     \* COM references of sessionManager and wslcSession
  vm,            \* the VM behind the session
  created,       \* number of volumes created so far
  reqOpen,       \* reqCh has not been closed
  closedCh,      \* the channel closed has been closed
  readers,       \* goroutines holding closeMu for reading
  wlock,         \* closeMu's writer side: "free", "pending" or "held"
  stopped,       \* Session.stopped
  once,          \* closeOnce: "new", "running" or "done"
  pc,            \* program counters of the callers
  closeReturned  \* history: some call of Close has returned

ctorVars == <<opts, ctor, initErr>>
comVars  == <<mgr, sess, vm, created>>
lockVars == <<readers, wlock, stopped, once>>
vars == <<ctorVars, comVars, lockVars, thread, current, reqOpen, closedCh,
          pc, closeReturned>>

Ref == {"none", "held", "released"}

DoPcs    == {"rlock", "check", "send", "await", "ran", "skipped"}
ClosePcs == {"lock", "drain", "stop", "unlock", "closed"}
Starting == {"none", "init", "activate", "create", "volumes", "abandon",
            "fail", "ready"}
Ending   == {"terminate", "release", "signal", "exited"}

TypeOK ==
  /\ opts \in [volumes : 0..MaxVolumes, storage : BOOLEAN]
  /\ ctor \in {"called", "waiting", "ok", "failed"}
  /\ initErr \in {"empty", "nil", "error"}
  /\ thread \in Starting \cup {"loop", "running"} \cup Ending
  /\ current \in Callers \cup {Nobody}
  /\ mgr \in Ref /\ sess \in Ref
  /\ vm \in {"none", "up", "down"}
  /\ created \in 0..MaxVolumes
  /\ reqOpen \in BOOLEAN /\ closedCh \in BOOLEAN
  /\ readers \in SUBSET Callers
  /\ wlock \in {"free", "pending", "held"}
  /\ stopped \in BOOLEAN
  /\ once \in {"new", "running", "done"}
  /\ pc \in [Callers -> {"idle", "once"} \cup DoPcs \cup ClosePcs]
  /\ closeReturned \in BOOLEAN

Init ==
  /\ opts \in [volumes : 0..MaxVolumes, storage : BOOLEAN]
  /\ ctor = "called" /\ initErr = "empty"
  /\ thread = "none" /\ current = Nobody
  /\ mgr = "none" /\ sess = "none" /\ vm = "none" /\ created = 0
  /\ reqOpen = TRUE /\ closedCh = FALSE
  /\ readers = {} /\ wlock = "free" /\ stopped = FALSE /\ once = "new"
  /\ pc = [c \in Callers |-> "idle"]
  /\ closeReturned = FALSE

Goto(c, from, to) == pc[c] = from /\ pc' = [pc EXCEPT ![c] = to]

-----------------------------------------------------------------------------
(* NewSession *)

\* Volumes without a storage path are refused before anything is started.
NewSessionReject ==
  /\ ctor = "called"
  /\ opts.volumes > 0 /\ ~opts.storage
  /\ ctor' = "failed"
  /\ UNCHANGED <<opts, initErr, comVars, lockVars, thread, current, reqOpen,
                 closedCh, pc, closeReturned>>

NewSessionStart ==
  /\ ctor = "called"
  /\ opts.volumes = 0 \/ opts.storage
  /\ ctor' = "waiting" /\ thread' = "init"
  /\ UNCHANGED <<opts, initErr, comVars, lockVars, current, reqOpen,
                 closedCh, pc, closeReturned>>

NewSessionReturn ==
  /\ ctor = "waiting" /\ initErr # "empty"
  /\ ctor' = IF initErr = "nil" THEN "ok" ELSE "failed"
  /\ initErr' = "empty"
  /\ UNCHANGED <<opts, comVars, lockVars, thread, current, reqOpen,
                 closedCh, pc, closeReturned>>

-----------------------------------------------------------------------------
(* comThread: startup *)

StartupUnchanged ==
  UNCHANGED <<opts, ctor, lockVars, current, reqOpen, pc, closeReturned>>

\* initCOM: any of CoInitializeEx, CoInitializeSecurity, WSAStartup may fail.
InitCOM ==
  /\ thread = "init"
  /\ thread' \in {"activate", "fail"}
  /\ UNCHANGED <<initErr, comVars, closedCh>>
  /\ StartupUnchanged

ActivateSessionManager ==
  /\ thread = "activate"
  /\ \/ thread' = "create" /\ mgr' = "held"
     \/ thread' = "fail" /\ UNCHANGED mgr
  /\ UNCHANGED <<initErr, sess, vm, created, closedCh>>
  /\ StartupUnchanged

CreateSession ==
  /\ thread = "create"
  /\ \/ thread' = "volumes" /\ sess' = "held" /\ vm' = "up" /\ UNCHANGED mgr
     \/ thread' = "fail" /\ mgr' = "released" /\ UNCHANGED <<sess, vm>>
  /\ UNCHANGED <<initErr, created, closedCh>>
  /\ StartupUnchanged

\* Mutant: one volume too many.
CreateVolumePastEnd ==
  /\ thread = "volumes" /\ created <= opts.volumes
  /\ created' = created + 1
  /\ UNCHANGED <<thread, initErr, mgr, sess, vm, closedCh>>
  /\ StartupUnchanged

\* Mutant: a volume that cannot be created is skipped, not fatal.
CreateVolumeIgnoringError ==
  /\ thread = "volumes" /\ created < opts.volumes
  /\ \/ created' = created + 1 /\ UNCHANGED thread
     \/ thread' = "ready" /\ UNCHANGED created
  /\ UNCHANGED <<initErr, mgr, sess, vm, closedCh>>
  /\ StartupUnchanged

CreateVolume ==
  /\ thread = "volumes" /\ created < opts.volumes
  /\ \/ created' = created + 1 /\ UNCHANGED thread
     \/ thread' = "abandon" /\ UNCHANGED created
  /\ UNCHANGED <<initErr, mgr, sess, vm, closedCh>>
  /\ StartupUnchanged

VolumesDone ==
  /\ thread = "volumes" /\ created = opts.volumes
  /\ thread' = "ready"
  /\ UNCHANGED <<initErr, comVars, closedCh>>
  /\ StartupUnchanged

\* All-or-nothing: Terminate may fail, but the released references take the
\* (never persistent) VM down.
Abandon ==
  /\ thread = "abandon"
  /\ sess' = "released" /\ mgr' = "released" /\ vm' = "down"
  /\ thread' = "fail"
  /\ UNCHANGED <<initErr, created, closedCh>>
  /\ StartupUnchanged

\* Mutant: the error is dropped.
FailSilently ==
  /\ thread = "fail"
  /\ closedCh' = TRUE /\ thread' = "exited"
  /\ UNCHANGED <<initErr, comVars>>
  /\ StartupUnchanged

Fail ==
  /\ thread = "fail"
  /\ initErr' = "error" /\ closedCh' = TRUE /\ thread' = "exited"
  /\ UNCHANGED comVars
  /\ StartupUnchanged

\* s.mgr and s.sess are set before NewSession is let go.
Ready ==
  /\ thread = "ready"
  /\ initErr' = "nil" /\ thread' = "loop"
  /\ UNCHANGED <<comVars, closedCh>>
  /\ StartupUnchanged

-----------------------------------------------------------------------------
(* comThread: the request loop and the teardown *)

ThreadUnchanged ==
  UNCHANGED <<ctorVars, lockVars, created, reqOpen, closeReturned>>

\* The rendezvous on reqCh: caller c hands over its closure.
Receive(c) ==
  /\ thread = "loop" /\ reqOpen
  /\ Goto(c, "send", "await")
  /\ thread' = "running" /\ current' = c
  /\ UNCHANGED <<mgr, sess, vm, closedCh>>
  /\ ThreadUnchanged

\* The closure runs and closes done, which lets its caller go on.
RunRequest ==
  /\ thread = "running"
  /\ pc' = [pc EXCEPT ![current] = "ran"]
  /\ thread' = "loop" /\ current' = Nobody
  /\ UNCHANGED <<mgr, sess, vm, closedCh>>
  /\ ThreadUnchanged

\* range reqCh ends.
DetectClosed ==
  /\ thread = "loop" /\ ~reqOpen
  /\ thread' = "terminate"
  /\ UNCHANGED <<mgr, sess, vm, closedCh, current, pc>>
  /\ ThreadUnchanged

\* Mutant: Close is let go before the references are released.
TerminateAndSignal ==
  /\ thread = "terminate"
  /\ vm' \in {vm, "down"}
  /\ thread' = "release" /\ closedCh' = TRUE
  /\ UNCHANGED <<mgr, sess, current, pc>>
  /\ ThreadUnchanged

\* Best effort: the VM may survive it.
Terminate ==
  /\ thread = "terminate"
  /\ vm' \in {vm, "down"}
  /\ thread' = "release"
  /\ UNCHANGED <<mgr, sess, closedCh, current, pc>>
  /\ ThreadUnchanged

\* The last references go, and with them the VM.
ReleaseRefs ==
  /\ thread = "release"
  /\ sess' = "released" /\ mgr' = "released" /\ vm' = "down"
  /\ thread' = "signal"
  /\ UNCHANGED <<closedCh, current, pc>>
  /\ ThreadUnchanged

CloseClosed ==
  /\ thread = "signal"
  /\ closedCh' = TRUE /\ thread' = "exited"
  /\ UNCHANGED <<mgr, sess, vm, current, pc>>
  /\ ThreadUnchanged

-----------------------------------------------------------------------------
(* do *)

CallerUnchanged ==
  UNCHANGED <<ctorVars, comVars, thread, current, closedCh>>

DoCall(c) ==
  /\ ctor = "ok"
  /\ Goto(c, "idle", "rlock")
  /\ UNCHANGED <<lockVars, reqOpen, closeReturned>>
  /\ CallerUnchanged

\* Mutant: readers overtake a writer that is waiting for them.
RLockPastWriter(c) ==
  /\ wlock # "held"
  /\ Goto(c, "rlock", "check")
  /\ readers' = readers \cup {c}
  /\ UNCHANGED <<wlock, stopped, once, reqOpen, closeReturned>>
  /\ CallerUnchanged

\* A writer that waits for readers to leave already holds back new ones.
RLock(c) ==
  /\ wlock = "free"
  /\ Goto(c, "rlock", "check")
  /\ readers' = readers \cup {c}
  /\ UNCHANGED <<wlock, stopped, once, reqOpen, closeReturned>>
  /\ CallerUnchanged

\* Mutant: stopped is not looked at.
CheckNothing(c) ==
  /\ Goto(c, "check", "send")
  /\ UNCHANGED <<lockVars, reqOpen, closeReturned>>
  /\ CallerUnchanged

CheckStopped(c) ==
  /\ Goto(c, "check", IF stopped THEN "skipped" ELSE "send")
  /\ UNCHANGED <<lockVars, reqOpen, closeReturned>>
  /\ CallerUnchanged

RUnlock(c) ==
  /\ Goto(c, "ran", "idle") \/ Goto(c, "skipped", "idle")
  /\ readers' = readers \ {c}
  /\ UNCHANGED <<wlock, stopped, once, reqOpen, closeReturned>>
  /\ CallerUnchanged

-----------------------------------------------------------------------------
(* Close *)

CloseCall(c) ==
  /\ ctor = "ok"
  /\ Goto(c, "idle", "once")
  /\ UNCHANGED <<lockVars, reqOpen, closeReturned>>
  /\ CallerUnchanged

OnceEnter(c) ==
  /\ once = "new"
  /\ Goto(c, "once", "lock")
  /\ once' = "running"
  /\ UNCHANGED <<readers, wlock, stopped, reqOpen, closeReturned>>
  /\ CallerUnchanged

\* Mutant: a second Close returns while the first is still at work.
OnceSkip(c) ==
  /\ once # "new"
  /\ Goto(c, "once", "idle")
  /\ closeReturned' = TRUE
  /\ UNCHANGED <<lockVars, reqOpen>>
  /\ CallerUnchanged

\* sync.Once: a second Close waits for the first to finish.
OnceWait(c) ==
  /\ once = "done"
  /\ Goto(c, "once", "idle")
  /\ closeReturned' = TRUE
  /\ UNCHANGED <<lockVars, reqOpen>>
  /\ CallerUnchanged

LockAnnounce(c) ==
  /\ wlock = "free"
  /\ Goto(c, "lock", "drain")
  /\ wlock' = "pending"
  /\ UNCHANGED <<readers, stopped, once, reqOpen, closeReturned>>
  /\ CallerUnchanged

\* Mutant: readers already inside are not waited for.
LockAcquireNoDrain(c) ==
  /\ Goto(c, "drain", "stop")
  /\ wlock' = "held"
  /\ UNCHANGED <<readers, stopped, once, reqOpen, closeReturned>>
  /\ CallerUnchanged

LockAcquire(c) ==
  /\ readers = {}
  /\ Goto(c, "drain", "stop")
  /\ wlock' = "held"
  /\ UNCHANGED <<readers, stopped, once, reqOpen, closeReturned>>
  /\ CallerUnchanged

StopAndCloseReqCh(c) ==
  /\ Goto(c, "stop", "unlock")
  /\ stopped' = TRUE /\ reqOpen' = FALSE
  /\ UNCHANGED <<readers, wlock, once, closeReturned>>
  /\ CallerUnchanged

\* Mutant: the lock is never given back.
UnlockForgotten(c) ==
  /\ Goto(c, "unlock", "closed")
  /\ UNCHANGED <<lockVars, reqOpen, closeReturned>>
  /\ CallerUnchanged

Unlock(c) ==
  /\ Goto(c, "unlock", "closed")
  /\ wlock' = "free"
  /\ UNCHANGED <<readers, stopped, once, reqOpen, closeReturned>>
  /\ CallerUnchanged

AwaitClosed(c) ==
  /\ closedCh
  /\ Goto(c, "closed", "idle")
  /\ once' = "done" /\ closeReturned' = TRUE
  /\ UNCHANGED <<readers, wlock, stopped, reqOpen>>
  /\ CallerUnchanged

-----------------------------------------------------------------------------
(* The specification *)

NewSession == NewSessionReject \/ NewSessionStart \/ NewSessionReturn

Startup == \/ InitCOM \/ ActivateSessionManager \/ CreateSession
           \/ CreateVolume \/ VolumesDone \/ Abandon \/ Fail \/ Ready

Teardown == DetectClosed \/ Terminate \/ ReleaseRefs \/ CloseClosed

Do(c) == RLock(c) \/ CheckStopped(c) \/ RUnlock(c)

Close(c) == \/ OnceEnter(c) \/ OnceWait(c) \/ LockAnnounce(c) \/ LockAcquire(c)
            \/ StopAndCloseReqCh(c) \/ Unlock(c) \/ AwaitClosed(c)

\* After a failed NewSession there is nobody left to take a step.
Terminated == /\ ctor = "failed" /\ thread \in {"none", "exited"}
              /\ UNCHANGED vars

Next == \/ NewSession \/ Startup \/ RunRequest \/ Teardown \/ Terminated
        \/ \E c \in Callers : \/ DoCall(c) \/ CloseCall(c)
                              \/ Do(c) \/ Receive(c) \/ Close(c)

Spec == Init /\ [][Next]_vars

\* Goroutines are scheduled fairly and every COM call returns.  Nobody has to
\* call do or Close.  Blocked senders of a channel are served first come,
\* first served, so a sender whose turn comes again and again is received.
Fairness ==
  /\ WF_vars(NewSession) /\ WF_vars(Startup)
  /\ WF_vars(RunRequest) /\ WF_vars(Teardown)
  /\ \A c \in Callers : /\ WF_vars(Do(c)) /\ WF_vars(Close(c))
                        /\ SF_vars(Receive(c))

FairSpec == Spec /\ Fairness

-----------------------------------------------------------------------------
(* Properties *)

\* The panic that closeMu is there for ("send on closed channel",
\* session.go:35-44): no goroutine is in the middle of a send in do when Close
\* has closed reqCh.
NoSendOnClosedChannel == \A c \in Callers : pc[c] = "send" => reqOpen

\* A closure that comThread runs finds both COM references alive and the VM
\* up, whatever Close is doing meanwhile, and runs for a caller that is still
\* waiting for it in do.
RequestsMeetLiveSession ==
  thread = "running" => /\ mgr = "held" /\ sess = "held" /\ vm = "up"
                        /\ ~stopped
                        /\ current \in Callers /\ pc[current] = "await"

\* Close "blocks until teardown completes" (session.go:150-151): once any call
\* of it has returned, a second or concurrent one included, the references are
\* released, the VM is gone and comThread runs nothing.
CloseReturnsAfterTeardown ==
  closeReturned => /\ mgr = "released" /\ sess = "released" /\ vm = "down"
                   /\ closedCh /\ thread = "exited"

\* "All-or-nothing" (session.go:113-114): NewSession hands back a session with
\* every volume created, or an error with nothing left behind.
AllOrNothing ==
  /\ ctor = "ok" => created = opts.volumes
  /\ ctor = "failed" => mgr # "held" /\ sess # "held" /\ vm # "up"

\* Who has which part of the startup: comThread works for a NewSession that
\* waits, answers it once, and until NewSession has returned nobody else has
\* the Session in hand.
CtorInv ==
  /\ ctor = "called" => thread = "none" /\ initErr = "empty"
  /\ ctor = "waiting" => thread # "none"
  /\ ctor = "failed" => thread \in {"none", "exited"}
  /\ thread \in Starting \ {"none"} => ctor = "waiting" /\ initErr = "empty"
  /\ thread \in Starting => ctor # "ok"
  /\ initErr = "nil" => ctor = "waiting" /\ thread = "loop"
  /\ initErr = "error" => ctor = "waiting" /\ thread = "exited"
  /\ thread \in {"running", "terminate", "release", "signal"} => ctor = "ok"
  /\ thread = "loop" => ctor = "ok" \/ initErr = "nil"
  /\ thread = "exited" => ctor \in {"ok", "failed"} \/ initErr = "error"
  /\ ctor # "ok" => /\ pc = [c \in Callers |-> "idle"]
                    /\ once = "new" /\ wlock = "free" /\ readers = {}
                    /\ ~stopped /\ ~closeReturned

\* Which references and volumes exist at each point of comThread.
RefInv ==
  /\ closedCh <=> thread = "exited"
  /\ thread \in {"none", "init", "activate"} =>
       mgr = "none" /\ sess = "none" /\ vm = "none"
  /\ thread = "create" => mgr = "held" /\ sess = "none" /\ vm = "none"
  /\ thread \in {"volumes", "abandon", "ready", "loop", "running", "terminate"} =>
       mgr = "held" /\ sess = "held" /\ vm = "up"
  /\ thread = "release" => mgr = "held" /\ sess = "held"
  /\ thread \in {"fail", "exited"} => mgr # "held" /\ sess # "held" /\ vm # "up"
  /\ thread = "signal" \/ (thread = "exited" /\ ctor = "ok") =>
       mgr = "released" /\ sess = "released" /\ vm = "down"
  /\ created <= opts.volumes
  /\ thread \in {"ready", "loop", "running"} \/ ctor = "ok" =>
       created = opts.volumes

\* Who holds closeMu, who runs Close, and what they have changed so far.
LockInv ==
  /\ readers = {c \in Callers : pc[c] \in DoPcs \ {"rlock"}}
  /\ wlock = "held" => readers = {}
  /\ \A c \in Callers : /\ pc[c] \in {"stop", "unlock"} => wlock = "held"
                        /\ pc[c] = "drain" => wlock = "pending"
                        /\ pc[c] \in ClosePcs => once = "running"
                        /\ pc[c] \in {"lock", "drain", "stop"} => ~stopped
                        /\ pc[c] \in {"unlock", "closed"} => stopped
  /\ \A c, d \in Callers : pc[c] \in ClosePcs /\ pc[d] \in ClosePcs => c = d
  /\ wlock # "free" =>
       \E c \in Callers : pc[c] \in {"drain", "stop", "unlock"}
  /\ once = "new" => ~stopped
  /\ once = "done" => stopped /\ closedCh
  /\ stopped <=> ~reqOpen
  /\ stopped => \A c \in Callers : pc[c] \notin {"send", "await", "ran"}
  /\ thread \in {"terminate", "release", "signal"}
       \/ (thread = "exited" /\ ctor = "ok") => stopped
  /\ \A c \in Callers :
       pc[c] = "await" <=> thread = "running" /\ current = c
  /\ thread = "running" => current \in Callers
  /\ closeReturned => closedCh /\ ctor = "ok"

\* Startup, references and locking fit together at every step; an inductive
\* invariant, from which SessionProofs derives the properties above.
IInv == TypeOK /\ CtorInv /\ RefInv /\ LockInv

\* The phases and requests a user of the Session can tell apart.
phase == CASE ctor = "failed" -> "failed"
           [] ctor \in {"called", "waiting"} -> "starting"
           [] ctor = "ok" /\ closedCh -> "torndown"
           [] ctor = "ok" /\ ~closedCh /\ stopped -> "stopped"
           [] OTHER -> "open"

RequestAt(p) == CASE p \in {"rlock", "check", "send", "await"} -> "called"
                  [] p \in {"ran", "skipped"} -> p
                  [] OTHER -> "idle"

req == [c \in Callers |-> RequestAt(pc[c])]

Exec == INSTANCE ComExecutor

\* do runs a request at most once, only while the session is open; a request
\* let in before Close is run before Close takes effect, one that comes later
\* is answered without being run; teardown follows the stop.
ImplementsComExecutor == Exec!Spec

\* Every call of do returns, run or skipped, also when Close races it.
DoReturns == \A c \in Callers : pc[c] = "rlock" ~> pc[c] = "idle"

\* Every call of Close returns, also under an endless stream of do calls.
CloseReturns == \A c \in Callers : pc[c] = "once" ~> pc[c] = "idle"

\* NewSession returns, whichever COM call fails.
NewSessionReturns == ctor = "waiting" ~> ctor \in {"ok", "failed"}
=============================================================================
