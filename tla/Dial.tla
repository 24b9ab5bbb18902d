-------------------------------- MODULE Dial --------------------------------
(***************************************************************************)
(* Connections into the guest: dial, ensureBridgeMounted and               *)
(* releaseProcess of session.go, and the net.Conn of conn.go.              *)
(*                                                                         *)
(* A call of do is one step here.  ComExecutor says that its closure runs  *)
(* alone on the COM thread while the session is open, or not at all once   *)
(* it has stopped, and that the caller has nothing to do but wait; Session *)
(* implements that.                                                        *)
(*                                                                         *)
(* The sockets are raw handles: small numbers that the operating system    *)
(* gives out again as soon as they are closed.  owner[h] is the connection *)
(* whose socket h is now.                                                  *)
(***************************************************************************)
EXTENDS Integers

CONSTANTS Dials,      \* calls of dial, each with the connection it returns
          Users,      \* goroutines that share a connection
          Handles,    \* socket handles
          NoHandle,   \* the zero socketHandle, never a valid socket
          Nobody,     \* no owner
          MaxSends    \* send calls that one Write takes at most

ASSUME DialConstants == /\ NoHandle \notin Handles
                        /\ Nobody \notin Dials
                        /\ MaxSends \in Nat \ {0}

VARIABLES
  open,        \* Session.stopped is false: closures given to do run
  bridgeDone,  \* Session.bridgeDone
  mounted,     \* the guest has the bridge directory mounted
  conn,        \* conn[d]: locals of dial d, then the fields of its guestConn
  owner,       \* owner[h]: the connection whose open socket h is
  upc,         \* upc[d][u]: goroutine u inside Close or CloseWrite of d
  stray,       \* history: <<d, e>> when bytes of d moved over a socket of e
  crashed      \* the program panicked

vars == <<open, bridgeDone, mounted, conn, owner, upc, stray, crashed>>

Once == {"new", "running", "done"}
ClosePcs == {"close", "closeCw", "closeShutdown", "closeIn", "closeOut", "release"}

\* The locals of a dial, then the fields of the guestConn it returns.
Connection == [pc : {"idle", "mount", "spawn", "handles", "undo", "conn", "failed"},
               process : {"nil", "held", "released", "overreleased"},
               stdin : Handles \cup {NoHandle}, stdout : Handles \cup {NoHandle},
               closeOnce : Once, writeOnce : Once,
               sends : 0..MaxSends, reading : BOOLEAN]

TypeOK ==
  /\ open \in BOOLEAN /\ bridgeDone \in BOOLEAN /\ mounted \in BOOLEAN
  /\ conn \in [Dials -> Connection]
  /\ owner \in [Handles -> Dials \cup {Nobody}]
  /\ upc \in [Dials -> [Users -> {"idle", "cw", "cwShutdown"} \cup ClosePcs]]
  /\ stray \in SUBSET (Dials \X Dials)
  /\ crashed \in BOOLEAN

Init ==
  /\ open = TRUE /\ bridgeDone = FALSE /\ mounted = FALSE
  /\ conn = [d \in Dials |->
               [pc |-> "idle", process |-> "nil",
                stdin |-> NoHandle, stdout |-> NoHandle,
                closeOnce |-> "new", writeOnce |-> "new",
                sends |-> 0, reading |-> FALSE]]
  /\ owner = [h \in Handles |-> Nobody]
  /\ upc = [d \in Dials |-> [u \in Users |-> "idle"]]
  /\ stray = {} /\ crashed = FALSE

Free == {h \in Handles : owner[h] = Nobody}
OwnerOf(h) == IF h = NoHandle THEN Nobody ELSE owner[h]

-----------------------------------------------------------------------------
(* The session and dial *)

SessionClose ==
  /\ ~crashed /\ open
  /\ open' = FALSE
  /\ UNCHANGED <<bridgeDone, mounted, conn, owner, upc, stray, crashed>>

DialUnchanged == ~crashed /\ UNCHANGED <<open, upc, stray, crashed>>

DialCall(d) ==
  /\ conn[d].pc = "idle"
  /\ conn' = [conn EXCEPT ![d].pc = "mount"]
  /\ UNCHANGED <<bridgeDone, mounted, owner>>
  /\ DialUnchanged

\* A directory that is mounted already is no error; but MountWindowsFolder may
\* take effect and still report another one, and fail although it is mounted.
Mount == \/ mounted' = TRUE /\ bridgeDone' = TRUE
         \/ mounted' \in {mounted, TRUE} /\ UNCHANGED bridgeDone

\* Mutant: the bridge counts as mounted whatever MountWindowsFolder says.
EnsureMountedAnyway(d) ==
  /\ conn[d].pc = "mount"
  /\ \/ ~open /\ UNCHANGED <<bridgeDone, mounted>>
     \/ open /\ bridgeDone' = TRUE /\ mounted' \in {mounted, TRUE}
  /\ conn' = [conn EXCEPT ![d].pc = "spawn"]
  /\ UNCHANGED owner
  /\ DialUnchanged

EnsureBridgeMounted(d) ==
  /\ conn[d].pc = "mount"
  /\ \/ /\ ~open \/ bridgeDone
        /\ conn' = [conn EXCEPT ![d].pc = "spawn"]
        /\ UNCHANGED <<bridgeDone, mounted>>
     \/ /\ open /\ ~bridgeDone
        /\ Mount
        /\ conn' = [conn EXCEPT ![d].pc = IF bridgeDone' THEN "spawn" ELSE "failed"]
     \/ /\ open /\ ~bridgeDone      \* extractBridgeBinary failed
        /\ conn' = [conn EXCEPT ![d].pc = "failed"]
        /\ UNCHANGED <<bridgeDone, mounted>>
  /\ UNCHANGED owner
  /\ DialUnchanged

\* Mutant: the error of CreateRootNamespaceProcess is not looked at.
SpawnUnchecked(d) ==
  /\ conn[d].pc = "spawn"
  /\ \/ open /\ conn' = [conn EXCEPT ![d].pc = "handles", ![d].process = "held"]
     \/ conn' = [conn EXCEPT ![d].pc = "handles"]
  /\ UNCHANGED <<bridgeDone, mounted, owner>>
  /\ DialUnchanged

\* Mutant: do waits for a session that has stopped.
SpawnWhenOpen(d) ==
  /\ conn[d].pc = "spawn"
  /\ \/ open /\ conn' = [conn EXCEPT ![d].pc = "handles", ![d].process = "held"]
     \/ open /\ conn' = [conn EXCEPT ![d].pc = "failed"]
  /\ UNCHANGED <<bridgeDone, mounted, owner>>
  /\ DialUnchanged

\* A closure that did not run leaves process nil and callErr nil.
Spawn(d) ==
  /\ conn[d].pc = "spawn"
  /\ \/ open /\ conn' = [conn EXCEPT ![d].pc = "handles", ![d].process = "held"]
     \/ open /\ conn' = [conn EXCEPT ![d].pc = "failed"]
     \/ ~open /\ conn' = [conn EXCEPT ![d].pc = "handles"]
  /\ UNCHANGED <<bridgeDone, mounted, owner>>
  /\ DialUnchanged

\* stdin first; when stdout cannot be had, stdin stays behind.  As in Spawn, a
\* closure that did not run is no error.
GetStdHandles(d) ==
  /\ conn[d].pc = "handles"
  /\ \/ open /\ conn' = [conn EXCEPT ![d].pc = "undo"] /\ UNCHANGED owner
     \/ \E i \in Free :
          /\ open
          /\ conn' = [conn EXCEPT ![d].pc = "undo", ![d].stdin = i]
          /\ owner' = [owner EXCEPT ![i] = d]
     \/ \E i, o \in Free :
          /\ open /\ i # o
          /\ conn' = [conn EXCEPT ![d].pc = "conn", ![d].stdin = i, ![d].stdout = o]
          /\ owner' = [owner EXCEPT ![i] = d, ![o] = d]
     \/ ~open /\ conn' = [conn EXCEPT ![d].pc = "conn"] /\ UNCHANGED owner
  /\ UNCHANGED <<bridgeDone, mounted>>
  /\ DialUnchanged

Released(p) == CASE p = "held" -> "released"
                 [] p = "released" -> "overreleased"
                 [] OTHER -> p

\* Mutant: a failed dial forgets its process.
UndoNothing(d) ==
  /\ conn[d].pc = "undo"
  /\ conn' = [conn EXCEPT ![d].pc = "failed"]
  /\ UNCHANGED <<bridgeDone, mounted, owner>>
  /\ DialUnchanged

\* releaseProcess after an error of GetStdHandle.
UndoSpawn(d) ==
  /\ conn[d].pc = "undo"
  /\ conn' = [conn EXCEPT ![d].pc = "failed",
                          ![d].process = IF open THEN Released(@) ELSE @]
  /\ UNCHANGED <<bridgeDone, mounted, owner>>
  /\ DialUnchanged

-----------------------------------------------------------------------------
(* guestConn: Read and Write, by any goroutine, started before Close *)

IoUnchanged == ~crashed /\ UNCHANGED <<open, bridgeDone, mounted, owner, upc, crashed>>

Usable(d) == conn[d].pc = "conn" /\ conn[d].closeOnce = "new"

Read(d) ==
  /\ Usable(d) /\ ~conn[d].reading
  /\ conn' = [conn EXCEPT ![d].reading = TRUE]
  /\ UNCHANGED stray
  /\ IoUnchanged

Write(d) ==
  /\ Usable(d) /\ conn[d].sends = 0
  /\ \E n \in 1..MaxSends : conn' = [conn EXCEPT ![d].sends = n]
  /\ UNCHANGED stray
  /\ IoUnchanged

\* The socket a call on handle h reaches, if any; the call may fail anyway.
Moved(d, h) == stray' = stray \cup {<<d, e>> : e \in {OwnerOf(h)} \ {d, Nobody}}

Recv(d) ==
  /\ conn[d].reading
  /\ conn' = [conn EXCEPT ![d].reading = FALSE]
  /\ Moved(d, conn[d].stdout) \/ UNCHANGED stray
  /\ IoUnchanged

\* Mutant: Write does not look whether anything is left to send.
SendUnguarded(d) ==
  /\ OwnerOf(conn[d].stdin) # Nobody
  /\ conn' = [conn EXCEPT ![d].sends = @ - 1]
  /\ Moved(d, conn[d].stdin)
  /\ IoUnchanged

Send(d) ==
  /\ conn[d].sends > 0
  /\ \/ /\ OwnerOf(conn[d].stdin) # Nobody
        /\ conn' = [conn EXCEPT ![d].sends = @ - 1]
        /\ Moved(d, conn[d].stdin)
     \/ conn' = [conn EXCEPT ![d].sends = 0] /\ UNCHANGED stray
  /\ IoUnchanged

-----------------------------------------------------------------------------
(* guestConn: CloseWrite and Close *)

Goto(d, u, from, to) == upc[d][u] = from /\ upc' = [upc EXCEPT ![d][u] = to]

CloseUnchanged == ~crashed /\ UNCHANGED <<open, bridgeDone, mounted, stray>>

CallClose(d, u) ==
  /\ conn[d].pc = "conn"
  /\ Goto(d, u, "idle", "cw") \/ Goto(d, u, "idle", "close")
  /\ UNCHANGED <<conn, owner, crashed>>
  /\ CloseUnchanged

CloseOnce(d, u) ==
  /\ \/ /\ conn[d].closeOnce = "new"
        /\ Goto(d, u, "close", "closeCw")
        /\ conn' = [conn EXCEPT ![d].closeOnce = "running"]
     \/ /\ conn[d].closeOnce = "done"
        /\ Goto(d, u, "close", "idle")
        /\ UNCHANGED conn
  /\ UNCHANGED <<owner, crashed>>
  /\ CloseUnchanged

\* Mutant: Close does not wait for a CloseWrite that is under way.
WriteCloseNoWait(d, u) ==
  /\ \/ /\ conn[d].writeOnce = "new"
        /\ Goto(d, u, "cw", "cwShutdown") \/ Goto(d, u, "closeCw", "closeShutdown")
        /\ conn' = [conn EXCEPT ![d].writeOnce = "running"]
     \/ /\ conn[d].writeOnce # "new"
        /\ Goto(d, u, "cw", "idle") \/ Goto(d, u, "closeCw", "closeIn")
        /\ UNCHANGED conn
  /\ UNCHANGED <<owner, crashed>>
  /\ CloseUnchanged

WriteCloseOnce(d, u) ==
  /\ \/ /\ conn[d].writeOnce = "new"
        /\ Goto(d, u, "cw", "cwShutdown") \/ Goto(d, u, "closeCw", "closeShutdown")
        /\ conn' = [conn EXCEPT ![d].writeOnce = "running"]
     \/ /\ conn[d].writeOnce = "done"
        /\ Goto(d, u, "cw", "idle") \/ Goto(d, u, "closeCw", "closeIn")
        /\ UNCHANGED conn
  /\ UNCHANGED <<owner, crashed>>
  /\ CloseUnchanged

\* Mutant: the once is never over.
ShutdownForever(d, u) ==
  /\ Goto(d, u, "cwShutdown", "idle") \/ Goto(d, u, "closeShutdown", "closeIn")
  /\ UNCHANGED <<conn, owner, crashed>>
  /\ CloseUnchanged

ShutdownSocket(d, u) ==
  /\ Goto(d, u, "cwShutdown", "idle") \/ Goto(d, u, "closeShutdown", "closeIn")
  /\ conn' = [conn EXCEPT ![d].writeOnce = "done"]
  /\ UNCHANGED <<owner, crashed>>
  /\ CloseUnchanged

\* closesocket frees the handle, whosever socket it is by now.
Freed(h) == [i \in Handles |-> IF i = h THEN Nobody ELSE owner[i]]

\* Mutant: stdin is closed twice, stdout not at all.
CloseStdinTwice(d, u) ==
  /\ Goto(d, u, "closeIn", "closeOut") \/ Goto(d, u, "closeOut", "release")
  /\ owner' = Freed(conn[d].stdin)
  /\ UNCHANGED <<conn, crashed>>
  /\ CloseUnchanged

CloseSocket(d, u) ==
  /\ \/ Goto(d, u, "closeIn", "closeOut") /\ owner' = Freed(conn[d].stdin)
     \/ Goto(d, u, "closeOut", "release") /\ owner' = Freed(conn[d].stdout)
  /\ UNCHANGED <<conn, crashed>>
  /\ CloseUnchanged

\* releaseProcess.  The method value process.Release is evaluated before do
\* looks at stopped: for a nil process it panics.
ReleaseProcess(d, u) ==
  /\ Goto(d, u, "release", "idle")
  /\ crashed' = (conn[d].process = "nil")
  /\ conn' = [conn EXCEPT ![d].closeOnce = "done",
                          ![d].process = IF open THEN Released(@) ELSE @]
  /\ UNCHANGED owner
  /\ CloseUnchanged

-----------------------------------------------------------------------------
(* The specification *)

DialStep(d) == \/ EnsureBridgeMounted(d) \/ Spawn(d)
               \/ GetStdHandles(d) \/ UndoSpawn(d)

CloseStep(d, u) == \/ CloseOnce(d, u) \/ WriteCloseOnce(d, u) \/ ShutdownSocket(d, u)
                   \/ CloseSocket(d, u) \/ ReleaseProcess(d, u)

Next == \/ SessionClose
        \/ \E d \in Dials : \/ DialCall(d) \/ DialStep(d)
                            \/ Read(d) \/ Recv(d) \/ Write(d) \/ Send(d)
                            \/ \E u \in Users : CallClose(d, u) \/ CloseStep(d, u)

Spec == Init /\ [][Next]_vars

\* Goroutines are scheduled fairly and do returns (Session's DoReturns).
Fairness == \A d \in Dials : /\ WF_vars(DialStep(d))
                             /\ \A u \in Users : WF_vars(CloseStep(d, u))

FairSpec == Spec /\ Fairness

-----------------------------------------------------------------------------
(* Properties *)

\* shutdown and closesocket never hit the socket of another connection: a
\* goroutine about to make one of these calls still owns the handle, however
\* many of them call Close and CloseWrite at once (conn.go:69-87).
TeardownOwnsSockets ==
  \A d \in Dials, u \in Users :
    /\ upc[d][u] \in {"cwShutdown", "closeShutdown", "closeIn"} =>
         OwnerOf(conn[d].stdin) = d \/ conn[d].stdin = NoHandle
    /\ upc[d][u] = "closeOut" =>
         OwnerOf(conn[d].stdout) = d \/ conn[d].stdout = NoHandle

\* A connection that has been closed keeps no socket, and no process reference
\* either while there is a COM thread to release it (conn.go:76-87).
ClosedConnHoldsNothing ==
  \A d \in Dials : conn[d].closeOnce = "done" =>
    /\ \A h \in Handles : owner[h] # d
    /\ open => conn[d].process # "held"

\* A process reference is given back at most once, and by a failed dial too
\* unless the session is gone (session.go:231-234).
ProcessReleasedOnce ==
  \A d \in Dials : /\ conn[d].process # "overreleased"
                   /\ conn[d].pc = "failed" /\ open => conn[d].process # "held"

\* The closure that calls process.GetStdHandle on the COM thread has a process
\* to call, although dial goes on after a do that ran nothing: a nil process
\* there would panic on the COM thread (session.go:224-230).
HandlesNeedProcess ==
  \A d \in Dials : conn[d].pc = "handles" /\ open => conn[d].process = "held"

\* A bridge process is only spawned where the guest can see entrypoint.sh,
\* also after an earlier dial failed half way (session.go:249-268).
SpawnFindsBridge ==
  \A d \in Dials : conn[d].pc = "spawn" /\ open => mounted

\* dial returns, with a connection or an error.
DialReturns == \A d \in Dials :
                 conn[d].pc = "mount" ~> conn[d].pc \in {"conn", "failed"} \/ crashed

\* Close returns, whoever else is closing the connection.
ConnCloseReturns == \A d \in Dials, u \in Users :
                      upc[d][u] = "close" ~> upc[d][u] = "idle" \/ crashed

\* "any do() call arriving after stopped=true is set simply no-ops"
\* (session.go:43-44), the one in guestConn.Close included.
NoPanic == ~crashed

\* "write here -> guest process's stdin", "read here <- guest process's stdout"
\* (conn.go:26-27): the bytes of a connection move over its own sockets only.
OwnStreamOnly == stray = {}
=============================================================================
