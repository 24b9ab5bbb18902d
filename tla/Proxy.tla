------------------------------- MODULE Proxy -------------------------------
(***************************************************************************)
(* cmd/wslcdemo/proxy.go: runProxy accepts TCP clients and gives each a    *)
(* DockerConn of one session; handleProxyConn relays between the two with  *)
(* one copying goroutine per direction.                                    *)
(*                                                                         *)
(* flow[c]["up"] is the way from client c to the target in the guest,      *)
(* flow[c]["down"] the way back.  The guestConn, the bridge and the socket *)
(* behind it are one bounded queue per direction here, a Pipe, which is    *)
(* what Bridge implements.  Queues keep their order, so they are counts of *)
(* bytes.  That the bridge serves both directions in one loop can only     *)
(* delay them, which Fairness allows for.  What DockerConn returns while   *)
(* the session stops is what Dial finds.                                   *)
(***************************************************************************)
EXTENDS Naturals, Sequences, FiniteSetsExt

CONSTANTS Conns,      \* clients that connect
          MaxBytes,   \* bytes that each end sends at most
          Capacity,   \* bytes that a queue of the system holds
          BufSize     \* the buffer of io.Copy

ASSUME ProxyConstants == /\ MaxBytes \in Nat /\ Capacity \in Nat \ {0}
                         /\ BufSize \in Nat \ {0}

VARIABLES
  main,         \* runProxy and, after it, main
  session,      \* the Session of runProxy
  listening,    \* the listener: none yet, open, or closed
  interrupted,  \* Ctrl+C has been pressed
  handler,      \* handler[c]: handleProxyConn of client c
  guest,        \* guest[c]: the net.Conn that DockerConn returned
  client,       \* client[c]: the other end of the accepted connection
  copier,       \* copier[c][f]: the copying goroutine of direction f
  done,         \* done[c]: messages in the channel done
  flow,         \* flow[c][f]: the two ends, the queues src and dst, the buffer
  broken,       \* history: clients one of whose ends has failed or gone
  crashed       \* the program panicked

mainVars == <<main, session, listening, interrupted>>
endVars == <<guest, client, flow, broken>>
vars == <<mainVars, endVars, handler, copier, done, crashed>>

Dirs == {"up", "down"}
Both(x) == [f \in Dirs |-> x]

TypeOK ==
  /\ main \in {"start", "listen", "accept", "closeListener", "stopSession",
               "terminate", "returned", "exited"}
  /\ session \in {"none", "open", "stopped", "closed"}
  /\ listening \in {"none", "open", "closed"}
  /\ interrupted \in BOOLEAN /\ crashed \in BOOLEAN
  /\ handler \in [Conns -> {"none", "dial", "wait2", "wait1", "closeGuest",
                            "closeClient", "ended"}]
  /\ guest \in [Conns -> {"none", "live", "dead", "nil", "closed"}]
  /\ client \in [Conns -> {"none", "open", "gone"}]
  /\ copier \in [Conns -> [Dirs -> {"none", "read", "write", "shut", "done"}]]
  /\ done \in [Conns -> 0..2]
  /\ flow \in [Conns -> [Dirs -> [sent : 0..MaxBytes, closed : BOOLEAN, src : 0..Capacity,
                                  buf : 0..BufSize, dst : 0..Capacity, shut : BOOLEAN,
                                  got : 0..MaxBytes, eof : BOOLEAN]]]
  /\ broken \in SUBSET Conns

Init ==
  /\ main = "start" /\ session = "none" /\ listening = "none" /\ interrupted = FALSE
  /\ handler = [c \in Conns |-> "none"] /\ guest = [c \in Conns |-> "none"]
  /\ client = [c \in Conns |-> "none"]
  /\ copier = [c \in Conns |-> Both("none")] /\ done = [c \in Conns |-> 0]
  /\ flow = [c \in Conns |-> Both([sent |-> 0, closed |-> FALSE, src |-> 0, buf |-> 0,
                                   dst |-> 0, shut |-> FALSE, got |-> 0, eof |-> FALSE])]
  /\ broken = {} /\ crashed = FALSE

Running == main # "exited" /\ ~crashed

-----------------------------------------------------------------------------
(* runProxy *)

MainGo(from, to) ==
  /\ Running /\ main = from /\ main' = to
  /\ UNCHANGED <<interrupted, handler, client, copier, done, crashed>>

NewSession ==
  /\ \/ MainGo("start", "listen") /\ session' = "open"
     \/ MainGo("start", "returned") /\ UNCHANGED session
  /\ UNCHANGED <<listening, guest, flow, broken>>

\* Mutant: the error path forgets the session.
AfterListenErrorReturn == "returned"

AfterListenError == "stopSession"

Listen ==
  /\ \/ MainGo("listen", "accept") /\ listening' = "open"
     \/ MainGo("listen", AfterListenError) /\ UNCHANGED listening
  /\ UNCHANGED <<session, guest, flow, broken>>

\* The goroutine that waits on sigCh closes the listener.
Interrupt ==
  /\ Running /\ main \in {"accept", "closeListener", "stopSession", "terminate"}
  /\ listening # "none" /\ ~interrupted
  /\ interrupted' = TRUE /\ listening' = "closed"
  /\ UNCHANGED <<main, session, handler, endVars, copier, done, crashed>>

Accept(c) ==
  /\ Running /\ main = "accept" /\ listening = "open"
  /\ handler[c] = "none" /\ handler' = [handler EXCEPT ![c] = "dial"]
  /\ client' = [client EXCEPT ![c] = "open"]
  /\ UNCHANGED <<mainVars, guest, copier, done, flow, broken, crashed>>

\* Mutant: the loop goes on after an error.
AfterAcceptErrorGoOn == "accept"

AfterAcceptError == "closeListener"

\* Any error of Accept ends the loop, that of a closed listener or another.
AcceptFails ==
  /\ MainGo("accept", AfterAcceptError)
  /\ UNCHANGED <<session, listening, guest, flow, broken>>

AcceptFailsClosed == listening = "closed" /\ AcceptFails

CloseListener ==
  /\ MainGo("closeListener", "stopSession") /\ listening' = "closed"
  /\ UNCHANGED <<session, guest, flow, broken>>

\* session.Close: from here on do runs nothing.
StopSession ==
  /\ MainGo("stopSession", "terminate") /\ session' = "stopped"
  /\ UNCHANGED <<listening, guest, flow, broken>>

\* The end of connections into the guest; what had arrived may be lost.
Sever(cs) ==
  /\ broken' = broken \cup cs
  /\ \E keep \in BOOLEAN :
       flow' = [c \in Conns |->
                  IF c \notin cs THEN flow[c]
                  ELSE [flow[c] EXCEPT !["down"].closed = TRUE,
                                       !["down"].src = IF keep THEN @ ELSE 0]]

\* The VM goes down under the handlers, and runProxy returns.
Terminate ==
  LET live == {c \in Conns : guest[c] = "live"}
  IN  /\ MainGo("terminate", "returned") /\ session' = "closed"
      /\ guest' = [c \in Conns |-> IF c \in live THEN "dead" ELSE guest[c]]
      /\ Sever(live)
      /\ UNCHANGED listening

\* main returns; nobody waits for the handlers.
Exit ==
  /\ MainGo("returned", "exited")
  /\ UNCHANGED <<session, listening, guest, flow, broken>>

-----------------------------------------------------------------------------
(* handleProxyConn *)

HandlerGo(c, from, to) ==
  /\ Running /\ handler[c] = from /\ handler' = [handler EXCEPT ![c] = to]
  /\ UNCHANGED <<mainVars, client>>

\* A connection of kind g and two goroutines that copy.
Connected(c, g) ==
  /\ HandlerGo(c, "dial", "wait2")
  /\ copier' = [copier EXCEPT ![c] = Both("read")]
  /\ guest' = [guest EXCEPT ![c] = g]

\* Mutant: the error is not looked at.
DialErrorIgnored(c) == Connected(c, "nil") /\ Sever({c})

DialError(c) ==
  /\ HandlerGo(c, "dial", "closeClient")
  /\ Sever({c})
  /\ UNCHANGED <<guest, copier>>

\* DockerConn: a connection, an error, or, when the session stops before the
\* process is spawned or before its handles are fetched, no error and a
\* connection without process or without sockets.
Dial(c) ==
  /\ \/ session = "open" /\ Connected(c, "live") /\ UNCHANGED <<flow, broken>>
     \/ session # "open" /\ (\E g \in {"nil", "dead"} : Connected(c, g)) /\ Sever({c})
     \/ DialError(c)
  /\ UNCHANGED <<done, crashed>>

\* Mutant: one message is enough.
AfterMessageOne == "closeGuest"

AfterMessage == "wait1"

\* <-done, twice.
AwaitDone(c) ==
  /\ done[c] > 0 /\ done' = [done EXCEPT ![c] = @ - 1]
  /\ HandlerGo(c, "wait2", AfterMessage) \/ HandlerGo(c, "wait1", "closeGuest")
  /\ UNCHANGED <<guest, copier, flow, broken, crashed>>

\* guestConn.Close; without a process it panics.
CloseGuest(c) ==
  /\ HandlerGo(c, "closeGuest", "closeClient")
  /\ guest' = [guest EXCEPT ![c] = "closed"] /\ crashed' = (guest[c] = "nil")
  /\ flow' = [flow EXCEPT ![c]["down"].src = 0, ![c]["up"].shut = TRUE]
  /\ UNCHANGED <<copier, done, broken>>

\* client.Close: input that nobody has read turns it into a reset, which may
\* take back what the client has not received yet.
CloseClient(c) ==
  /\ HandlerGo(c, "closeClient", "ended")
  /\ \E reset \in {FALSE, flow[c]["up"].src > 0} :
       flow' = [flow EXCEPT ![c]["down"].shut = TRUE,
                            ![c]["down"].dst = IF reset THEN 0 ELSE @,
                            ![c]["up"].src = 0, ![c]["up"].closed = TRUE]
  /\ UNCHANGED <<guest, copier, done, broken, crashed>>

-----------------------------------------------------------------------------
(* io.Copy(guest, client) and io.Copy(client, guest) *)

CopierGo(c, f, from, to) ==
  /\ Running /\ copier[c][f] = from /\ copier' = [copier EXCEPT ![c][f] = to]
  /\ UNCHANGED <<mainVars, handler, guest, client, broken, crashed>>

CopyRead(c, f) ==
  /\ CopierGo(c, f, "read", "write")
  /\ \E n \in 1..Min({BufSize, flow[c][f].src}) :
       flow' = [flow EXCEPT ![c][f].buf = n, ![c][f].src = @ - n]
  /\ UNCHANGED done

\* Read returns io.EOF or another error.
CopyEnd(c, f) ==
  /\ flow[c][f].src = 0 /\ flow[c][f].closed
  /\ CopierGo(c, f, "read", "shut")
  /\ UNCHANGED <<flow, done>>

\* Writes in direction f fail.
DeadEnd(c, f) == IF f = "up" THEN guest[c] # "live" ELSE client[c] = "gone"

\* Write returns when the queue has taken everything.
CopyWrite(c, f) ==
  /\ ~DeadEnd(c, f)
  /\ \E n \in 1..Min({Capacity - flow[c][f].dst, flow[c][f].buf}) :
       /\ flow' = [flow EXCEPT ![c][f].dst = @ + n, ![c][f].buf = @ - n]
       /\ CopierGo(c, f, "write", IF n = flow[c][f].buf THEN "read" ELSE "write")
  /\ UNCHANGED done

\* Mutant: after a failed write the goroutine just returns.
AfterWriteErrorReturn == "done"

AfterWriteError == "shut"

WriteError(c, f) ==
  /\ DeadEnd(c, f)
  /\ CopierGo(c, f, "write", AfterWriteError)
  /\ flow' = [flow EXCEPT ![c][f].buf = 0]
  /\ UNCHANGED done

\* Mutant: no half-close.
HalfClosed(fl) == fl

\* Mutant: a deferred message as well.
ReportTwice(n) == n + 2

Shut(fl) == [fl EXCEPT !.shut = TRUE]
Report(n) == n + 1

\* The half-close at the other end, and done <- struct{}{}.
CloseWrite(c, f) ==
  /\ CopierGo(c, f, "shut", "done")
  /\ flow' = [flow EXCEPT ![c][f] = Shut(@)]
  /\ done' = [done EXCEPT ![c] = Report(@)]

-----------------------------------------------------------------------------
(* The two ends: the client, and the target behind the guestConn *)

EndUnchanged == Running /\ UNCHANGED <<mainVars, handler, copier, done, crashed>>

Sends(c, f) == /\ ~flow[c][f].closed
               /\ IF f = "up" THEN client[c] = "open" ELSE guest[c] = "live"

Send(c, f) ==
  /\ Sends(c, f) /\ flow[c][f].sent < MaxBytes /\ flow[c][f].src < Capacity
  /\ flow' = [flow EXCEPT ![c][f].sent = @ + 1, ![c][f].src = @ + 1]
  /\ EndUnchanged /\ UNCHANGED <<guest, client, broken>>

HalfClose(c, f) ==
  /\ Sends(c, f)
  /\ flow' = [flow EXCEPT ![c][f].closed = TRUE]
  /\ EndUnchanged /\ UNCHANGED <<guest, client, broken>>

Recv(c, f) ==
  /\ IF f = "up" THEN guest[c] \in {"live", "closed"} /\ session # "closed"
                 ELSE client[c] = "open"
  /\ ~flow[c][f].eof
  /\ \/ /\ flow[c][f].dst > 0
        /\ flow' = [flow EXCEPT ![c][f].got = @ + 1, ![c][f].dst = @ - 1]
     \/ /\ flow[c][f].dst = 0 /\ flow[c][f].shut
        /\ flow' = [flow EXCEPT ![c][f].eof = TRUE]
  /\ EndUnchanged /\ UNCHANGED <<guest, client, broken>>

ClientGone(c) ==
  /\ client[c] = "open" /\ handler[c] # "ended"
  /\ client' = [client EXCEPT ![c] = "gone"]
  /\ \E keep \in BOOLEAN :
       flow' = [flow EXCEPT ![c]["up"].closed = TRUE, ![c]["down"].dst = 0,
                            ![c]["up"].src = IF keep THEN @ ELSE 0]
  /\ broken' = broken \cup {c}
  /\ EndUnchanged /\ UNCHANGED guest

\* The bridge aborts or is killed.
GuestDies(c) ==
  /\ guest[c] = "live" /\ guest' = [guest EXCEPT ![c] = "dead"]
  /\ Sever({c})
  /\ EndUnchanged /\ UNCHANGED client

-----------------------------------------------------------------------------
(* The specification *)

MainStep == \/ NewSession \/ Listen \/ AcceptFails \/ CloseListener
            \/ StopSession \/ Terminate \/ Exit

Handle(c) == Dial(c) \/ AwaitDone(c) \/ CloseGuest(c) \/ CloseClient(c)

Copy(c, f) == \/ CopyRead(c, f) \/ CopyEnd(c, f) \/ CopyWrite(c, f)
              \/ WriteError(c, f) \/ CloseWrite(c, f)

Next ==
  \/ MainStep \/ Interrupt
  \/ \E c \in Conns :
       \/ Accept(c) \/ Handle(c) \/ ClientGone(c) \/ GuestDies(c)
       \/ \E f \in Dirs : Copy(c, f) \/ Send(c, f) \/ HalfClose(c, f) \/ Recv(c, f)

Spec == Init /\ [][Next]_vars

\* The bridge behind a live guestConn is one loop for both directions: as long as
\* the target has not read everything, it may sit in write_all towards it, and
\* pass on neither what the target says nor its end.
BridgeFree(c) == guest[c] # "live" \/ flow[c]["up"].dst = 0

\* Goroutines are scheduled fairly and DockerConn returns (Dial's DialReturns).
\* Clients read, and so does the target, though only while the client does: to
\* one that is gone the bridge may be stuck writing.  Reads of the guestConn
\* get on only while the bridge is free.  Accept need not fail while the
\* listener is open.
Fairness ==
  /\ WF_vars(NewSession) /\ WF_vars(Listen) /\ WF_vars(AcceptFailsClosed)
  /\ WF_vars(CloseListener) /\ WF_vars(StopSession) /\ WF_vars(Terminate)
  /\ \A c \in Conns :
       /\ WF_vars(Handle(c)) /\ WF_vars(Copy(c, "up"))
       /\ WF_vars(BridgeFree(c) /\ (CopyRead(c, "down") \/ CopyEnd(c, "down")))
       /\ WF_vars(CopyWrite(c, "down") \/ WriteError(c, "down") \/ CloseWrite(c, "down"))
       /\ WF_vars(Recv(c, "down")) /\ WF_vars(client[c] = "open" /\ Recv(c, "up"))

FairSpec == Spec /\ Fairness

-----------------------------------------------------------------------------
(* Properties *)

Stream(c, f) == INSTANCE Pipe WITH
  sent <- flow[c][f].sent, closed <- flow[c][f].closed, eof <- flow[c][f].eof,
  got <- [n \in 1..flow[c][f].got |-> n], broken <- c \in broken

\* Two hops in a row are again a reliable stream in each direction: unless an
\* end fails, no byte is lost and no end comes early because the other
\* direction finished first (proxy.go:70-74).
EndToEnd ==
  /\ \A c \in Conns, f \in Dirs : Stream(c, f)!Init
  /\ [][\A c \in Conns, f \in Dirs :
          Stream(c, f)!Next \/ UNCHANGED Stream(c, f)!vars]_vars

\* The guestConn is closed only when no Read or Write on it is under way, which
\* is what keeps the proxy clear of reused socket handles (proxy.go:90-106).
NoIoOnClosedGuest ==
  \A c \in Conns, f \in Dirs : guest[c] = "closed" => copier[c][f] \in {"shut", "done"}

\* Only while the program is being stopped can a handler meet a connection
\* without a process, and take the program down with it.
CrashOnlyInShutdown == crashed => session \in {"stopped", "closed"}

\* On every path out of runProxy the session it created has been closed, after
\* the listener (proxy.go:37-47): no VM and no port is left to the next caller.
NothingLeftOnReturn ==
  main \in {"returned", "exited"} => session \in {"none", "closed"} /\ listening # "open"

\* The client sees the end of what the target has to say even if it never closes
\* its own side (proxy.go:98-104), provided that the target reads what it is
\* sent: if it does not, the bridge withholds the end (bridge.c:133-141).
ClientSeesEnd ==
  \A c \in Conns : flow[c]["down"].closed ~>
                     flow[c]["down"].eof \/ client[c] = "gone" \/ ~Running

\* A handler ends, and gives back both connections, once both directions have
\* ended, whether in order or by the failure of the guest.
HandlerEnds ==
  \A c \in Conns : \/ flow[c]["up"].eof /\ flow[c]["down"].closed
                   \/ flow[c]["up"].closed /\ guest[c] = "dead"
                   ~> handler[c] = "ended" \/ ~Running

\* Ctrl+C ends runProxy, whatever the handlers are doing (proxy.go:53-59).
ShutdownReturns == interrupted ~> main \in {"returned", "exited"} \/ crashed
=============================================================================
