---------------------------- MODULE ProxyProofs ----------------------------
(***************************************************************************)
(* The safety of Proxy for any set of clients, any number of bytes and any *)
(* sizes of queues and buffers: what runProxy leaves behind, what the      *)
(* handlers know of their goroutines, and why two hops are a Pipe.         *)
(***************************************************************************)
EXTENDS Proxy, SequenceTheorems, TLAPS

\* Where runProxy is, and what it has created and given back by then.
MainInv ==
  /\ main = "start" => session = "none" /\ listening = "none"
  /\ main = "listen" => session = "open" /\ listening = "none"
  /\ main \in {"accept", "closeListener"} => session = "open" /\ listening # "none"
  /\ main = "stopSession" => session = "open" /\ listening # "open"
  /\ main = "terminate" => session = "stopped" /\ listening # "open"
  /\ main \in {"returned", "exited"} => session \in {"none", "closed"} /\ listening # "open"

\* How many of the goroutines of c have finished.
Finished(c) == (IF copier[c]["up"] = "done" THEN 1 ELSE 0)
               + (IF copier[c]["down"] = "done" THEN 1 ELSE 0)

\* Where the handler of c is, and what that says of the goroutines it has
\* started, of their messages and of the connection it has been given.
HandlerInv(c) ==
  /\ handler[c] # "none" => session # "none" /\ main \notin {"start", "listen"}
  /\ handler[c] \in {"none", "dial"} =>
       copier[c] = Both("none") /\ done[c] = 0 /\ guest[c] = "none"
  /\ handler[c] \in {"wait2", "wait1"} =>
       (\A f \in Dirs : copier[c][f] # "none") /\ guest[c] \in {"live", "dead", "nil"}
  /\ handler[c] = "wait2" => done[c] = Finished(c)
  /\ handler[c] = "wait1" => done[c] + 1 = Finished(c)
  /\ handler[c] = "closeGuest" =>
       copier[c] = Both("done") /\ done[c] = 0 /\ guest[c] \in {"live", "dead", "nil"}
  /\ handler[c] \in {"closeClient", "ended"} =>
       /\ done[c] = 0
       /\ \/ copier[c] = Both("none") /\ guest[c] = "none" /\ c \in broken
          \/ copier[c] = Both("done") /\ guest[c] = "closed"

\* An end that has failed has been noted.
EndsInv(c) ==
  /\ guest[c] \in {"dead", "nil"} => c \in broken
  /\ client[c] = "gone" => c \in broken
  /\ guest[c] = "nil" => session \in {"stopped", "closed"}

\* What has been sent is in the queues, in the buffer or received, unless an
\* end has failed; and the end is passed on after it.
StreamInv(c, f) ==
  LET fl == flow[c][f]
      all == fl.got + fl.dst + fl.buf + fl.src
  IN  /\ copier[c][f] # "write" => fl.buf = 0
      /\ all <= fl.sent
      /\ c \notin broken =>
           /\ all = fl.sent
           /\ copier[c][f] \in {"shut", "done"} => fl.closed /\ fl.src = 0
           /\ fl.shut => copier[c][f] = "done"

IInv ==
  /\ TypeOK /\ MainInv /\ CrashOnlyInShutdown
  /\ \A c \in Conns : HandlerInv(c) /\ EndsInv(c)
  /\ \A c \in Conns, f \in Dirs : StreamInv(c, f)

-----------------------------------------------------------------------------
(* IInv is inductive: runProxy *)

FlowType == [sent : 0..MaxBytes, closed : BOOLEAN, src : 0..Capacity, buf : 0..BufSize,
             dst : 0..Capacity, shut : BOOLEAN, got : 0..MaxBytes, eof : BOOLEAN]

LEMMA InitIInv == Init => IInv
<1> SUFFICES ASSUME Init PROVE IInv
  OBVIOUS
<1>1. TypeOK
  <2>1. [sent |-> 0, closed |-> FALSE, src |-> 0, buf |-> 0,
         dst |-> 0, shut |-> FALSE, got |-> 0, eof |-> FALSE] \in FlowType
    BY ProxyConstants DEF FlowType
  <2>2. flow \in [Conns -> [Dirs -> FlowType]]
    BY <2>1 DEF Init, Both
  <2>3. copier \in [Conns -> [Dirs -> {"none", "read", "write", "shut", "done"}]]
    BY DEF Init, Both
  <2>4. done \in [Conns -> 0..2]
    BY DEF Init
  <2> QED
    BY <2>2, <2>3, <2>4 DEF Init, TypeOK, FlowType
<1>2. MainInv /\ CrashOnlyInShutdown
  BY DEF Init, MainInv, CrashOnlyInShutdown
<1>3. ASSUME NEW c \in Conns PROVE HandlerInv(c) /\ EndsInv(c)
  BY DEF Init, HandlerInv, EndsInv
<1>4. ASSUME NEW c \in Conns, NEW f \in Dirs PROVE StreamInv(c, f)
  BY DEF Init, StreamInv, Both
<1> QED
  BY <1>1, <1>2, <1>3, <1>4 DEF IInv

\* Steps of runProxy that leave the connections alone.
LEMMA MainStepKeeps ==
  ASSUME IInv, TypeOK', MainInv', UNCHANGED <<handler, endVars, copier, done, crashed>>,
         crashed => session' = session,
         main' # main => main' \notin {"start", "listen"} \/ main = "start",
         session' # session => session' # "none",
         session \in {"stopped", "closed"} => session' \in {"stopped", "closed"}
  PROVE  IInv'
<1>1. CrashOnlyInShutdown'
  BY DEF IInv, CrashOnlyInShutdown
<1>2. ASSUME NEW c \in Conns PROVE HandlerInv(c)' /\ EndsInv(c)'
  <2>1. HandlerInv(c) /\ EndsInv(c)
    BY DEF IInv
  <2>2. handler[c] # "none" => session' # "none" /\ main' \notin {"start", "listen"}
    BY <2>1 DEF HandlerInv
  <2>3. Finished(c)' = Finished(c)
    BY DEF Finished
  <2>4. HandlerInv(c)'
    BY <2>1, <2>2, <2>3 DEF HandlerInv, endVars
  <2>5. EndsInv(c)'
    BY <2>1 DEF EndsInv, endVars
  <2> QED
    BY <2>4, <2>5
<1>3. ASSUME NEW c \in Conns, NEW f \in Dirs PROVE StreamInv(c, f)'
  <2>1. StreamInv(c, f)
    BY DEF IInv
  <2> QED
    BY <2>1 DEF StreamInv, endVars
<1> QED
  BY <1>1, <1>2, <1>3 DEF IInv

LEMMA RunProxyKeeps ==
  ASSUME IInv,
         \/ NewSession \/ Listen \/ Interrupt \/ AcceptFails \/ CloseListener
         \/ StopSession \/ Exit
  PROVE  IInv'
<1>1. TypeOK /\ MainInv
  BY DEF IInv
<1>2. UNCHANGED <<handler, endVars, copier, done, crashed>> /\ ~crashed
  BY DEF NewSession, Listen, Interrupt, AcceptFails, CloseListener, StopSession, Exit,
         MainGo, endVars, Running
<1>3. CASE NewSession
  <2>1. TypeOK' /\ MainInv'
    BY <1>1, <1>2, <1>3 DEF NewSession, MainGo, TypeOK, MainInv, endVars
  <2> QED
    BY <1>1, <1>2, <1>3, <2>1, MainStepKeeps DEF NewSession, MainGo, MainInv
<1>4. CASE Listen
  <2>1. TypeOK' /\ MainInv'
    BY <1>1, <1>2, <1>4 DEF Listen, AfterListenError, MainGo, TypeOK, MainInv, endVars
  <2> QED
    BY <1>1, <1>2, <1>4, <2>1, MainStepKeeps DEF Listen, AfterListenError, MainGo, MainInv
<1>5. CASE Interrupt
  <2>1. TypeOK' /\ MainInv'
    BY <1>1, <1>2, <1>5 DEF Interrupt, TypeOK, MainInv, endVars
  <2> QED
    BY <1>1, <1>2, <1>5, <2>1, MainStepKeeps DEF Interrupt, MainInv
<1>6. CASE AcceptFails
  <2>1. TypeOK' /\ MainInv'
    BY <1>1, <1>2, <1>6 DEF AcceptFails, AfterAcceptError, MainGo, TypeOK, MainInv, endVars
  <2> QED
    BY <1>1, <1>2, <1>6, <2>1, MainStepKeeps DEF AcceptFails, AfterAcceptError, MainGo, MainInv
<1>7. CASE CloseListener
  <2>1. TypeOK' /\ MainInv'
    BY <1>1, <1>2, <1>7 DEF CloseListener, MainGo, TypeOK, MainInv, endVars
  <2> QED
    BY <1>1, <1>2, <1>7, <2>1, MainStepKeeps DEF CloseListener, MainGo, MainInv
<1>8. CASE StopSession
  <2>1. TypeOK' /\ MainInv'
    BY <1>1, <1>2, <1>8 DEF StopSession, MainGo, TypeOK, MainInv, endVars
  <2> QED
    BY <1>1, <1>2, <1>8, <2>1, MainStepKeeps DEF StopSession, MainGo, MainInv
<1>9. CASE Exit
  <2>1. TypeOK' /\ MainInv'
    BY <1>1, <1>2, <1>9 DEF Exit, MainGo, TypeOK, MainInv, endVars
  <2> QED
    BY <1>1, <1>2, <1>9, <2>1, MainStepKeeps DEF Exit, MainGo, MainInv
<1> QED
  BY <1>3, <1>4, <1>5, <1>6, <1>7, <1>8, <1>9

\* What Sever does to the streams of a connection it ends.
LEMMA Severed ==
  ASSUME IInv, NEW cs \in SUBSET Conns, Sever(cs)
  PROVE  /\ flow' \in [Conns -> [Dirs -> FlowType]]
         /\ broken' = broken \cup cs /\ broken' \in SUBSET Conns
         /\ \A c \in Conns \ cs : flow'[c] = flow[c]
         /\ \A c \in cs : flow'[c]["up"] = flow[c]["up"]
         /\ \A c \in cs :
              LET was == flow[c]["down"]
                  is == flow'[c]["down"]
              IN  /\ is.sent = was.sent /\ is.closed = TRUE /\ is.src \in {was.src, 0}
                  /\ is.buf = was.buf /\ is.dst = was.dst /\ is.shut = was.shut
                  /\ is.got = was.got /\ is.eof = was.eof
<1>1. TypeOK /\ flow \in [Conns -> [Dirs -> FlowType]] /\ broken \in SUBSET Conns
  BY DEF IInv, TypeOK, FlowType
<1>2. broken' = broken \cup cs /\ broken' \in SUBSET Conns
  BY <1>1 DEF Sever
<1>3. PICK keep \in BOOLEAN :
        flow' = [c \in Conns |->
                   IF c \notin cs THEN flow[c]
                   ELSE [flow[c] EXCEPT !["down"].closed = TRUE,
                                        !["down"].src = IF keep THEN @ ELSE 0]]
  BY DEF Sever
<1>4. \A c \in Conns \ cs : flow'[c] = flow[c]
  BY <1>3
<1>5. ASSUME NEW c \in cs
      PROVE  /\ flow'[c] \in [Dirs -> FlowType]
             /\ flow'[c]["up"] = flow[c]["up"]
             /\ LET was == flow[c]["down"]
                    is == flow'[c]["down"]
                IN  /\ is.sent = was.sent /\ is.closed = TRUE /\ is.src \in {was.src, 0}
                    /\ is.buf = was.buf /\ is.dst = was.dst /\ is.shut = was.shut
                    /\ is.got = was.got /\ is.eof = was.eof
  <2> DEFINE was == flow[c]["down"]
             src == IF keep THEN was.src ELSE 0
             is == [was EXCEPT !.closed = TRUE, !.src = src]
  <2>1. was \in FlowType /\ flow[c] \in [Dirs -> FlowType]
    BY <1>1, <1>5 DEF Dirs
  <2>2. flow'[c] = [flow[c] EXCEPT !["down"] = is]
    BY <1>3, <1>5, <2>1 DEF Dirs
  <2>3. src \in 0..Capacity /\ src \in {was.src, 0}
    BY <2>1, ProxyConstants DEF FlowType
  <2> HIDE DEF src
  <2>4. is \in FlowType
    BY <2>1, <2>3 DEF FlowType
  <2>5. /\ is.sent = was.sent /\ is.closed = TRUE /\ is.src \in {was.src, 0}
        /\ is.buf = was.buf /\ is.dst = was.dst /\ is.shut = was.shut
        /\ is.got = was.got /\ is.eof = was.eof
    BY <2>1, <2>3 DEF FlowType
  <2> HIDE DEF is
  <2>6. /\ flow'[c] \in [Dirs -> FlowType] /\ flow'[c]["up"] = flow[c]["up"]
        /\ flow'[c]["down"] = is
    BY <2>1, <2>2, <2>4 DEF Dirs
  <2> QED
    BY <2>5, <2>6
<1>6. flow' \in [Conns -> [Dirs -> FlowType]]
  <2>1. flow' = [c \in Conns |-> flow'[c]]
    BY <1>3
  <2>2. ASSUME NEW c \in Conns PROVE flow'[c] \in [Dirs -> FlowType]
    BY <1>1, <1>4, <1>5
  <2> QED
    BY <2>1, <2>2
<1> QED
  BY <1>2, <1>4, <1>5, <1>6

\* It keeps what is said of them, for they are broken now.
LEMMA SeveredStream ==
  ASSUME IInv, NEW cs \in SUBSET Conns, Sever(cs), NEW c \in Conns, NEW f \in Dirs,
         copier'[c] = copier[c] \/ (c \in cs /\ \A g \in Dirs : copier[c][g] # "write")
  PROVE  StreamInv(c, f)'
<1>1. StreamInv(c, f) /\ flow[c][f] \in FlowType
  BY DEF IInv, TypeOK, FlowType
<1>2. CASE c \notin cs
  <2>1. flow'[c] = flow[c] /\ (c \in broken' <=> c \in broken)
    BY <1>2, Severed
  <2> QED
    BY <1>1, <1>2, <2>1 DEF StreamInv
<1>3. CASE c \in cs
  <2> DEFINE was == flow[c][f]
             is == flow'[c][f]
  <2>1. /\ c \in broken' /\ is.sent = was.sent /\ is.src \in {was.src, 0}
        /\ is.buf = was.buf /\ is.dst = was.dst /\ is.got = was.got
    <3>1. c \in broken'
      BY <1>3, Severed
    <3>2. CASE f = "up"
      <4>1. flow'[c][f] = flow[c][f]
        BY <1>3, <3>2, Severed
      <4> QED
        BY <3>1, <4>1
    <3>3. CASE f = "down"
      BY <1>3, <3>1, <3>3, Severed
    <3> QED
      BY <3>2, <3>3 DEF Dirs
  <2>2. /\ was.sent \in Nat /\ was.src \in Nat /\ was.buf \in Nat /\ was.dst \in Nat
        /\ was.got \in Nat
    BY <1>1, ProxyConstants DEF FlowType
  <2>3. copier'[c][f] # "write" => was.buf = 0
    BY <1>1, <1>3 DEF StreamInv
  <2>4. was.got + was.dst + was.buf + was.src <= was.sent
    BY <1>1 DEF StreamInv
  <2>5. is.got + is.dst + is.buf + is.src <= is.sent
    BY <2>1, <2>2, <2>4
  <2> QED
    BY <2>1, <2>3, <2>5 DEF StreamInv
<1> QED
  BY <1>2, <1>3

\* The end of one connection.
LEMMA SeveredOne ==
  ASSUME IInv, NEW c \in Conns, Sever({c})
  PROVE  /\ flow' \in [Conns -> [Dirs -> FlowType]] /\ broken' \in SUBSET Conns
         /\ \A d \in Conns \ {c} : flow'[d] = flow[d] /\ (d \in broken' <=> d \in broken)
         /\ c \in broken'
<1> DEFINE cs == {c}
<1>1. cs \in SUBSET Conns /\ Sever(cs) /\ c \in cs /\ \A d \in Conns \ {c} : d \notin cs
  OBVIOUS
<1> HIDE DEF cs
<1> QED
  BY <1>1, Severed

LEMMA TerminateKeeps == ASSUME IInv, Terminate PROVE IInv'
<1> DEFINE live == {c \in Conns : guest[c] = "live"}
<1>1. /\ TypeOK /\ MainInv /\ main = "terminate" /\ main' = "returned" /\ session' = "closed"
      /\ Sever(live) /\ ~crashed
      /\ guest' = [c \in Conns |-> IF c \in live THEN "dead" ELSE guest[c]]
      /\ UNCHANGED <<interrupted, listening, handler, client, copier, done, crashed>>
  BY DEF IInv, Terminate, MainGo, Running
<1>2. /\ flow' \in [Conns -> [Dirs -> FlowType]]
      /\ broken' = broken \cup live /\ broken' \in SUBSET Conns
  BY <1>1, Severed
<1>3. TypeOK'
  <2>1. guest' \in [Conns -> {"none", "live", "dead", "nil", "closed"}]
    BY <1>1 DEF TypeOK
  <2> QED
    BY <1>1, <1>2, <2>1 DEF TypeOK, FlowType
<1>4. MainInv' /\ CrashOnlyInShutdown'
  BY <1>1 DEF MainInv, CrashOnlyInShutdown
<1>5. ASSUME NEW c \in Conns PROVE HandlerInv(c)' /\ EndsInv(c)'
  <2>1. HandlerInv(c) /\ EndsInv(c)
    BY DEF IInv
  <2>2. guest'[c] = IF guest[c] = "live" THEN "dead" ELSE guest[c]
    BY <1>1
  <2>3. Finished(c)' = Finished(c)
    BY <1>1 DEF Finished
  <2>4. HandlerInv(c)'
    BY <1>1, <1>2, <2>1, <2>2, <2>3 DEF HandlerInv
  <2>5. EndsInv(c)'
    BY <1>1, <1>2, <2>1, <2>2 DEF EndsInv
  <2> QED
    BY <2>4, <2>5
<1>6. ASSUME NEW c \in Conns, NEW f \in Dirs PROVE StreamInv(c, f)'
  BY <1>1, SeveredStream
<1> QED
  BY <1>3, <1>4, <1>5, <1>6 DEF IInv

-----------------------------------------------------------------------------
(* IInv is inductive: the handlers *)

\* Steps for one client leave the others alone.
LEMMA OneConn ==
  ASSUME IInv, NEW c \in Conns, TypeOK', CrashOnlyInShutdown', UNCHANGED mainVars,
         \A d \in Conns \ {c} :
           /\ handler'[d] = handler[d] /\ guest'[d] = guest[d] /\ client'[d] = client[d]
           /\ copier'[d] = copier[d] /\ done'[d] = done[d] /\ flow'[d] = flow[d]
           /\ d \in broken' <=> d \in broken,
         HandlerInv(c)', EndsInv(c)', \A f \in Dirs : StreamInv(c, f)'
  PROVE  IInv'
<1>1. MainInv'
  BY DEF IInv, MainInv, mainVars
<1>2. ASSUME NEW d \in Conns \ {c} PROVE HandlerInv(d)' /\ EndsInv(d)'
  <2>1. HandlerInv(d) /\ EndsInv(d) /\ Finished(d)' = Finished(d)
    BY DEF IInv, Finished
  <2> QED
    BY <2>1 DEF HandlerInv, EndsInv, mainVars
<1>3. ASSUME NEW d \in Conns \ {c}, NEW f \in Dirs PROVE StreamInv(d, f)'
  <2>1. StreamInv(d, f)
    BY DEF IInv
  <2> QED
    BY <2>1 DEF StreamInv
<1> QED
  BY <1>1, <1>2, <1>3 DEF IInv

LEMMA AcceptKeeps == ASSUME IInv, NEW c \in Conns, Accept(c) PROVE IInv'
<1>1. /\ TypeOK /\ MainInv /\ HandlerInv(c) /\ EndsInv(c) /\ CrashOnlyInShutdown
      /\ main = "accept" /\ handler[c] = "none"
      /\ handler' = [handler EXCEPT ![c] = "dial"] /\ client' = [client EXCEPT ![c] = "open"]
      /\ UNCHANGED <<mainVars, guest, copier, done, flow, broken, crashed>>
  BY DEF IInv, Accept
<1>2. TypeOK' /\ handler'[c] = "dial" /\ client'[c] = "open"
  BY <1>1 DEF TypeOK, mainVars
<1>3. CrashOnlyInShutdown'
  BY <1>1 DEF CrashOnlyInShutdown, mainVars
<1>4. HandlerInv(c)' /\ EndsInv(c)'
  BY <1>1, <1>2 DEF HandlerInv, EndsInv, MainInv, mainVars
<1>5. \A f \in Dirs : StreamInv(c, f)'
  BY <1>1 DEF IInv, StreamInv
<1>6. \A d \in Conns \ {c} : handler'[d] = handler[d] /\ client'[d] = client[d]
  BY <1>1 DEF TypeOK
<1> QED
  BY <1>1, <1>2, <1>3, <1>4, <1>5, <1>6, OneConn

\* The two goroutines start on a connection of kind g.
LEMMA ConnectedKeeps ==
  ASSUME IInv, NEW c \in Conns, NEW g \in {"live", "nil", "dead"}, Connected(c, g),
         \/ g = "live" /\ UNCHANGED <<flow, broken>>
         \/ session # "open" /\ Sever({c}),
         UNCHANGED <<done, crashed>>
  PROVE  IInv'
<1>1. /\ TypeOK /\ MainInv /\ HandlerInv(c) /\ EndsInv(c) /\ CrashOnlyInShutdown
      /\ handler[c] = "dial" /\ handler' = [handler EXCEPT ![c] = "wait2"]
      /\ copier' = [copier EXCEPT ![c] = Both("read")] /\ guest' = [guest EXCEPT ![c] = g]
      /\ UNCHANGED <<mainVars, client>>
  BY DEF IInv, Connected, HandlerGo
<1>2. /\ handler'[c] = "wait2" /\ guest'[c] = g /\ copier'[c] = Both("read")
      /\ handler' \in [Conns -> {"none", "dial", "wait2", "wait1", "closeGuest",
                                 "closeClient", "ended"}]
      /\ guest' \in [Conns -> {"none", "live", "dead", "nil", "closed"}]
      /\ copier' \in [Conns -> [Dirs -> {"none", "read", "write", "shut", "done"}]]
      /\ \A d \in Conns \ {c} : /\ handler'[d] = handler[d] /\ guest'[d] = guest[d]
                                /\ copier'[d] = copier[d]
  BY <1>1 DEF TypeOK, Both
<1>3. /\ flow' \in [Conns -> [Dirs -> FlowType]] /\ broken' \in SUBSET Conns
      /\ \A d \in Conns \ {c} : flow'[d] = flow[d] /\ (d \in broken' <=> d \in broken)
      /\ g \in {"nil", "dead"} => c \in broken' /\ session # "open"
      /\ c \in broken => c \in broken'
  <2>1. CASE g = "live" /\ UNCHANGED <<flow, broken>>
    BY <1>1, <2>1 DEF TypeOK, FlowType
  <2>2. CASE session # "open" /\ Sever({c})
    BY <2>2, SeveredOne
  <2> QED
    BY <2>1, <2>2
<1>4. TypeOK'
  BY <1>1, <1>2, <1>3 DEF TypeOK, FlowType, mainVars
<1>5. CrashOnlyInShutdown'
  BY <1>1 DEF CrashOnlyInShutdown, mainVars
<1>6. HandlerInv(c)'
  <2>1. Finished(c)' = 0
    BY <1>2 DEF Finished, Both, Dirs
  <2> QED
    BY <1>1, <1>2, <2>1 DEF HandlerInv, mainVars, Both
<1>7. EndsInv(c)'
  <2>1. session \in {"none", "open", "stopped", "closed"} /\ session # "none"
    BY <1>1 DEF TypeOK, HandlerInv
  <2> QED
    BY <1>1, <1>2, <1>3, <2>1 DEF EndsInv, mainVars
<1>8. ASSUME NEW f \in Dirs PROVE StreamInv(c, f)'
  <2>1. copier[c] = Both("none")
    BY <1>1 DEF HandlerInv
  <2>2. CASE Sever({c})
    <3>1. \A h \in Dirs : copier[c][h] # "write"
      BY <2>1 DEF Both
    <3> QED
      BY <2>2, <3>1, SeveredStream
  <2>3. CASE UNCHANGED <<flow, broken>>
    <3>1. StreamInv(c, f) /\ copier[c][f] = "none" /\ copier'[c][f] = "read"
      BY <1>2, <2>1 DEF IInv, Both
    <3> QED
      BY <2>3, <3>1 DEF StreamInv
  <2> QED
    BY <2>2, <2>3
<1> QED
  BY <1>1, <1>2, <1>3, <1>4, <1>5, <1>6, <1>7, <1>8, OneConn

LEMMA DialKeeps == ASSUME IInv, NEW c \in Conns, Dial(c) PROVE IInv'
<1>1. UNCHANGED <<done, crashed>>
  BY DEF Dial
<1>2. CASE session = "open" /\ Connected(c, "live") /\ UNCHANGED <<flow, broken>>
  BY <1>1, <1>2, ConnectedKeeps
<1>3. CASE session # "open" /\ (\E g \in {"nil", "dead"} : Connected(c, g)) /\ Sever({c})
  BY <1>1, <1>3, ConnectedKeeps
<1>4. CASE DialError(c)
  <2>1. /\ TypeOK /\ HandlerInv(c) /\ EndsInv(c) /\ CrashOnlyInShutdown /\ handler[c] = "dial"
        /\ handler' = [handler EXCEPT ![c] = "closeClient"]
        /\ Sever({c}) /\ UNCHANGED <<mainVars, client, guest, copier>>
    BY <1>4 DEF IInv, DialError, HandlerGo
  <2>2. /\ flow' \in [Conns -> [Dirs -> FlowType]] /\ broken' \in SUBSET Conns
        /\ \A d \in Conns \ {c} : flow'[d] = flow[d] /\ (d \in broken' <=> d \in broken)
        /\ c \in broken'
    BY <2>1, SeveredOne
  <2>3. TypeOK' /\ handler'[c] = "closeClient"
    BY <1>1, <2>1, <2>2 DEF TypeOK, FlowType, mainVars
  <2>4. CrashOnlyInShutdown'
    BY <1>1, <2>1 DEF CrashOnlyInShutdown, mainVars
  <2>5. HandlerInv(c)' /\ EndsInv(c)'
    BY <1>1, <2>1, <2>2, <2>3 DEF HandlerInv, EndsInv, mainVars
  <2>6. \A f \in Dirs : StreamInv(c, f)'
    BY <2>1, SeveredStream
  <2>7. \A d \in Conns \ {c} : handler'[d] = handler[d]
    BY <2>1 DEF TypeOK
  <2> QED
    BY <1>1, <2>1, <2>2, <2>3, <2>4, <2>5, <2>6, <2>7, OneConn
<1> QED
  BY <1>2, <1>3, <1>4 DEF Dial

LEMMA FinishedBounds ==
  ASSUME TypeOK, NEW c \in Conns
  PROVE  Finished(c) \in 0..2 /\ (Finished(c) = 2 => copier[c] = Both("done"))
<1>1. Finished(c) \in 0..2
  BY DEF Finished
<1>2. ASSUME Finished(c) = 2 PROVE copier[c] = Both("done")
  <2>1. copier[c] \in [Dirs -> {"none", "read", "write", "shut", "done"}]
    BY DEF TypeOK
  <2>2. copier[c]["up"] = "done" /\ copier[c]["down"] = "done"
    BY <1>2 DEF Finished
  <2> QED
    BY <2>1, <2>2 DEF Both, Dirs
<1> QED
  BY <1>1, <1>2

LEMMA AwaitDoneKeeps == ASSUME IInv, NEW c \in Conns, AwaitDone(c) PROVE IInv'
<1>1. /\ TypeOK /\ HandlerInv(c) /\ EndsInv(c) /\ CrashOnlyInShutdown
      /\ done[c] > 0 /\ done' = [done EXCEPT ![c] = @ - 1] /\ done[c] \in 0..2
      /\ UNCHANGED <<mainVars, client, guest, copier, flow, broken, crashed>>
  BY DEF IInv, AwaitDone, HandlerGo, TypeOK
<1>2. done'[c] = done[c] - 1 /\ done'[c] \in 0..2 /\ \A d \in Conns \ {c} : done'[d] = done[d]
  BY <1>1 DEF TypeOK
<1>3. done' \in [Conns -> 0..2]
  BY <1>1, <1>2 DEF TypeOK
<1>4. \/ handler[c] = "wait2" /\ handler' = [handler EXCEPT ![c] = "wait1"]
      \/ handler[c] = "wait1" /\ handler' = [handler EXCEPT ![c] = "closeGuest"]
  BY DEF AwaitDone, AfterMessage, HandlerGo
<1>5. /\ TypeOK' /\ \A d \in Conns \ {c} : handler'[d] = handler[d]
      /\ \/ handler[c] = "wait2" /\ handler'[c] = "wait1"
         \/ handler[c] = "wait1" /\ handler'[c] = "closeGuest"
  <2>1. \E to \in {"wait1", "closeGuest"} : handler' = [handler EXCEPT ![c] = to]
    BY <1>4
  <2>2. TypeOK'
    BY <1>1, <1>3, <2>1 DEF TypeOK, mainVars
  <2> QED
    BY <1>1, <1>4, <2>2 DEF TypeOK
<1>6. CrashOnlyInShutdown' /\ EndsInv(c)'
  BY <1>1 DEF CrashOnlyInShutdown, EndsInv, mainVars
<1>7. HandlerInv(c)'
  <2>1. Finished(c)' = Finished(c)
    BY <1>1 DEF Finished
  <2>2. Finished(c) \in 0..2 /\ (Finished(c) = 2 => copier[c] = Both("done"))
    BY <1>1, FinishedBounds
  <2>3. CASE handler[c] = "wait2" /\ handler'[c] = "wait1"
    <3>1. done'[c] + 1 = Finished(c)
      BY <1>1, <1>2, <2>3 DEF HandlerInv
    <3> QED
      BY <1>1, <2>1, <2>3, <3>1 DEF HandlerInv, mainVars
  <2>4. CASE handler[c] = "wait1" /\ handler'[c] = "closeGuest"
    <3>1. done[c] + 1 = Finished(c)
      BY <1>1, <2>4 DEF HandlerInv
    <3>2. Finished(c) = 2 /\ done'[c] = 0
      BY <1>1, <1>2, <2>2, <3>1
    <3> QED
      BY <1>1, <2>2, <2>4, <3>2 DEF HandlerInv, mainVars
  <2> QED
    BY <1>5, <2>3, <2>4
<1>8. \A f \in Dirs : StreamInv(c, f)'
  BY <1>1 DEF IInv, StreamInv
<1> QED
  BY <1>1, <1>2, <1>5, <1>6, <1>7, <1>8, OneConn

\* The fields of a stream.
LEMMA FlowFields ==
  ASSUME TypeOK, NEW c \in Conns, NEW f \in Dirs
  PROVE  /\ flow \in [Conns -> [Dirs -> FlowType]] /\ flow[c] \in [Dirs -> FlowType]
         /\ flow[c][f] \in FlowType
         /\ flow[c][f].sent \in 0..MaxBytes /\ flow[c][f].got \in 0..MaxBytes
         /\ flow[c][f].src \in 0..Capacity /\ flow[c][f].dst \in 0..Capacity
         /\ flow[c][f].buf \in 0..BufSize
         /\ flow[c][f].sent \in Nat /\ flow[c][f].got \in Nat /\ flow[c][f].src \in Nat
         /\ flow[c][f].dst \in Nat /\ flow[c][f].buf \in Nat
         /\ MaxBytes \in Nat /\ Capacity \in Nat /\ BufSize \in Nat
<1>1. /\ flow \in [Conns -> [Dirs -> FlowType]] /\ flow[c] \in [Dirs -> FlowType]
      /\ flow[c][f] \in FlowType
  BY DEF TypeOK, FlowType
<1> DEFINE fl == flow[c][f]
<1>2. fl \in FlowType
  BY <1>1
<1> HIDE DEF fl
<1>3. /\ fl.sent \in 0..MaxBytes /\ fl.got \in 0..MaxBytes
      /\ fl.src \in 0..Capacity /\ fl.dst \in 0..Capacity /\ fl.buf \in 0..BufSize
  BY <1>2 DEF FlowType
<1>4. /\ fl.sent \in Nat /\ fl.got \in Nat /\ fl.src \in Nat /\ fl.dst \in Nat /\ fl.buf \in Nat
      /\ MaxBytes \in Nat /\ Capacity \in Nat /\ BufSize \in Nat
  BY <1>3, ProxyConstants
<1> QED
  BY <1>1, <1>3, <1>4 DEF fl

\* Updates of a stream.
LEMMA ClosedAt ==
  ASSUME NEW fl \in FlowType, NEW n \in 0..Capacity
  PROVE  LET new == [fl EXCEPT !.src = n, !.closed = TRUE]
         IN  /\ new \in FlowType /\ new.src = n /\ new.closed = TRUE
             /\ new.sent = fl.sent /\ new.buf = fl.buf /\ new.dst = fl.dst
             /\ new.shut = fl.shut /\ new.got = fl.got /\ new.eof = fl.eof
<1> DEFINE queue == 0..Capacity
           buffer == 0..BufSize
           bytes == 0..MaxBytes
<1>1. /\ n \in queue
      /\ FlowType = [sent : bytes, closed : BOOLEAN, src : queue, buf : buffer,
                     dst : queue, shut : BOOLEAN, got : bytes, eof : BOOLEAN]
  BY DEF FlowType
<1> HIDE DEF queue, buffer, bytes
<1> QED
  BY <1>1

LEMMA SourceAt ==
  ASSUME NEW fl \in FlowType, NEW n \in 0..Capacity
  PROVE  LET new == [fl EXCEPT !.src = n]
         IN  /\ new \in FlowType /\ new.src = n /\ new.closed = fl.closed
             /\ new.sent = fl.sent /\ new.buf = fl.buf /\ new.dst = fl.dst
             /\ new.shut = fl.shut /\ new.got = fl.got /\ new.eof = fl.eof
<1> DEFINE queue == 0..Capacity
           buffer == 0..BufSize
           bytes == 0..MaxBytes
<1>1. /\ n \in queue
      /\ FlowType = [sent : bytes, closed : BOOLEAN, src : queue, buf : buffer,
                     dst : queue, shut : BOOLEAN, got : bytes, eof : BOOLEAN]
  BY DEF FlowType
<1> HIDE DEF queue, buffer, bytes
<1> QED
  BY <1>1

LEMMA ShutAt ==
  ASSUME NEW fl \in FlowType, NEW n \in 0..Capacity
  PROVE  LET new == [fl EXCEPT !.shut = TRUE, !.dst = n]
         IN  /\ new \in FlowType /\ new.dst = n /\ new.shut = TRUE
             /\ new.sent = fl.sent /\ new.buf = fl.buf /\ new.src = fl.src
             /\ new.closed = fl.closed /\ new.got = fl.got /\ new.eof = fl.eof
<1> DEFINE queue == 0..Capacity
           buffer == 0..BufSize
           bytes == 0..MaxBytes
<1>1. /\ n \in queue
      /\ FlowType = [sent : bytes, closed : BOOLEAN, src : queue, buf : buffer,
                     dst : queue, shut : BOOLEAN, got : bytes, eof : BOOLEAN]
  BY DEF FlowType
<1> HIDE DEF queue, buffer, bytes
<1> QED
  BY <1>1

\* Both streams of client c become new.
LEMMA FlowsOf ==
  ASSUME TypeOK, NEW c \in Conns, NEW new \in [Dirs -> FlowType],
         flow' = [flow EXCEPT ![c] = new]
  PROVE  /\ flow' \in [Conns -> [Dirs -> FlowType]] /\ flow'[c] = new
         /\ \A d \in Conns \ {c} : flow'[d] = flow[d]
  BY DEF TypeOK, FlowType

\* No goroutine of a client that is being given up is running, and unless an
\* end has failed its streams have ended.
LEMMA BothDone ==
  ASSUME IInv, NEW c \in Conns, NEW f \in Dirs, handler[c] \in {"closeGuest", "closeClient"},
         c \notin broken
  PROVE  copier[c][f] = "done" /\ flow[c][f].closed /\ flow[c][f].src = 0
<1>1. HandlerInv(c) /\ StreamInv(c, f)
  BY DEF IInv
<1>2. copier[c] = Both("done")
  BY <1>1 DEF HandlerInv
<1>3. copier[c][f] = "done"
  BY <1>2 DEF Both
<1> QED
  BY <1>1, <1>3 DEF StreamInv

LEMMA CloseGuestKeeps == ASSUME IInv, NEW c \in Conns, CloseGuest(c) PROVE IInv'
<1> DEFINE up == flow[c]["up"]
           down == flow[c]["down"]
           newUp == [up EXCEPT !.shut = TRUE]
           newDown == [down EXCEPT !.src = 0]
           new == [f \in Dirs |-> IF f = "up" THEN newUp ELSE newDown]
<1>1. /\ TypeOK /\ HandlerInv(c) /\ EndsInv(c) /\ CrashOnlyInShutdown
      /\ handler[c] = "closeGuest" /\ handler' = [handler EXCEPT ![c] = "closeClient"]
      /\ guest' = [guest EXCEPT ![c] = "closed"] /\ crashed' = (guest[c] = "nil")
      /\ flow' = [flow EXCEPT ![c]["down"].src = 0, ![c]["up"].shut = TRUE]
      /\ UNCHANGED <<mainVars, client, copier, done, broken>>
  BY DEF IInv, CloseGuest, HandlerGo
<1>2. flow \in [Conns -> [Dirs -> FlowType]] /\ up \in FlowType /\ down \in FlowType
  BY <1>1 DEF TypeOK, FlowType, Dirs
<1>3. flow' = [flow EXCEPT ![c] = new]
  BY <1>1, <1>2 DEF Dirs
<1>4. /\ newUp \in FlowType /\ newUp.sent = up.sent /\ newUp.got = up.got /\ newUp.dst = up.dst
      /\ newUp.buf = up.buf /\ newUp.src = up.src /\ newUp.closed = up.closed
  BY <1>2 DEF FlowType
<1>5. /\ newDown \in FlowType /\ newDown.sent = down.sent /\ newDown.got = down.got
      /\ newDown.dst = down.dst /\ newDown.buf = down.buf /\ newDown.src = 0
      /\ newDown.closed = down.closed /\ newDown.shut = down.shut
  <2>1. 0 \in 0..Capacity
    BY ProxyConstants
  <2> QED
    BY <1>2, <2>1, SourceAt
<1> HIDE DEF newUp, newDown
<1>6. new \in [Dirs -> FlowType] /\ new["up"] = newUp /\ new["down"] = newDown
  BY <1>4, <1>5 DEF Dirs
<1> HIDE DEF new
<1>7. /\ flow' \in [Conns -> [Dirs -> FlowType]] /\ flow'[c] = new
      /\ \A d \in Conns \ {c} : flow'[d] = flow[d]
  BY <1>1, <1>3, <1>6, FlowsOf
<1>8. /\ handler'[c] = "closeClient" /\ guest'[c] = "closed"
      /\ \A d \in Conns \ {c} : handler'[d] = handler[d] /\ guest'[d] = guest[d]
      /\ guest' \in [Conns -> {"none", "live", "dead", "nil", "closed"}]
      /\ handler' \in [Conns -> {"none", "dial", "wait2", "wait1", "closeGuest",
                                 "closeClient", "ended"}]
  BY <1>1 DEF TypeOK
<1>9. TypeOK'
  BY <1>1, <1>7, <1>8 DEF TypeOK, FlowType, mainVars
<1>10. CrashOnlyInShutdown'
  BY <1>1 DEF CrashOnlyInShutdown, EndsInv, mainVars
<1>11. HandlerInv(c)' /\ EndsInv(c)'
  BY <1>1, <1>8 DEF HandlerInv, EndsInv, mainVars
<1>12. StreamInv(c, "up")'
  <2>1. StreamInv(c, "up") /\ (c \notin broken => copier[c]["up"] = "done")
    BY <1>1, BothDone DEF IInv, Dirs
  <2> QED
    BY <1>1, <1>4, <1>6, <1>7, <2>1 DEF StreamInv
<1>13. StreamInv(c, "down")'
  <2>1. StreamInv(c, "down") /\ (c \notin broken => down.src = 0)
    BY <1>1, BothDone DEF IInv, Dirs
  <2>2. down.got \in Nat /\ down.dst \in Nat /\ down.buf \in Nat /\ down.src \in Nat /\ down.sent \in Nat
    BY <1>1, FlowFields DEF Dirs
  <2>3. \A a, b, e, k, s \in Nat : a + b + e + k <= s => a + b + e + 0 <= s
    OBVIOUS
  <2>4. down.got + down.dst + down.buf + down.src <= down.sent
    BY <2>1 DEF StreamInv
  <2>5. down.got + down.dst + down.buf + 0 <= down.sent
    BY <2>2, <2>3, <2>4
  <2>6. flow'[c]["down"] = newDown /\ copier' = copier /\ broken' = broken
    BY <1>1, <1>6, <1>7
  <2> QED
    BY <1>5, <2>1, <2>5, <2>6 DEF StreamInv
<1> QED
  BY <1>1, <1>7, <1>8, <1>9, <1>10, <1>11, <1>12, <1>13, OneConn DEF Dirs

LEMMA CloseClientKeeps == ASSUME IInv, NEW c \in Conns, CloseClient(c) PROVE IInv'
<1> DEFINE up == flow[c]["up"]
           down == flow[c]["down"]
<1>1. /\ TypeOK /\ HandlerInv(c) /\ EndsInv(c) /\ CrashOnlyInShutdown
      /\ handler[c] = "closeClient" /\ handler' = [handler EXCEPT ![c] = "ended"]
      /\ UNCHANGED <<mainVars, client, guest, copier, done, broken, crashed>>
  BY DEF IInv, CloseClient, HandlerGo
<1>2. PICK reset \in {FALSE, up.src > 0} :
        flow' = [flow EXCEPT ![c]["down"].shut = TRUE,
                             ![c]["down"].dst = IF reset THEN 0 ELSE @,
                             ![c]["up"].src = 0, ![c]["up"].closed = TRUE]
  BY DEF CloseClient
<1> DEFINE dst == IF reset THEN 0 ELSE down.dst
           newUp == [up EXCEPT !.src = 0, !.closed = TRUE]
           newDown == [down EXCEPT !.shut = TRUE, !.dst = dst]
           new == [f \in Dirs |-> IF f = "up" THEN newUp ELSE newDown]
<1>3. flow \in [Conns -> [Dirs -> FlowType]] /\ up \in FlowType /\ down \in FlowType
  BY <1>1 DEF TypeOK, FlowType, Dirs
<1>4. flow' = [flow EXCEPT ![c] = new]
  <2> DEFINE both == [flow[c] EXCEPT !["down"].shut = TRUE,
                                     !["down"].dst = IF reset THEN 0 ELSE @,
                                     !["up"].src = 0, !["up"].closed = TRUE]
  <2>1. flow' = [flow EXCEPT ![c] = both]
    <3> DEFINE half == [flow[c] EXCEPT !["down"].shut = TRUE,
                                       !["down"].dst = IF reset THEN 0 ELSE @]
               fl == [flow EXCEPT ![c]["down"].shut = TRUE,
                                  ![c]["down"].dst = IF reset THEN 0 ELSE @]
    <3>1. DOMAIN flow = Conns /\ c \in Conns
      BY <1>3
    <3>2. fl = [flow EXCEPT ![c] = half]
      BY <3>1
    <3>3. flow' = [fl EXCEPT ![c]["up"].src = 0, ![c]["up"].closed = TRUE]
      BY <1>2
    <3>4. both = [half EXCEPT !["up"].src = 0, !["up"].closed = TRUE]
      OBVIOUS
    <3> HIDE DEF fl, half, both
    <3>5. flow' = [fl EXCEPT ![c] = [half EXCEPT !["up"].src = 0, !["up"].closed = TRUE]]
      BY <3>1, <3>2, <3>3
    <3> QED
      BY <3>1, <3>2, <3>4, <3>5
  <2>2. flow[c] \in [{"up", "down"} -> FlowType] /\ Dirs = {"up", "down"}
    BY <1>3 DEF Dirs
  <2>3. both["up"] = newUp /\ both["down"] = newDown /\ DOMAIN both = {"up", "down"}
    BY <2>2
  <2>4. both = [g \in {"up", "down"} |-> both[g]]
    BY <2>2
  <2> HIDE DEF both, newUp, newDown
  <2>5. both = new
    BY <2>2, <2>3, <2>4
  <2> QED
    BY <2>1, <2>5
<1>5. dst \in {0, down.dst} /\ dst \in 0..Capacity /\ (up.src = 0 => dst = down.dst)
  <2>1. down.dst \in 0..Capacity /\ 0 \in 0..Capacity
    BY <1>1, FlowFields, ProxyConstants DEF Dirs
  <2>2. up.src = 0 => ~(up.src > 0)
    OBVIOUS
  <2> QED
    BY <1>2, <2>1, <2>2
<1> HIDE DEF dst
<1>6. /\ newUp \in FlowType /\ newUp.sent = up.sent /\ newUp.got = up.got /\ newUp.dst = up.dst
      /\ newUp.buf = up.buf /\ newUp.src = 0 /\ newUp.closed = TRUE /\ newUp.shut = up.shut
  <2>1. 0 \in 0..Capacity
    BY ProxyConstants
  <2> HIDE DEF up
  <2> QED
    BY <1>3, <2>1, ClosedAt
<1>7. /\ newDown \in FlowType /\ newDown.sent = down.sent /\ newDown.got = down.got
      /\ newDown.dst = dst /\ newDown.buf = down.buf /\ newDown.src = down.src
      /\ newDown.closed = down.closed
  BY <1>3, <1>5, ShutAt
<1> HIDE DEF newUp, newDown
<1>8. new \in [Dirs -> FlowType] /\ new["up"] = newUp /\ new["down"] = newDown
  BY <1>6, <1>7 DEF Dirs
<1> HIDE DEF new
<1>9. /\ flow' \in [Conns -> [Dirs -> FlowType]] /\ flow'[c] = new
      /\ \A d \in Conns \ {c} : flow'[d] = flow[d]
  BY <1>1, <1>4, <1>8, FlowsOf
<1>10. /\ handler'[c] = "ended" /\ \A d \in Conns \ {c} : handler'[d] = handler[d]
       /\ handler' \in [Conns -> {"none", "dial", "wait2", "wait1", "closeGuest",
                                  "closeClient", "ended"}]
  BY <1>1 DEF TypeOK
<1>11. TypeOK'
  BY <1>1, <1>9, <1>10 DEF TypeOK, FlowType, mainVars
<1>12. CrashOnlyInShutdown' /\ HandlerInv(c)' /\ EndsInv(c)'
  BY <1>1, <1>10 DEF CrashOnlyInShutdown, HandlerInv, EndsInv, mainVars
<1>13. \A f \in Dirs : /\ flow[c][f].got \in Nat /\ flow[c][f].dst \in Nat
                       /\ flow[c][f].buf \in Nat /\ flow[c][f].src \in Nat
                       /\ flow[c][f].sent \in Nat
  BY <1>1, FlowFields
<1>14. StreamInv(c, "up")'
  <2>1. StreamInv(c, "up") /\ (c \notin broken => up.src = 0 /\ copier[c]["up"] = "done")
    BY <1>1, BothDone DEF IInv, Dirs
  <2>2. \A a, b, e, k, s \in Nat : a + b + e + k <= s => a + b + e + 0 <= s
    OBVIOUS
  <2>3. up.got + up.dst + up.buf + up.src <= up.sent
    BY <2>1 DEF StreamInv
  <2>4. up.got + up.dst + up.buf + 0 <= up.sent
    BY <1>13, <2>2, <2>3 DEF Dirs
  <2> QED
    BY <1>1, <1>6, <1>8, <1>9, <2>1, <2>4 DEF StreamInv
<1>15. StreamInv(c, "down")'
  <2>1. /\ StreamInv(c, "down")
        /\ c \notin broken => up.src = 0 /\ copier[c]["down"] = "done"
    BY <1>1, BothDone DEF IInv, Dirs
  <2>2. \A a, b, e, k, s \in Nat : a + b + e + k <= s => a + 0 + e + k <= s
    OBVIOUS
  <2>3. down.got + down.dst + down.buf + down.src <= down.sent
    BY <2>1 DEF StreamInv
  <2>4. down.got + dst + down.buf + down.src <= down.sent
    BY <1>5, <1>13, <2>2, <2>3 DEF Dirs
  <2> QED
    BY <1>1, <1>5, <1>7, <1>8, <1>9, <2>1, <2>4 DEF StreamInv
<1> QED
  BY <1>1, <1>9, <1>10, <1>11, <1>12, <1>14, <1>15, OneConn DEF Dirs

-----------------------------------------------------------------------------
(* IInv is inductive: the goroutines and the two ends *)

States == {"none", "read", "write", "shut", "done"}

\* Steps in direction f of client c, whose stream becomes new.
LEMMA OneDir ==
  ASSUME IInv, NEW c \in Conns, NEW f \in Dirs, NEW new \in FlowType,
         flow' = [flow EXCEPT ![c][f] = new],
         copier' \in [Conns -> [Dirs -> States]], done' \in [Conns -> 0..2],
         \A d \in Conns \ {c} : copier'[d] = copier[d] /\ done'[d] = done[d],
         \A g \in Dirs \ {f} : copier'[c][g] = copier[c][g],
         UNCHANGED <<mainVars, handler, guest, client, broken, crashed>>,
         flow'[c][f] = new => StreamInv(c, f)',
         HandlerInv(c)'
  PROVE  IInv'
<1>1. TypeOK /\ CrashOnlyInShutdown /\ EndsInv(c)
  BY DEF IInv
<1>2. flow \in [Conns -> [Dirs -> FlowType]]
  BY <1>1 DEF TypeOK, FlowType
<1>3. /\ flow' \in [Conns -> [Dirs -> FlowType]] /\ flow'[c][f] = new
      /\ \A d \in Conns \ {c} : flow'[d] = flow[d]
      /\ \A g \in Dirs \ {f} : flow'[c][g] = flow[c][g]
  BY <1>2
<1>4. TypeOK'
  BY <1>1, <1>3 DEF TypeOK, FlowType, States, mainVars
<1>5. CrashOnlyInShutdown' /\ EndsInv(c)'
  BY <1>1 DEF CrashOnlyInShutdown, EndsInv, mainVars
<1>6. ASSUME NEW g \in Dirs PROVE StreamInv(c, g)'
  <2>1. CASE g = f
    BY <1>3, <2>1
  <2>2. CASE g # f
    <3>1. StreamInv(c, g) /\ flow'[c][g] = flow[c][g] /\ copier'[c][g] = copier[c][g]
      BY <1>3, <2>2 DEF IInv
    <3> QED
      BY <3>1 DEF StreamInv
  <2> QED
    BY <2>1, <2>2
<1> QED
  BY <1>3, <1>4, <1>5, <1>6, OneConn

\* A goroutine goes on to its next step, which is not its last.
LEMMA CopierMoves ==
  ASSUME IInv, NEW c \in Conns, NEW f \in Dirs,
         NEW from \in {"read", "write", "shut"}, NEW to \in {"read", "write", "shut"},
         CopierGo(c, f, from, to), UNCHANGED done
  PROVE  /\ copier' \in [Conns -> [Dirs -> States]] /\ done' \in [Conns -> 0..2]
         /\ \A d \in Conns \ {c} : copier'[d] = copier[d] /\ done'[d] = done[d]
         /\ \A g \in Dirs \ {f} : copier'[c][g] = copier[c][g]
         /\ copier[c][f] = from /\ copier'[c][f] = to
         /\ UNCHANGED <<mainVars, handler, guest, client, broken, crashed>>
         /\ handler[c] \in {"wait2", "wait1"} /\ HandlerInv(c)'
<1>1. /\ TypeOK /\ HandlerInv(c)
      /\ copier[c][f] = from /\ copier' = [copier EXCEPT ![c][f] = to]
      /\ UNCHANGED <<mainVars, handler, guest, client, broken, crashed>>
  BY DEF IInv, CopierGo
<1>2. /\ copier' \in [Conns -> [Dirs -> States]] /\ done' \in [Conns -> 0..2]
      /\ \A d \in Conns \ {c} : copier'[d] = copier[d] /\ done'[d] = done[d]
      /\ \A g \in Dirs \ {f} : copier'[c][g] = copier[c][g]
      /\ copier'[c][f] = to
  BY <1>1 DEF TypeOK, States
<1>3. Finished(c)' = Finished(c)
  BY <1>1, <1>2 DEF Finished, Dirs
<1>4. handler[c] \in {"wait2", "wait1"}
  BY <1>1 DEF HandlerInv, Both, TypeOK
<1>5. HandlerInv(c)'
  <2>1. \A g \in Dirs : copier'[c][g] # "none"
    BY <1>1, <1>2, <1>4 DEF HandlerInv
  <2> QED
    BY <1>1, <1>3, <1>4, <2>1 DEF HandlerInv, mainVars
<1> QED
  BY <1>1, <1>2, <1>4, <1>5

LEMMA MinOfTwo ==
  ASSUME NEW a \in Int, NEW b \in Int
  PROVE  Min({a, b}) = IF a <= b THEN a ELSE b
  BY DEF Min

LEMMA CopyReadKeeps == ASSUME IInv, NEW c \in Conns, NEW f \in Dirs, CopyRead(c, f) PROVE IInv'
<1> DEFINE fl == flow[c][f]
<1>1. /\ TypeOK /\ StreamInv(c, f) /\ CopierGo(c, f, "read", "write") /\ UNCHANGED done
  BY DEF IInv, CopyRead
<1>2. PICK n \in 1..Min({BufSize, fl.src}) :
        flow' = [flow EXCEPT ![c][f].buf = n, ![c][f].src = @ - n]
  BY DEF CopyRead
<1> DEFINE left == fl.src - n
           new == [fl EXCEPT !.buf = n, !.src = left]
<1>3. /\ copier' \in [Conns -> [Dirs -> States]] /\ done' \in [Conns -> 0..2]
      /\ \A d \in Conns \ {c} : copier'[d] = copier[d] /\ done'[d] = done[d]
      /\ \A g \in Dirs \ {f} : copier'[c][g] = copier[c][g]
      /\ copier[c][f] = "read" /\ copier'[c][f] = "write" /\ HandlerInv(c)'
      /\ UNCHANGED <<mainVars, handler, guest, client, broken, crashed>>
  BY <1>1, CopierMoves
<1>4. /\ flow \in [Conns -> [Dirs -> FlowType]] /\ fl \in FlowType
      /\ fl.sent \in Nat /\ fl.got \in Nat /\ fl.src \in 0..Capacity
      /\ fl.dst \in Nat /\ fl.buf \in Nat /\ Capacity \in Nat /\ BufSize \in Nat
  BY <1>1, FlowFields
<1>5. n \in 0..BufSize /\ n \in Nat /\ left \in 0..Capacity
  <2> DEFINE src == fl.src
  <2>1. src \in Nat /\ src <= Capacity
    BY <1>4
  <2>2. n \in 1..Min({BufSize, src})
    BY <1>2
  <2> HIDE DEF src
  <2>3. Min({BufSize, src}) = IF BufSize <= src THEN BufSize ELSE src
    BY <1>4, <2>1, MinOfTwo
  <2>4. n \in 0..BufSize /\ n \in Nat /\ src - n \in 0..Capacity
    BY <1>4, <2>1, <2>2, <2>3
  <2> QED
    BY <2>4 DEF src
<1>6. flow' = [flow EXCEPT ![c][f] = new]
  BY <1>2, <1>4
<1>7. fl.buf = 0 /\ (c \notin broken => ~fl.shut)
  BY <1>1, <1>3 DEF StreamInv
<1>8. fl.got + fl.dst + n + left = fl.got + fl.dst + fl.buf + fl.src
  BY <1>4, <1>5, <1>7
<1> HIDE DEF left
<1>9. /\ new \in FlowType /\ new.sent = fl.sent /\ new.got = fl.got /\ new.dst = fl.dst
      /\ new.buf = n /\ new.src = left /\ new.closed = fl.closed /\ new.shut = fl.shut
  <2> DEFINE queue == 0..Capacity
             buffer == 0..BufSize
             bytes == 0..MaxBytes
  <2>1. /\ n \in buffer /\ left \in queue
        /\ FlowType = [sent : bytes, closed : BOOLEAN, src : queue, buf : buffer,
                       dst : queue, shut : BOOLEAN, got : bytes, eof : BOOLEAN]
    BY <1>5 DEF FlowType
  <2> HIDE DEF queue, buffer, bytes
  <2> QED
    BY <1>4, <2>1
<1> HIDE DEF new
<1>10. flow'[c][f] = new => StreamInv(c, f)'
  BY <1>1, <1>3, <1>7, <1>8, <1>9 DEF StreamInv
<1> QED
  BY <1>3, <1>6, <1>9, <1>10, OneDir

LEMMA CopyEndKeeps == ASSUME IInv, NEW c \in Conns, NEW f \in Dirs, CopyEnd(c, f) PROVE IInv'
<1>1. /\ TypeOK /\ StreamInv(c, f) /\ CopierGo(c, f, "read", "shut") /\ UNCHANGED <<flow, done>>
      /\ flow[c][f].src = 0 /\ flow[c][f].closed
  BY DEF IInv, CopyEnd
<1>2. /\ copier' \in [Conns -> [Dirs -> States]] /\ done' \in [Conns -> 0..2]
      /\ \A d \in Conns \ {c} : copier'[d] = copier[d] /\ done'[d] = done[d]
      /\ \A g \in Dirs \ {f} : copier'[c][g] = copier[c][g]
      /\ copier[c][f] = "read" /\ copier'[c][f] = "shut" /\ HandlerInv(c)'
      /\ UNCHANGED <<mainVars, handler, guest, client, broken, crashed>>
  BY <1>1, CopierMoves
<1>3. flow[c][f] \in FlowType /\ flow' = [flow EXCEPT ![c][f] = flow[c][f]]
  BY <1>1, FlowFields
<1>4. StreamInv(c, f)'
  BY <1>1, <1>2 DEF StreamInv
<1> QED
  BY <1>2, <1>3, <1>4, OneDir

LEMMA CopyWriteKeeps == ASSUME IInv, NEW c \in Conns, NEW f \in Dirs, CopyWrite(c, f) PROVE IInv'
<1> DEFINE fl == flow[c][f]
<1>1. TypeOK /\ StreamInv(c, f) /\ UNCHANGED done
  BY DEF IInv, CopyWrite
<1>2. PICK n \in 1..Min({Capacity - fl.dst, fl.buf}) :
        /\ flow' = [flow EXCEPT ![c][f].dst = @ + n, ![c][f].buf = @ - n]
        /\ CopierGo(c, f, "write", IF n = fl.buf THEN "read" ELSE "write")
  BY DEF CopyWrite
<1> DEFINE to == IF n = fl.buf THEN "read" ELSE "write"
           more == fl.dst + n
           left == fl.buf - n
           new == [fl EXCEPT !.dst = more, !.buf = left]
<1>3. /\ copier' \in [Conns -> [Dirs -> States]] /\ done' \in [Conns -> 0..2]
      /\ \A d \in Conns \ {c} : copier'[d] = copier[d] /\ done'[d] = done[d]
      /\ \A g \in Dirs \ {f} : copier'[c][g] = copier[c][g]
      /\ copier[c][f] = "write" /\ copier'[c][f] = to /\ HandlerInv(c)'
      /\ UNCHANGED <<mainVars, handler, guest, client, broken, crashed>>
  <2>1. to \in {"read", "write", "shut"} /\ CopierGo(c, f, "write", to)
    BY <1>2
  <2> HIDE DEF to
  <2> QED
    BY <1>1, <2>1, CopierMoves
<1>4. /\ flow \in [Conns -> [Dirs -> FlowType]] /\ fl \in FlowType
      /\ fl.sent \in Nat /\ fl.got \in Nat /\ fl.src \in Nat
      /\ fl.dst \in 0..Capacity /\ fl.buf \in 0..BufSize /\ Capacity \in Nat /\ BufSize \in Nat
  BY <1>1, FlowFields
<1>5. /\ n \in Nat /\ more \in 0..Capacity /\ left \in 0..BufSize
      /\ n = fl.buf => left = 0
  <2> DEFINE dst == fl.dst
             buf == fl.buf
             room == Capacity - dst
  <2>1. dst \in Nat /\ dst <= Capacity /\ buf \in Nat /\ buf <= BufSize
    BY <1>4
  <2>2. n \in 1..Min({room, buf})
    BY <1>2
  <2> HIDE DEF dst, buf
  <2>3. room \in Nat
    BY <1>4, <2>1
  <2> HIDE DEF room
  <2>4. Min({room, buf}) = IF room <= buf THEN room ELSE buf
    BY <2>1, <2>3, MinOfTwo
  <2>5. n \in Nat /\ n <= room /\ n <= buf
    BY <2>1, <2>2, <2>3, <2>4
  <2>6. dst + n \in 0..Capacity /\ buf - n \in 0..BufSize /\ (n = buf => buf - n = 0)
    BY <1>4, <2>1, <2>5 DEF room
  <2> QED
    BY <2>5, <2>6 DEF dst, buf
<1>6. flow' = [flow EXCEPT ![c][f] = new]
  BY <1>2, <1>4
<1>7. c \notin broken => ~fl.shut
  BY <1>1, <1>3 DEF StreamInv
<1>8. fl.got + more + left + fl.src = fl.got + fl.dst + fl.buf + fl.src
  BY <1>4, <1>5
<1> HIDE DEF left, more
<1>9. /\ new \in FlowType /\ new.sent = fl.sent /\ new.got = fl.got /\ new.dst = more
      /\ new.buf = left /\ new.src = fl.src /\ new.closed = fl.closed /\ new.shut = fl.shut
  <2> DEFINE queue == 0..Capacity
             buffer == 0..BufSize
             bytes == 0..MaxBytes
  <2>1. /\ left \in buffer /\ more \in queue
        /\ FlowType = [sent : bytes, closed : BOOLEAN, src : queue, buf : buffer,
                       dst : queue, shut : BOOLEAN, got : bytes, eof : BOOLEAN]
    BY <1>5 DEF FlowType
  <2> HIDE DEF queue, buffer, bytes
  <2> QED
    BY <1>4, <2>1
<1> HIDE DEF new
<1>10. flow'[c][f] = new => StreamInv(c, f)'
  BY <1>1, <1>3, <1>5, <1>7, <1>8, <1>9 DEF StreamInv
<1> QED
  BY <1>3, <1>6, <1>9, <1>10, OneDir

\* A direction that cannot be written to has been noted.
LEMMA DeadEndIsBroken ==
  ASSUME IInv, NEW c \in Conns, NEW f \in Dirs, DeadEnd(c, f),
         handler[c] \in {"wait2", "wait1"}
  PROVE  c \in broken
<1>1. HandlerInv(c) /\ EndsInv(c)
  BY DEF IInv
<1> QED
  BY <1>1 DEF DeadEnd, HandlerInv, EndsInv

LEMMA WriteErrorKeeps == ASSUME IInv, NEW c \in Conns, NEW f \in Dirs, WriteError(c, f) PROVE IInv'
<1> DEFINE fl == flow[c][f]
           new == [fl EXCEPT !.buf = 0]
<1>1. /\ TypeOK /\ StreamInv(c, f) /\ DeadEnd(c, f) /\ CopierGo(c, f, "write", "shut")
      /\ UNCHANGED done /\ flow' = [flow EXCEPT ![c][f].buf = 0]
  BY DEF IInv, WriteError, AfterWriteError
<1>2. /\ copier' \in [Conns -> [Dirs -> States]] /\ done' \in [Conns -> 0..2]
      /\ \A d \in Conns \ {c} : copier'[d] = copier[d] /\ done'[d] = done[d]
      /\ \A g \in Dirs \ {f} : copier'[c][g] = copier[c][g]
      /\ copier[c][f] = "write" /\ copier'[c][f] = "shut"
      /\ handler[c] \in {"wait2", "wait1"} /\ HandlerInv(c)'
      /\ UNCHANGED <<mainVars, handler, guest, client, broken, crashed>>
  BY <1>1, CopierMoves
<1>3. c \in broken
  BY <1>1, <1>2, DeadEndIsBroken
<1>4. /\ flow \in [Conns -> [Dirs -> FlowType]] /\ fl \in FlowType
      /\ fl.sent \in Nat /\ fl.got \in Nat /\ fl.src \in Nat /\ fl.dst \in Nat /\ fl.buf \in Nat
  BY <1>1, FlowFields
<1>5. flow' = [flow EXCEPT ![c][f] = new]
  BY <1>1, <1>4
<1>6. /\ new \in FlowType /\ new.sent = fl.sent /\ new.got = fl.got /\ new.dst = fl.dst
      /\ new.buf = 0 /\ new.src = fl.src
  <2> DEFINE queue == 0..Capacity
             buffer == 0..BufSize
             bytes == 0..MaxBytes
  <2>1. /\ 0 \in buffer
        /\ FlowType = [sent : bytes, closed : BOOLEAN, src : queue, buf : buffer,
                       dst : queue, shut : BOOLEAN, got : bytes, eof : BOOLEAN]
    BY ProxyConstants DEF FlowType
  <2> HIDE DEF queue, buffer, bytes
  <2> QED
    BY <1>4, <2>1
<1> HIDE DEF new
<1>7. fl.got + fl.dst + 0 + fl.src <= fl.sent
  <2>1. \A a, b, e, k, s \in Nat : a + b + e + k <= s => a + b + 0 + k <= s
    OBVIOUS
  <2>2. fl.got + fl.dst + fl.buf + fl.src <= fl.sent
    BY <1>1 DEF StreamInv
  <2> QED
    BY <1>4, <2>1, <2>2
<1>8. flow'[c][f] = new => StreamInv(c, f)'
  BY <1>2, <1>3, <1>6, <1>7 DEF StreamInv
<1> QED
  BY <1>2, <1>5, <1>6, <1>8, OneDir

LEMMA CopyCloseKeeps == ASSUME IInv, NEW c \in Conns, NEW f \in Dirs, CloseWrite(c, f) PROVE IInv'
<1> DEFINE fl == flow[c][f]
           new == [fl EXCEPT !.shut = TRUE]
<1>1. /\ TypeOK /\ StreamInv(c, f) /\ HandlerInv(c) /\ copier[c][f] = "shut"
      /\ copier' = [copier EXCEPT ![c][f] = "done"]
      /\ flow' = [flow EXCEPT ![c][f] = Shut(@)] /\ done' = [done EXCEPT ![c] = Report(@)]
      /\ UNCHANGED <<mainVars, handler, guest, client, broken, crashed>>
  BY DEF IInv, CloseWrite, CopierGo
<1>2. /\ flow \in [Conns -> [Dirs -> FlowType]] /\ fl \in FlowType
  BY <1>1, FlowFields
<1>3. flow' = [flow EXCEPT ![c][f] = new]
  BY <1>1, <1>2 DEF Shut
<1>4. /\ new \in FlowType /\ new.sent = fl.sent /\ new.got = fl.got /\ new.dst = fl.dst
      /\ new.buf = fl.buf /\ new.src = fl.src /\ new.closed = fl.closed
  BY <1>2 DEF FlowType
<1> HIDE DEF new
<1>5. /\ copier' \in [Conns -> [Dirs -> States]]
      /\ \A d \in Conns \ {c} : copier'[d] = copier[d]
      /\ \A g \in Dirs \ {f} : copier'[c][g] = copier[c][g]
      /\ copier'[c][f] = "done"
  BY <1>1 DEF TypeOK, States
<1>6. handler[c] \in {"wait2", "wait1"}
  BY <1>1 DEF HandlerInv, Both, TypeOK
<1>7. Finished(c)' = Finished(c) + 1 /\ Finished(c)' \in 0..2 /\ Finished(c) \in Nat
  <2> DEFINE one(state) == IF state = "done" THEN 1 ELSE 0
  <2>1. one("shut") = 0 /\ one("done") = 1 /\ \A g \in Dirs : one(copier[c][g]) \in {0, 1}
    OBVIOUS
  <2>2. /\ Finished(c) = one(copier[c]["up"]) + one(copier[c]["down"])
        /\ Finished(c)' = one(copier'[c]["up"]) + one(copier'[c]["down"])
    BY DEF Finished
  <2> HIDE DEF one
  <2>3. CASE f = "up"
    <3>1. /\ one(copier[c]["up"]) = 0 /\ one(copier'[c]["up"]) = 1
          /\ one(copier'[c]["down"]) = one(copier[c]["down"])
      BY <1>1, <1>5, <2>1, <2>3 DEF Dirs
    <3> QED
      BY <2>1, <2>2, <3>1 DEF Dirs
  <2>4. CASE f = "down"
    <3>1. /\ one(copier[c]["down"]) = 0 /\ one(copier'[c]["down"]) = 1
          /\ one(copier'[c]["up"]) = one(copier[c]["up"])
      BY <1>1, <1>5, <2>1, <2>4 DEF Dirs
    <3> QED
      BY <2>1, <2>2, <3>1 DEF Dirs
  <2> QED
    BY <2>3, <2>4 DEF Dirs
<1>8. done[c] \in Nat /\ done'[c] = done[c] + 1 /\ \A d \in Conns \ {c} : done'[d] = done[d]
  <2>1. done \in [Conns -> 0..2] /\ done' = [done EXCEPT ![c] = done[c] + 1]
    BY <1>1 DEF TypeOK, Report
  <2> QED
    BY <2>1
<1>9. done'[c] \in 0..2
  BY <1>1, <1>6, <1>7, <1>8 DEF HandlerInv
<1>10. done' \in [Conns -> 0..2]
  BY <1>1, <1>9 DEF TypeOK
<1>11. HandlerInv(c)'
  <2>1. \A g \in Dirs : copier'[c][g] # "none"
    BY <1>1, <1>5, <1>6 DEF HandlerInv
  <2> QED
    BY <1>1, <1>6, <1>7, <1>8, <2>1 DEF HandlerInv, mainVars
<1>12. flow'[c][f] = new => StreamInv(c, f)'
  BY <1>1, <1>4, <1>5 DEF StreamInv
<1>13. \A d \in Conns \ {c} : copier'[d] = copier[d] /\ done'[d] = done[d]
  BY <1>5, <1>8
<1>14. UNCHANGED <<mainVars, handler, guest, client, broken, crashed>>
  BY <1>1
<1>15. new \in FlowType
  BY <1>4
<1> HIDE DEF fl
<1> QED
  BY <1>3, <1>5, <1>10, <1>11, <1>12, <1>13, <1>14, <1>15, OneDir

\* What the two ends do in direction f of client c, whose stream becomes new.
LEMMA EndStep ==
  ASSUME IInv, NEW c \in Conns, NEW f \in Dirs, NEW new \in FlowType,
         flow' = [flow EXCEPT ![c][f] = new], EndUnchanged, UNCHANGED <<guest, client, broken>>,
         flow'[c][f] = new => StreamInv(c, f)'
  PROVE  IInv'
<1>1. /\ TypeOK /\ HandlerInv(c)
      /\ UNCHANGED <<mainVars, handler, copier, done, crashed, guest, client, broken>>
  BY DEF IInv, EndUnchanged
<1>2. HandlerInv(c)'
  <2>1. Finished(c)' = Finished(c)
    BY <1>1 DEF Finished
  <2> QED
    BY <1>1, <2>1 DEF HandlerInv, mainVars
<1>3. copier' \in [Conns -> [Dirs -> States]] /\ done' \in [Conns -> 0..2]
  BY <1>1 DEF TypeOK, States
<1> QED
  BY <1>1, <1>2, <1>3, OneDir

LEMMA SendKeeps == ASSUME IInv, NEW c \in Conns, NEW f \in Dirs, Send(c, f) PROVE IInv'
<1> DEFINE fl == flow[c][f]
           total == fl.sent + 1
           more == fl.src + 1
           new == [fl EXCEPT !.sent = total, !.src = more]
<1>1. /\ TypeOK /\ StreamInv(c, f) /\ ~fl.closed /\ fl.sent < MaxBytes /\ fl.src < Capacity
      /\ flow' = [flow EXCEPT ![c][f].sent = @ + 1, ![c][f].src = @ + 1]
      /\ EndUnchanged /\ UNCHANGED <<guest, client, broken>>
      /\ copier' = copier
  BY DEF IInv, Send, Sends, EndUnchanged
<1>2. /\ flow \in [Conns -> [Dirs -> FlowType]] /\ fl \in FlowType
      /\ fl.sent \in Nat /\ fl.got \in Nat /\ fl.src \in Nat /\ fl.dst \in Nat /\ fl.buf \in Nat
      /\ MaxBytes \in Nat /\ Capacity \in Nat
  BY <1>1, FlowFields
<1>3. flow' = [flow EXCEPT ![c][f] = new]
  BY <1>1, <1>2
<1>4. total \in 0..MaxBytes /\ more \in 0..Capacity
  BY <1>1, <1>2
<1>5. LET was == fl.got + fl.dst + fl.buf + fl.src
          is == fl.got + fl.dst + fl.buf + more
      IN  (was <= fl.sent => is <= total) /\ (was = fl.sent => is = total)
  BY <1>2
<1>6. c \notin broken => copier[c][f] \notin {"shut", "done"}
  BY <1>1 DEF StreamInv
<1> HIDE DEF total, more
<1>7. /\ new \in FlowType /\ new.sent = total /\ new.got = fl.got /\ new.dst = fl.dst
      /\ new.buf = fl.buf /\ new.src = more /\ new.closed = fl.closed /\ new.shut = fl.shut
  <2> DEFINE queue == 0..Capacity
             buffer == 0..BufSize
             bytes == 0..MaxBytes
  <2>1. /\ more \in queue /\ total \in bytes
        /\ FlowType = [sent : bytes, closed : BOOLEAN, src : queue, buf : buffer,
                       dst : queue, shut : BOOLEAN, got : bytes, eof : BOOLEAN]
    BY <1>4 DEF FlowType
  <2> HIDE DEF queue, buffer, bytes
  <2> QED
    BY <1>2, <2>1
<1> HIDE DEF new
<1>8. flow'[c][f] = new => StreamInv(c, f)'
  BY <1>1, <1>5, <1>6, <1>7 DEF StreamInv
<1> QED
  BY <1>1, <1>3, <1>7, <1>8, EndStep

LEMMA HalfCloseKeeps == ASSUME IInv, NEW c \in Conns, NEW f \in Dirs, HalfClose(c, f) PROVE IInv'
<1> DEFINE fl == flow[c][f]
           new == [fl EXCEPT !.closed = TRUE]
<1>1. /\ TypeOK /\ StreamInv(c, f) /\ flow' = [flow EXCEPT ![c][f].closed = TRUE]
      /\ EndUnchanged /\ UNCHANGED <<guest, client, broken>> /\ copier' = copier
  BY DEF IInv, HalfClose, EndUnchanged
<1>2. flow \in [Conns -> [Dirs -> FlowType]] /\ fl \in FlowType
  BY <1>1, FlowFields
<1>3. flow' = [flow EXCEPT ![c][f] = new]
  BY <1>1, <1>2
<1>4. /\ new \in FlowType /\ new.sent = fl.sent /\ new.got = fl.got /\ new.dst = fl.dst
      /\ new.buf = fl.buf /\ new.src = fl.src /\ new.closed = TRUE /\ new.shut = fl.shut
  BY <1>2 DEF FlowType
<1> HIDE DEF new
<1>5. flow'[c][f] = new => StreamInv(c, f)'
  BY <1>1, <1>4 DEF StreamInv
<1> QED
  BY <1>1, <1>3, <1>4, <1>5, EndStep

LEMMA RecvKeeps == ASSUME IInv, NEW c \in Conns, NEW f \in Dirs, Recv(c, f) PROVE IInv'
<1> DEFINE fl == flow[c][f]
<1>1. /\ TypeOK /\ StreamInv(c, f) /\ EndUnchanged /\ UNCHANGED <<guest, client, broken>>
      /\ copier' = copier
  BY DEF IInv, Recv, EndUnchanged
<1>2. /\ flow \in [Conns -> [Dirs -> FlowType]] /\ fl \in FlowType
      /\ fl.sent \in 0..MaxBytes /\ fl.got \in Nat /\ fl.src \in Nat /\ fl.dst \in 0..Capacity
      /\ fl.buf \in Nat /\ MaxBytes \in Nat /\ Capacity \in Nat
  BY <1>1, FlowFields
<1>3. CASE /\ fl.dst > 0
           /\ flow' = [flow EXCEPT ![c][f].got = @ + 1, ![c][f].dst = @ - 1]
  <2> DEFINE has == fl.got + 1
             left == fl.dst - 1
             new == [fl EXCEPT !.got = has, !.dst = left]
  <2>1. flow' = [flow EXCEPT ![c][f] = new]
    BY <1>2, <1>3
  <2>2. fl.got + fl.dst + fl.buf + fl.src <= fl.sent
    BY <1>1 DEF StreamInv
  <2>3. /\ has \in 0..MaxBytes /\ left \in 0..Capacity
        /\ has + left + fl.buf + fl.src = fl.got + fl.dst + fl.buf + fl.src
    BY <1>2, <1>3, <2>2
  <2> HIDE DEF has, left
  <2>4. /\ new \in FlowType /\ new.sent = fl.sent /\ new.got = has /\ new.dst = left
        /\ new.buf = fl.buf /\ new.src = fl.src /\ new.closed = fl.closed /\ new.shut = fl.shut
    <3> DEFINE queue == 0..Capacity
               buffer == 0..BufSize
               bytes == 0..MaxBytes
    <3>1. /\ left \in queue /\ has \in bytes
          /\ FlowType = [sent : bytes, closed : BOOLEAN, src : queue, buf : buffer,
                         dst : queue, shut : BOOLEAN, got : bytes, eof : BOOLEAN]
      BY <2>3 DEF FlowType
    <3> HIDE DEF queue, buffer, bytes
    <3> QED
      BY <1>2, <3>1
  <2> HIDE DEF new
  <2>5. flow'[c][f] = new => StreamInv(c, f)'
    BY <1>1, <2>3, <2>4 DEF StreamInv
  <2> QED
    BY <1>1, <2>1, <2>4, <2>5, EndStep
<1>4. CASE flow' = [flow EXCEPT ![c][f].eof = TRUE]
  <2> DEFINE new == [fl EXCEPT !.eof = TRUE]
  <2>1. flow' = [flow EXCEPT ![c][f] = new]
    BY <1>2, <1>4
  <2>2. /\ new \in FlowType /\ new.sent = fl.sent /\ new.got = fl.got /\ new.dst = fl.dst
        /\ new.buf = fl.buf /\ new.src = fl.src /\ new.closed = fl.closed /\ new.shut = fl.shut
    BY <1>2 DEF FlowType
  <2> HIDE DEF new
  <2>3. flow'[c][f] = new => StreamInv(c, f)'
    BY <1>1, <2>2 DEF StreamInv
  <2> QED
    BY <1>1, <2>1, <2>2, <2>3, EndStep
<1> QED
  BY <1>3, <1>4 DEF Recv

LEMMA ClientGoneKeeps == ASSUME IInv, NEW c \in Conns, ClientGone(c) PROVE IInv'
<1> DEFINE up == flow[c]["up"]
           down == flow[c]["down"]
<1>1. /\ TypeOK /\ HandlerInv(c) /\ EndsInv(c) /\ CrashOnlyInShutdown
      /\ client[c] = "open" /\ client' = [client EXCEPT ![c] = "gone"]
      /\ broken' = broken \cup {c}
      /\ UNCHANGED <<mainVars, handler, copier, done, crashed, guest>>
  BY DEF IInv, ClientGone, EndUnchanged
<1>2. PICK keep \in BOOLEAN :
        flow' = [flow EXCEPT ![c]["up"].closed = TRUE, ![c]["down"].dst = 0,
                             ![c]["up"].src = IF keep THEN @ ELSE 0]
  BY DEF ClientGone
<1> DEFINE src == IF keep THEN up.src ELSE 0
           newUp == [up EXCEPT !.src = src, !.closed = TRUE]
           newDown == [down EXCEPT !.dst = 0]
           new == [f \in Dirs |-> IF f = "up" THEN newUp ELSE newDown]
<1>3. flow \in [Conns -> [Dirs -> FlowType]] /\ up \in FlowType /\ down \in FlowType
  BY <1>1 DEF TypeOK, FlowType, Dirs
<1>4. flow' = [flow EXCEPT ![c] = new]
  <2> DEFINE both == [flow[c] EXCEPT !["up"].closed = TRUE, !["down"].dst = 0,
                                     !["up"].src = IF keep THEN @ ELSE 0]
  <2>1. flow' = [flow EXCEPT ![c] = both]
    BY <1>2, <1>3
  <2>2. both = new
    BY <1>3 DEF Dirs
  <2> QED
    BY <2>1, <2>2
<1>5. src \in {0, up.src} /\ src \in 0..Capacity
  BY <1>3, ProxyConstants DEF FlowType
<1> HIDE DEF src
<1>6. /\ newUp \in FlowType /\ newUp.sent = up.sent /\ newUp.got = up.got /\ newUp.dst = up.dst
      /\ newUp.buf = up.buf /\ newUp.src = src
  <2>1. up \in FlowType /\ src \in 0..Capacity
    BY <1>3, <1>5
  <2> HIDE DEF up
  <2> QED
    BY <2>1, ClosedAt
<1>7. /\ newDown \in FlowType /\ newDown.sent = down.sent /\ newDown.got = down.got
      /\ newDown.dst = 0 /\ newDown.buf = down.buf /\ newDown.src = down.src
  <2> DEFINE queue == 0..Capacity
             buffer == 0..BufSize
             bytes == 0..MaxBytes
  <2>1. /\ 0 \in queue
        /\ FlowType = [sent : bytes, closed : BOOLEAN, src : queue, buf : buffer,
                       dst : queue, shut : BOOLEAN, got : bytes, eof : BOOLEAN]
    BY ProxyConstants DEF FlowType
  <2> HIDE DEF queue, buffer, bytes
  <2> QED
    BY <1>3, <2>1
<1> HIDE DEF newUp, newDown
<1>8. new \in [Dirs -> FlowType] /\ new["up"] = newUp /\ new["down"] = newDown
  BY <1>6, <1>7 DEF Dirs
<1> HIDE DEF new
<1>9. /\ flow' \in [Conns -> [Dirs -> FlowType]] /\ flow'[c] = new
      /\ \A d \in Conns \ {c} : flow'[d] = flow[d]
  BY <1>1, <1>4, <1>8, FlowsOf
<1>10. TypeOK' /\ \A d \in Conns \ {c} : client'[d] = client[d] /\ (d \in broken' <=> d \in broken)
  BY <1>1, <1>9 DEF TypeOK, FlowType, mainVars
<1>11. CrashOnlyInShutdown' /\ HandlerInv(c)' /\ EndsInv(c)'
  <2>1. Finished(c)' = Finished(c)
    BY <1>1 DEF Finished
  <2> QED
    BY <1>1, <2>1 DEF CrashOnlyInShutdown, HandlerInv, EndsInv, mainVars
<1>12. \A f \in Dirs : /\ flow[c][f].got \in Nat /\ flow[c][f].dst \in Nat
                       /\ flow[c][f].buf \in Nat /\ flow[c][f].src \in Nat
                       /\ flow[c][f].sent \in Nat
  BY <1>1, FlowFields
<1>13. StreamInv(c, "up")'
  <2>1. StreamInv(c, "up")
    BY DEF IInv, Dirs
  <2>2. \A a, b, e, k, s \in Nat : a + b + e + k <= s => a + b + e + 0 <= s
    OBVIOUS
  <2>3. up.got + up.dst + up.buf + up.src <= up.sent
    BY <2>1 DEF StreamInv
  <2>4. up.got + up.dst + up.buf + src <= up.sent
    BY <1>5, <1>12, <2>2, <2>3 DEF Dirs
  <2> QED
    BY <1>1, <1>6, <1>8, <1>9, <2>1, <2>4 DEF StreamInv
<1>14. StreamInv(c, "down")'
  <2>1. StreamInv(c, "down")
    BY DEF IInv, Dirs
  <2>2. \A a, b, e, k, s \in Nat : a + b + e + k <= s => a + 0 + e + k <= s
    OBVIOUS
  <2>3. down.got + down.dst + down.buf + down.src <= down.sent
    BY <2>1 DEF StreamInv
  <2>4. down.got + 0 + down.buf + down.src <= down.sent
    BY <1>12, <2>2, <2>3 DEF Dirs
  <2> QED
    BY <1>1, <1>7, <1>8, <1>9, <2>1, <2>4 DEF StreamInv
<1> QED
  BY <1>1, <1>9, <1>10, <1>11, <1>13, <1>14, OneConn DEF Dirs

LEMMA GuestDiesKeeps == ASSUME IInv, NEW c \in Conns, GuestDies(c) PROVE IInv'
<1>1. /\ TypeOK /\ HandlerInv(c) /\ EndsInv(c) /\ CrashOnlyInShutdown
      /\ guest[c] = "live" /\ guest' = [guest EXCEPT ![c] = "dead"]
      /\ Sever({c}) /\ UNCHANGED <<mainVars, handler, copier, done, crashed, client>>
  BY DEF IInv, GuestDies, EndUnchanged
<1>2. /\ flow' \in [Conns -> [Dirs -> FlowType]] /\ broken' \in SUBSET Conns
      /\ \A d \in Conns \ {c} : flow'[d] = flow[d] /\ (d \in broken' <=> d \in broken)
      /\ c \in broken'
  BY <1>1, SeveredOne
<1>3. /\ guest' \in [Conns -> {"none", "live", "dead", "nil", "closed"}] /\ guest'[c] = "dead"
      /\ \A d \in Conns \ {c} : guest'[d] = guest[d]
  BY <1>1 DEF TypeOK
<1>4. TypeOK'
  BY <1>1, <1>2, <1>3 DEF TypeOK, FlowType, mainVars
<1>5. Finished(c)' = Finished(c)
  BY <1>1 DEF Finished
<1>6. CrashOnlyInShutdown' /\ HandlerInv(c)' /\ EndsInv(c)'
  BY <1>1, <1>2, <1>3, <1>5 DEF CrashOnlyInShutdown, HandlerInv, EndsInv, mainVars
<1>7. \A f \in Dirs : StreamInv(c, f)'
  BY <1>1, SeveredStream
<1> QED
  BY <1>1, <1>2, <1>3, <1>4, <1>6, <1>7, OneConn

LEMMA StepIInv == IInv /\ [Next]_vars => IInv'
<1> SUFFICES ASSUME IInv, [Next]_vars PROVE IInv'
  OBVIOUS
<1>1. CASE UNCHANGED vars
  <2>1. TypeOK' /\ MainInv' /\ CrashOnlyInShutdown'
    BY <1>1 DEF IInv, TypeOK, MainInv, CrashOnlyInShutdown, vars, mainVars, endVars
  <2>2. ASSUME NEW c \in Conns PROVE HandlerInv(c)' /\ EndsInv(c)'
    <3>1. HandlerInv(c) /\ EndsInv(c) /\ Finished(c)' = Finished(c)
      BY <1>1 DEF IInv, Finished, vars
    <3> QED
      BY <1>1, <3>1 DEF HandlerInv, EndsInv, vars, mainVars, endVars
  <2>3. \A c \in Conns, f \in Dirs : StreamInv(c, f)'
    BY <1>1 DEF IInv, StreamInv, vars, endVars
  <2> QED
    BY <2>1, <2>2, <2>3 DEF IInv
<1>2. CASE MainStep \/ Interrupt
  BY <1>2, RunProxyKeeps, TerminateKeeps DEF MainStep
<1>3. ASSUME NEW c \in Conns,
             Accept(c) \/ Handle(c) \/ ClientGone(c) \/ GuestDies(c)
      PROVE  IInv'
  BY <1>3, AcceptKeeps, DialKeeps, AwaitDoneKeeps, CloseGuestKeeps, CloseClientKeeps,
     ClientGoneKeeps, GuestDiesKeeps DEF Handle
<1>4. ASSUME NEW c \in Conns, NEW f \in Dirs, Copy(c, f) PROVE IInv'
  BY <1>4, CopyReadKeeps, CopyEndKeeps, CopyWriteKeeps, WriteErrorKeeps, CopyCloseKeeps DEF Copy
<1>5. ASSUME NEW c \in Conns, NEW f \in Dirs, Send(c, f) \/ HalfClose(c, f) \/ Recv(c, f)
      PROVE  IInv'
  BY <1>5, SendKeeps, HalfCloseKeeps, RecvKeeps
<1> QED
  BY <1>1, <1>2, <1>3, <1>4, <1>5 DEF Next

-----------------------------------------------------------------------------
(* Each direction is a Pipe *)

\* The bytes that the receiver has after k of them.
Numbers(k) == [n \in 1..k |-> n]

LEMMA Counted ==
  /\ Numbers(0) = <<>>
  /\ \A k \in Nat : Len(Numbers(k)) = k /\ Append(Numbers(k), Len(Numbers(k)) + 1) = Numbers(k + 1)
<1>1. ASSUME NEW k \in Nat
      PROVE  Numbers(k) \in Seq(Nat) /\ Len(Numbers(k)) = k
             /\ \A n \in 1..k : Numbers(k)[n] = n
  BY DEF Numbers
<1>2. Numbers(0) = <<>>
  BY <1>1, EmptySeq
<1>3. ASSUME NEW k \in Nat PROVE Append(Numbers(k), k + 1) = Numbers(k + 1)
  <2> DEFINE s == Append(Numbers(k), k + 1)
  <2>1. Numbers(k) \in Seq(Nat) /\ Len(Numbers(k)) = k /\ \A n \in 1..k : Numbers(k)[n] = n
    BY <1>1
  <2>2. /\ s \in Seq(Nat) /\ Len(s) = k + 1
        /\ \A n \in 1..k : s[n] = Numbers(k)[n]
        /\ s[k + 1] = k + 1
    BY <2>1, AppendProperties
  <2>3. /\ Numbers(k + 1) \in Seq(Nat) /\ Len(Numbers(k + 1)) = k + 1
        /\ \A n \in 1..(k + 1) : Numbers(k + 1)[n] = n
    BY <1>1
  <2> HIDE DEF s
  <2>4. \A n \in 1..(k + 1) : s[n] = Numbers(k + 1)[n]
    BY <2>1, <2>2, <2>3
  <2> QED
    BY <2>2, <2>3, <2>4, SeqEqual DEF s
<1> QED
  BY <1>1, <1>2, <1>3

StreamStep(c, f) == Stream(c, f)!Next \/ UNCHANGED Stream(c, f)!vars

LEMMA InitStream == ASSUME Init, NEW c \in Conns, NEW f \in Dirs PROVE Stream(c, f)!Init
<1>1. /\ flow[c][f].sent = 0 /\ flow[c][f].closed = FALSE /\ flow[c][f].got = 0
      /\ flow[c][f].eof = FALSE /\ c \notin broken
  BY DEF Init, Both
<1>2. Numbers(flow[c][f].got) = <<>>
  BY <1>1, Counted
<1> QED
  BY <1>1, <1>2 DEF Stream!Init, Numbers

\* Steps that the two ends of a stream do not see.
LEMMA Unseen ==
  ASSUME NEW c \in Conns, NEW f \in Dirs,
         flow'[c][f].sent = flow[c][f].sent, flow'[c][f].closed = flow[c][f].closed,
         flow'[c][f].got = flow[c][f].got, flow'[c][f].eof = flow[c][f].eof,
         c \in broken' <=> c \in broken
  PROVE  StreamStep(c, f)
  BY DEF StreamStep, Stream!vars

\* Its end fails.
LEMMA Breaks ==
  ASSUME NEW c \in Conns, NEW f \in Dirs,
         flow'[c][f].sent = flow[c][f].sent, flow'[c][f].closed = flow[c][f].closed,
         flow'[c][f].got = flow[c][f].got, flow'[c][f].eof = flow[c][f].eof,
         c \in broken'
  PROVE  StreamStep(c, f)
  BY DEF StreamStep, Stream!Next, Stream!Break

\* Its sender closes it.
LEMMA Closes ==
  ASSUME NEW c \in Conns, NEW f \in Dirs,
         flow'[c][f].sent = flow[c][f].sent, flow'[c][f].closed = TRUE,
         flow'[c][f].got = flow[c][f].got, flow'[c][f].eof = flow[c][f].eof,
         (c \in broken' <=> c \in broken) \/ c \in broken'
  PROVE  StreamStep(c, f)
<1> DEFINE isBroken == c \in broken
<1>1. isBroken' = TRUE \/ isBroken' = isBroken
  OBVIOUS
<1>2. isBroken' \in {isBroken, TRUE}
  BY <1>1
<1> QED
  BY <1>2 DEF StreamStep, Stream!Next, Stream!Close

LEMMA SeveredStep ==
  ASSUME IInv, NEW cs \in SUBSET Conns, Sever(cs), NEW c \in Conns, NEW f \in Dirs
  PROVE  StreamStep(c, f)
<1>1. CASE c \notin cs
  BY <1>1, Severed, Unseen
<1>2. CASE c \in cs /\ f = "up"
  <2>1. c \in broken' /\ flow'[c][f] = flow[c][f]
    BY <1>2, Severed
  <2> QED
    BY <2>1, Breaks
<1>3. CASE c \in cs /\ f = "down"
  <2>1. /\ c \in broken' /\ flow'[c][f].closed = TRUE
        /\ flow'[c][f].sent = flow[c][f].sent
        /\ flow'[c][f].got = flow[c][f].got /\ flow'[c][f].eof = flow[c][f].eof
    BY <1>3, Severed
  <2> QED
    BY <2>1, Closes
<1> QED
  BY <1>1, <1>2, <1>3 DEF Dirs

LEMMA CloseStream ==
  ASSUME IInv, NEW d \in Conns, CloseGuest(d) \/ CloseClient(d) \/ ClientGone(d),
         NEW c \in Conns, NEW f \in Dirs
  PROVE  StreamStep(c, f)
<1>1. /\ flow \in [Conns -> [Dirs -> FlowType]] /\ flow[c][f] \in FlowType
      /\ flow[c] \in [Dirs -> FlowType]
  BY DEF IInv, TypeOK, FlowType
<1>2. CASE CloseGuest(d)
  <2>1. broken' = broken /\ flow' = [flow EXCEPT ![d]["down"].src = 0, ![d]["up"].shut = TRUE]
    BY <1>2 DEF CloseGuest
  <2>2. /\ flow'[c][f].sent = flow[c][f].sent /\ flow'[c][f].closed = flow[c][f].closed
        /\ flow'[c][f].got = flow[c][f].got /\ flow'[c][f].eof = flow[c][f].eof
    BY <1>1, <2>1 DEF Dirs, FlowType
  <2> QED
    BY <2>1, <2>2, Unseen
<1>3. CASE CloseClient(d)
  <2>1. broken' = broken
    BY <1>3 DEF CloseClient
  <2>2. PICK dst : flow' = [flow EXCEPT ![d]["down"].shut = TRUE, ![d]["down"].dst = dst,
                                        ![d]["up"].src = 0, ![d]["up"].closed = TRUE]
    BY <1>3 DEF CloseClient
  <2>3. /\ flow'[c][f].sent = flow[c][f].sent
        /\ flow'[c][f].got = flow[c][f].got /\ flow'[c][f].eof = flow[c][f].eof
    BY <1>1, <2>2 DEF Dirs, FlowType
  <2>4. flow'[c][f].closed = IF c = d /\ f = "up" THEN TRUE ELSE flow[c][f].closed
    BY <1>1, <2>2 DEF Dirs, FlowType
  <2> QED
    BY <2>1, <2>3, <2>4, Unseen, Closes
<1>4. CASE ClientGone(d)
  <2>1. broken' = broken \cup {d}
    BY <1>4 DEF ClientGone
  <2>2. PICK src : flow' = [flow EXCEPT ![d]["up"].closed = TRUE, ![d]["down"].dst = 0,
                                        ![d]["up"].src = src]
    BY <1>4 DEF ClientGone
  <2>3. /\ flow'[c][f].sent = flow[c][f].sent
        /\ flow'[c][f].got = flow[c][f].got /\ flow'[c][f].eof = flow[c][f].eof
    BY <1>1, <2>2 DEF Dirs, FlowType
  <2>4. flow'[c][f].closed = IF c = d /\ f = "up" THEN TRUE ELSE flow[c][f].closed
    BY <1>1, <2>2 DEF Dirs, FlowType
  <2> QED
    BY <2>1, <2>3, <2>4, Unseen, Breaks, Closes
<1> QED
  BY <1>2, <1>3, <1>4

LEMMA CopyStream ==
  ASSUME IInv, NEW d \in Conns, NEW g \in Dirs, Copy(d, g), NEW c \in Conns, NEW f \in Dirs
  PROVE  StreamStep(c, f)
<1>1. /\ flow \in [Conns -> [Dirs -> FlowType]] /\ flow[c][f] \in FlowType
  BY DEF IInv, TypeOK, FlowType
<1>2. broken' = broken
  <2>1. CASE CopyRead(d, g) \/ CopyEnd(d, g) \/ WriteError(d, g) \/ CloseWrite(d, g)
    BY <2>1 DEF CopyRead, CopyEnd, WriteError, CloseWrite, CopierGo
  <2>2. CASE CopyWrite(d, g)
    <3>1. PICK n : CopierGo(d, g, "write", IF n = flow[d][g].buf THEN "read" ELSE "write")
      BY <2>2 DEF CopyWrite
    <3> QED
      BY <3>1 DEF CopierGo
  <2> QED
    BY <2>1, <2>2 DEF Copy
<1>3. ASSUME c # d \/ f # g PROVE flow'[c][f] = flow[c][f]
  <2>1. CASE CopyRead(d, g)
    BY <1>1, <1>3, <2>1 DEF CopyRead
  <2>2. CASE CopyWrite(d, g)
    BY <1>1, <1>3, <2>2 DEF CopyWrite
  <2>3. CASE CopyEnd(d, g) \/ WriteError(d, g) \/ CloseWrite(d, g)
    BY <1>1, <1>3, <2>3 DEF CopyEnd, WriteError, CloseWrite
  <2> QED
    BY <2>1, <2>2, <2>3 DEF Copy
<1>4. ASSUME c = d, f = g
      PROVE  /\ flow'[c][f].sent = flow[c][f].sent /\ flow'[c][f].closed = flow[c][f].closed
             /\ flow'[c][f].got = flow[c][f].got /\ flow'[c][f].eof = flow[c][f].eof
  <2>1. CASE CopyRead(c, f)
    <3>1. PICK n : flow' = [flow EXCEPT ![c][f].buf = n, ![c][f].src = @ - n]
      BY <2>1 DEF CopyRead
    <3>2. flow'[c][f] = [flow[c][f] EXCEPT !.buf = n, !.src = @ - n]
      BY <1>1, <3>1
    <3> QED
      BY <1>1, <3>2 DEF FlowType
  <2>2. CASE CopyEnd(c, f)
    BY <2>2 DEF CopyEnd
  <2>3. CASE CopyWrite(c, f)
    <3>1. PICK n : flow' = [flow EXCEPT ![c][f].dst = @ + n, ![c][f].buf = @ - n]
      BY <2>3 DEF CopyWrite
    <3>2. flow'[c][f] = [flow[c][f] EXCEPT !.dst = @ + n, !.buf = @ - n]
      BY <1>1, <3>1
    <3> QED
      BY <1>1, <3>2 DEF FlowType
  <2>4. CASE WriteError(c, f)
    <3>1. flow'[c][f] = [flow[c][f] EXCEPT !.buf = 0]
      BY <1>1, <2>4 DEF WriteError
    <3> QED
      BY <1>1, <3>1 DEF FlowType
  <2>5. CASE CloseWrite(c, f)
    <3>1. flow'[c][f] = [flow[c][f] EXCEPT !.shut = TRUE]
      BY <1>1, <2>5 DEF CloseWrite, Shut
    <3> QED
      BY <1>1, <3>1 DEF FlowType
  <2> QED
    BY <1>4, <2>1, <2>2, <2>3, <2>4, <2>5 DEF Copy
<1> QED
  BY <1>2, <1>3, <1>4, Unseen

\* The end arrives after everything: nothing is left in any queue.
LEMMA EndIsLast ==
  ASSUME IInv, NEW c \in Conns, NEW f \in Dirs, c \notin broken,
         flow[c][f].shut, flow[c][f].dst = 0
  PROVE  flow[c][f].closed /\ flow[c][f].got = flow[c][f].sent
<1>1. TypeOK /\ StreamInv(c, f)
  BY DEF IInv
<1>2. /\ flow[c][f].closed /\ flow[c][f].src = 0 /\ flow[c][f].buf = 0
      /\ flow[c][f].got + flow[c][f].dst + flow[c][f].buf + flow[c][f].src = flow[c][f].sent
  BY <1>1 DEF StreamInv
<1>3. flow[c][f].got \in Nat
  BY <1>1, FlowFields
<1>4. \A k \in Nat : k + 0 + 0 + 0 = k
  OBVIOUS
<1> QED
  BY <1>2, <1>3, <1>4

LEMMA EndsStream ==
  ASSUME IInv, NEW d \in Conns, NEW g \in Dirs, Send(d, g) \/ HalfClose(d, g) \/ Recv(d, g),
         NEW c \in Conns, NEW f \in Dirs
  PROVE  StreamStep(c, f)
<1> DEFINE fl == flow[c][f]
<1>1. /\ flow \in [Conns -> [Dirs -> FlowType]] /\ fl \in FlowType /\ broken' = broken
      /\ TypeOK /\ StreamInv(c, f)
  BY DEF IInv, TypeOK, FlowType, Send, HalfClose, Recv
<1>2. CASE c # d \/ f # g
  <2>1. flow'[c][f] = flow[c][f]
    BY <1>1, <1>2 DEF Send, HalfClose, Recv
  <2> QED
    BY <1>1, <2>1, Unseen
<1>3. CASE c = d /\ f = g /\ Send(d, g)
  <2>1. ~fl.closed /\ flow'[c][f] = [fl EXCEPT !.sent = @ + 1, !.src = @ + 1]
    BY <1>1, <1>3 DEF Send, Sends
  <2>2. /\ flow'[c][f].sent = fl.sent + 1 /\ flow'[c][f].closed = fl.closed
        /\ flow'[c][f].got = fl.got /\ flow'[c][f].eof = fl.eof
    BY <1>1, <2>1 DEF FlowType
  <2> QED
    BY <1>1, <2>1, <2>2 DEF StreamStep, Stream!Next, Stream!Send
<1>4. CASE c = d /\ f = g /\ HalfClose(d, g)
  <2>1. flow'[c][f] = [fl EXCEPT !.closed = TRUE]
    BY <1>1, <1>4 DEF HalfClose
  <2>2. /\ flow'[c][f].sent = fl.sent /\ flow'[c][f].closed = TRUE
        /\ flow'[c][f].got = fl.got /\ flow'[c][f].eof = fl.eof
    BY <1>1, <2>1 DEF FlowType
  <2> QED
    BY <1>1, <2>2, Closes
<1>5. CASE c = d /\ f = g /\ Recv(d, g)
  <2>1. ~fl.eof
    BY <1>5 DEF Recv
  <2>2. CASE fl.dst > 0 /\ flow' = [flow EXCEPT ![c][f].got = @ + 1, ![c][f].dst = @ - 1]
    <3>1. flow'[c][f] = [fl EXCEPT !.got = @ + 1, !.dst = @ - 1]
      BY <1>1, <2>2
    <3>2. /\ flow'[c][f].sent = fl.sent /\ flow'[c][f].closed = fl.closed
          /\ flow'[c][f].got = fl.got + 1 /\ flow'[c][f].eof = fl.eof
      BY <1>1, <3>1 DEF FlowType
    <3>3. fl.got \in Nat /\ fl.got < fl.sent
      <4>1. /\ fl.got \in Nat /\ fl.dst \in Nat /\ fl.buf \in Nat /\ fl.src \in Nat
            /\ fl.sent \in Nat
        BY <1>1, FlowFields
      <4>2. fl.got + fl.dst + fl.buf + fl.src <= fl.sent
        BY <1>1 DEF StreamInv
      <4>3. \A a, b, e, k, s \in Nat : b > 0 /\ a + b + e + k <= s => a < s
        OBVIOUS
      <4> QED
        BY <2>2, <4>1, <4>2, <4>3
    <3>4. /\ Len(Numbers(fl.got)) = fl.got
          /\ Numbers(flow'[c][f].got) = Append(Numbers(fl.got), Len(Numbers(fl.got)) + 1)
      BY <3>2, <3>3, Counted
    <3> QED
      BY <1>1, <2>1, <3>2, <3>3, <3>4 DEF StreamStep, Stream!Next, Stream!Deliver, Numbers
  <2>3. CASE fl.dst = 0 /\ fl.shut /\ flow' = [flow EXCEPT ![c][f].eof = TRUE]
    <3>1. flow'[c][f] = [fl EXCEPT !.eof = TRUE]
      BY <1>1, <2>3
    <3>2. /\ flow'[c][f].sent = fl.sent /\ flow'[c][f].closed = fl.closed
          /\ flow'[c][f].got = fl.got /\ flow'[c][f].eof = TRUE
      BY <1>1, <3>1 DEF FlowType
    <3>3. c \in broken \/ (fl.closed /\ fl.got = fl.sent)
      BY <2>3, EndIsLast
    <3>4. Len(Numbers(fl.got)) = fl.got
      BY <1>1, FlowFields, Counted
    <3> QED
      BY <1>1, <3>2, <3>3, <3>4 DEF StreamStep, Stream!Next, Stream!End, Numbers
  <2> QED
    BY <1>5, <2>2, <2>3 DEF Recv
<1> QED
  BY <1>2, <1>3, <1>4, <1>5

LEMMA NextStream ==
  ASSUME IInv, [Next]_vars, NEW c \in Conns, NEW f \in Dirs PROVE StreamStep(c, f)
<1>1. CASE UNCHANGED <<flow, broken>>
  BY <1>1, Unseen
<1>2. ASSUME NEW cs \in SUBSET Conns, Sever(cs) PROVE StreamStep(c, f)
  BY <1>2, SeveredStep
<1>3. CASE UNCHANGED vars
  BY <1>1, <1>3 DEF vars, endVars
<1>4. CASE MainStep \/ Interrupt
  <2>1. UNCHANGED <<flow, broken>> \/ Sever({d \in Conns : guest[d] = "live"})
    BY <1>4 DEF MainStep, NewSession, Listen, Interrupt, AcceptFails, CloseListener,
         StopSession, Exit, Terminate, endVars
  <2> QED
    BY <1>1, <1>2, <2>1
<1>5. ASSUME NEW d \in Conns, Accept(d) \/ Handle(d) \/ ClientGone(d) \/ GuestDies(d)
      PROVE  StreamStep(c, f)
  <2>1. \/ UNCHANGED <<flow, broken>> \/ Sever({d})
        \/ CloseGuest(d) \/ CloseClient(d) \/ ClientGone(d)
    BY <1>5 DEF Accept, Handle, Dial, DialError, AwaitDone, GuestDies
  <2>2. ASSUME Sever({d}) PROVE StreamStep(c, f)
    <3>1. {d} \in SUBSET Conns
      OBVIOUS
    <3> QED
      BY <1>2, <2>2, <3>1
  <2> QED
    BY <1>1, <2>1, <2>2, CloseStream
<1>6. ASSUME NEW d \in Conns, NEW g \in Dirs,
             Copy(d, g) \/ Send(d, g) \/ HalfClose(d, g) \/ Recv(d, g)
      PROVE  StreamStep(c, f)
  BY <1>6, CopyStream, EndsStream
<1> QED
  BY <1>3, <1>4, <1>5, <1>6 DEF Next

-----------------------------------------------------------------------------
(* The results *)

\* In every reachable state runProxy has given back what it no longer needs, a
\* handler knows how many of its goroutines have finished, and the bytes of a
\* stream are in its queues, its buffer or received (cmd/wslcdemo/proxy.go).
THEOREM Invariance == Spec => []IInv
<1>1. Init => IInv
  BY InitIInv
<1>2. IInv /\ [Next]_vars => IInv'
  BY StepIInv
<1> QED
  BY <1>1, <1>2, PTL DEF Spec

\* The variables have their types: above all, the channel done never holds more
\* than the two messages it has room for, so no goroutine is left behind on it
\* (proxy.go:87-107).
THEOREM TypeCorrect == Spec => []TypeOK
<1>1. IInv => TypeOK
  BY DEF IInv
<1> QED
  BY <1>1, Invariance, PTL

\* The guestConn is closed only when neither goroutine reads or writes any more
\* (proxy.go:90-106).
THEOREM GuestIsQuiet == Spec => []NoIoOnClosedGuest
<1>1. IInv => NoIoOnClosedGuest
  <2> SUFFICES ASSUME IInv, NEW c \in Conns, NEW f \in Dirs, guest[c] = "closed"
               PROVE  copier[c][f] \in {"shut", "done"}
    BY DEF NoIoOnClosedGuest
  <2>1. HandlerInv(c) /\ handler[c] \in {"none", "dial", "wait2", "wait1", "closeGuest",
                                         "closeClient", "ended"}
    BY DEF IInv, TypeOK
  <2>2. copier[c] = Both("done")
    BY <2>1 DEF HandlerInv
  <2> QED
    BY <2>2 DEF Both
<1> QED
  BY <1>1, Invariance, PTL

\* The panic of a connection without a process can only happen when the session
\* is already being stopped (proxy.go:76-107).
THEOREM CrashIsLate == Spec => []CrashOnlyInShutdown
<1>1. IInv => CrashOnlyInShutdown
  BY DEF IInv
<1> QED
  BY <1>1, Invariance, PTL

\* Whichever way runProxy returns, its session is closed and so is its listener
\* (proxy.go:37-47).
THEOREM ReturnLeavesNothing == Spec => []NothingLeftOnReturn
<1>1. IInv => NothingLeftOnReturn
  BY DEF IInv, MainInv, NothingLeftOnReturn
<1> QED
  BY <1>1, Invariance, PTL

\* Between a client and the target in the guest there is a reliable stream in
\* each direction, through both hops, for any number of clients and bytes and
\* any sizes of queues and buffers: unless an end fails, nothing is lost and no
\* end comes early (proxy.go:70-107).
THEOREM TwoHopsArePipes == Spec => EndToEnd
<1>1. Init => \A c \in Conns, f \in Dirs : Stream(c, f)!Init
  BY InitStream
<1>2. IInv /\ [Next]_vars =>
        [\A c \in Conns, f \in Dirs :
           Stream(c, f)!Next \/ UNCHANGED Stream(c, f)!vars]_vars
  BY NextStream DEF StreamStep
<1> QED
  BY <1>1, <1>2, Invariance, PTL DEF Spec, EndToEnd

-----------------------------------------------------------------------------
(* What a handler and its clients rely on *)

\* A handler that waits has a goroutine that will still report; there is room
\* for the report of every goroutine that is about to make one; and a handler
\* that has ended leaves no goroutine, no guestConn and no message behind.
HandlersAccount ==
  \A c \in Conns :
    /\ handler[c] \in {"wait2", "wait1"} /\ done[c] = 0 =>
         \E f \in Dirs : copier[c][f] \in {"read", "write", "shut"}
    /\ \A f \in Dirs : copier[c][f] = "shut" => Report(done[c]) <= 2
    /\ handler[c] = "ended" =>
         /\ done[c] = 0 /\ guest[c] \in {"none", "closed"}
         /\ \A f \in Dirs : copier[c][f] \in {"none", "done"}

\* A client or target that has seen the end of a stream has all of it, unless
\* one of the two ends has failed.
StreamsAreWhole ==
  \A c \in Conns, f \in Dirs :
    flow[c][f].eof /\ c \notin broken =>
      flow[c][f].closed /\ flow[c][f].got = flow[c][f].sent

\* Where the goroutine of direction f can go on: the guards of Copy(c, f).
CopyMoves(c, f) ==
  \/ copier[c][f] = "read" /\ (flow[c][f].src > 0 \/ flow[c][f].closed)
  \/ copier[c][f] = "write" /\ DeadEnd(c, f)
  \/ copier[c][f] = "write" /\ flow[c][f].dst < Capacity /\ flow[c][f].buf > 0
  \/ copier[c][f] = "shut"

\* A goroutine that writes has something left to write.
WritersHaveBytes ==
  \A c \in Conns, f \in Dirs : copier[c][f] = "write" => flow[c][f].buf > 0

\* Both directions of c have ended: in order, the target having read all there
\* was to read, or by the failure of the guest (the precondition of HandlerEnds).
StreamsOver(c) == \/ flow[c]["up"].eof /\ flow[c]["down"].closed
                  \/ flow[c]["up"].closed /\ guest[c] = "dead"

\* From then on neither a silent client nor a target keeps a handler waiting: it
\* has a report to take, or a goroutine that can go on, or a client that has a
\* full queue to read.
EndedStreamsFreeHandler ==
  \A c \in Conns : StreamsOver(c) /\ handler[c] \in {"wait2", "wait1"} =>
    \/ done[c] > 0
    \/ \E f \in Dirs : CopyMoves(c, f)
    \/ client[c] # "gone" /\ copier[c]["down"] = "write" /\ flow[c]["down"].dst = Capacity

\* And no step takes that back while the handler waits.
StaysOver ==
  \A c \in Conns : StreamsOver(c) /\ handler[c] \in {"wait2", "wait1"} => StreamsOver(c)'

\* What the end of a stream says of those who have passed it on.
EndsPassedOn(c) ==
  /\ flow[c]["up"].eof => flow[c]["up"].shut
  /\ flow[c]["up"].shut => copier[c]["up"] = "done"
  /\ guest[c] = "dead" => flow[c]["down"].closed

LEMMA Accounted == IInv => HandlersAccount
<1> SUFFICES ASSUME IInv, NEW c \in Conns
             PROVE  /\ handler[c] \in {"wait2", "wait1"} /\ done[c] = 0 =>
                         \E f \in Dirs : copier[c][f] \in {"read", "write", "shut"}
                    /\ \A f \in Dirs : copier[c][f] = "shut" => Report(done[c]) <= 2
                    /\ handler[c] = "ended" =>
                         /\ done[c] = 0 /\ guest[c] \in {"none", "closed"}
                         /\ \A f \in Dirs : copier[c][f] \in {"none", "done"}
  BY DEF HandlersAccount
<1>1. HandlerInv(c) /\ TypeOK /\ Finished(c) \in 0..2
  BY FinishedBounds DEF IInv
<1>2. /\ \A f \in Dirs : copier[c][f] \in {"none", "read", "write", "shut", "done"}
      /\ done[c] \in 0..2
      /\ handler[c] \in {"none", "dial", "wait2", "wait1", "closeGuest", "closeClient", "ended"}
  BY <1>1 DEF TypeOK
<1>3. ASSUME handler[c] \in {"wait2", "wait1"}, done[c] = 0
      PROVE  \E f \in Dirs : copier[c][f] \in {"read", "write", "shut"}
  <2>1. Finished(c) # 2
    BY <1>1, <1>3 DEF HandlerInv
  <2>2. PICK f \in Dirs : copier[c][f] # "done"
    BY <2>1 DEF Finished, Dirs
  <2>3. copier[c][f] # "none"
    BY <1>1, <1>3 DEF HandlerInv
  <2> QED
    BY <1>2, <2>2, <2>3
<1>4. ASSUME NEW f \in Dirs, copier[c][f] = "shut" PROVE Report(done[c]) <= 2
  <2>1. Finished(c) # 2
    BY <1>1, <1>4, FinishedBounds DEF Both
  <2>2. handler[c] \in {"wait2", "wait1"}
    BY <1>1, <1>2, <1>4 DEF HandlerInv, Both
  <2>3. done[c] = Finished(c) \/ done[c] + 1 = Finished(c)
    BY <1>1, <2>2 DEF HandlerInv
  <2> QED
    BY <1>1, <1>2, <2>1, <2>3 DEF Report
<1>5. ASSUME handler[c] = "ended"
      PROVE  /\ done[c] = 0 /\ guest[c] \in {"none", "closed"}
             /\ \A f \in Dirs : copier[c][f] \in {"none", "done"}
  BY <1>1, <1>5 DEF HandlerInv, Both
<1> QED
  BY <1>3, <1>4, <1>5

\* The end of a stream is the last thing its receiver sees.
LEMMA StaysWhole ==
  ASSUME IInv, [Next]_vars, StreamsAreWhole, NEW c \in Conns, NEW f \in Dirs,
         flow'[c][f].eof, c \notin broken'
  PROVE  flow'[c][f].closed /\ flow'[c][f].got = flow'[c][f].sent
<1> DEFINE was == flow[c][f]
           is == flow'[c][f]
<1>1. /\ IInv' /\ StreamStep(c, f)
      /\ was.eof /\ c \notin broken => was.closed /\ was.got = was.sent
  BY StepIInv, NextStream DEF StreamsAreWhole
<1>2. was.got \in Nat /\ is.got \in Nat
  <2>1. TypeOK /\ TypeOK'
    BY <1>1 DEF IInv
  <2> QED
    BY <2>1, FlowFields, ProxyConstants DEF TypeOK
<1>3. Len(Numbers(was.got)) = was.got /\ Len(Numbers(is.got)) = is.got
  BY <1>2, Counted
<1>4. \/ Stream(c, f)!Send \/ Stream(c, f)!Close \/ Stream(c, f)!Deliver \/ Stream(c, f)!End
      \/ Stream(c, f)!Break \/ UNCHANGED Stream(c, f)!vars
  BY <1>1 DEF StreamStep, Stream!Next
<1>5. CASE Stream(c, f)!Send
  <2>1. ~was.closed /\ is.eof = was.eof /\ (c \in broken)' = (c \in broken)
    BY <1>5 DEF Stream!Send
  <2> QED
    BY <1>1, <2>1
<1>6. CASE Stream(c, f)!Close
  <2>1. /\ is.closed = TRUE /\ (c \in broken)' \in {(c \in broken), TRUE}
        /\ is.sent = was.sent /\ Numbers(is.got) = Numbers(was.got) /\ is.eof = was.eof
    BY <1>6 DEF Stream!Close, Numbers
  <2>2. c \notin broken
    BY <2>1
  <2> QED
    BY <1>1, <1>3, <2>1, <2>2
<1>7. CASE Stream(c, f)!Deliver
  <2>1. ~was.eof /\ is.eof = was.eof
    BY <1>7 DEF Stream!Deliver
  <2> QED
    BY <2>1
<1>8. CASE Stream(c, f)!End
  <2>1. /\ c \in broken \/ (was.closed /\ Len(Numbers(was.got)) = was.sent)
        /\ is.sent = was.sent /\ is.closed = was.closed /\ Numbers(is.got) = Numbers(was.got)
        /\ (c \in broken)' = (c \in broken)
    BY <1>8 DEF Stream!End, Numbers
  <2> QED
    BY <1>3, <2>1
<1>9. CASE Stream(c, f)!Break
  BY <1>9 DEF Stream!Break
<1>10. CASE UNCHANGED Stream(c, f)!vars
  <2>1. /\ is.sent = was.sent /\ is.closed = was.closed /\ Numbers(is.got) = Numbers(was.got)
        /\ is.eof = was.eof /\ (c \in broken)' = (c \in broken)
    BY <1>10 DEF Stream!vars, Numbers
  <2> QED
    BY <1>1, <1>3, <2>1
<1> QED
  BY <1>4, <1>5, <1>6, <1>7, <1>8, <1>9, <1>10

\* What the other goroutines and the ends do leaves the buffer of one goroutine
\* alone, and its state too, until it is started.
BufferKept(c, f) ==
  /\ flow'[c][f].buf = flow[c][f].buf
  /\ copier'[c][f] = copier[c][f] \/ copier'[c][f] # "write"

LEMMA SeveredBuffer ==
  ASSUME IInv, NEW cs \in SUBSET Conns, Sever(cs), NEW c \in Conns, NEW f \in Dirs,
         copier' = copier \/ copier'[c][f] # "write"
  PROVE  BufferKept(c, f)
<1>1. CASE c \notin cs
  BY <1>1, Severed DEF BufferKept
<1>2. CASE c \in cs
  <2>1. flow'[c]["up"] = flow[c]["up"] /\ flow'[c]["down"].buf = flow[c]["down"].buf
    BY <1>2, Severed
  <2> QED
    BY <2>1 DEF BufferKept, Dirs
<1> QED
  BY <1>1, <1>2

\* A connection is handed to goroutines that read first.
LEMMA DialBuffer ==
  ASSUME IInv, NEW d \in Conns, Dial(d), NEW c \in Conns, NEW f \in Dirs
  PROVE  BufferKept(c, f)
<1>1. UNCHANGED flow \/ Sever({d})
  BY DEF Dial, DialError
<1>2. copier'[c] = copier[c] \/ copier'[c][f] # "write"
  <2>1. copier' = copier \/ copier' = [copier EXCEPT ![d] = Both("read")]
    BY DEF Dial, DialError, Connected
  <2>2. copier \in [Conns -> [Dirs -> States]]
    BY DEF IInv, TypeOK, States
  <2>3. Both("read")[f] # "write"
    BY DEF Both
  <2> QED
    BY <2>1, <2>2, <2>3
<1>3. flow'[c][f].buf = flow[c][f].buf
  <2>1. CASE Sever({d})
    <3>1. {d} \in SUBSET Conns
      OBVIOUS
    <3>2. CASE c # d
      BY <2>1, <3>2, SeveredOne
    <3>3. CASE c = d
      <4> DEFINE cs == {d}
      <4>1. cs \in SUBSET Conns /\ Sever(cs) /\ c \in cs
        BY <2>1, <3>3
      <4> HIDE DEF cs
      <4>2. flow'[c]["up"] = flow[c]["up"] /\ flow'[c]["down"].buf = flow[c]["down"].buf
        BY <4>1, Severed
      <4> QED
        BY <4>2 DEF Dirs
    <3> QED
      BY <3>2, <3>3
  <2> QED
    BY <1>1, <2>1
<1> QED
  BY <1>2, <1>3 DEF BufferKept

LEMMA CloseBuffer ==
  ASSUME IInv, NEW d \in Conns, CloseGuest(d) \/ CloseClient(d) \/ ClientGone(d),
         NEW c \in Conns, NEW f \in Dirs
  PROVE  BufferKept(c, f)
<1>1. /\ flow \in [Conns -> [Dirs -> FlowType]] /\ flow[c][f] \in FlowType
      /\ flow[c] \in [Dirs -> FlowType]
  BY DEF IInv, TypeOK, FlowType
<1>2. copier' = copier
  BY DEF CloseGuest, CloseClient, ClientGone, EndUnchanged
<1>3. flow'[c][f].buf = flow[c][f].buf
  <2>1. CASE CloseGuest(d)
    <3>1. flow' = [flow EXCEPT ![d]["down"].src = 0, ![d]["up"].shut = TRUE]
      BY <2>1 DEF CloseGuest
    <3> QED
      BY <1>1, <3>1 DEF Dirs, FlowType
  <2>2. CASE CloseClient(d)
    <3>1. PICK dst : flow' = [flow EXCEPT ![d]["down"].shut = TRUE, ![d]["down"].dst = dst,
                                          ![d]["up"].src = 0, ![d]["up"].closed = TRUE]
      BY <2>2 DEF CloseClient
    <3> QED
      BY <1>1, <3>1 DEF Dirs, FlowType
  <2>3. CASE ClientGone(d)
    <3>1. PICK src : flow' = [flow EXCEPT ![d]["up"].closed = TRUE, ![d]["down"].dst = 0,
                                          ![d]["up"].src = src]
      BY <2>3 DEF ClientGone
    <3> QED
      BY <1>1, <3>1 DEF Dirs, FlowType
  <2> QED
    BY <2>1, <2>2, <2>3
<1> QED
  BY <1>2, <1>3 DEF BufferKept

LEMMA EndsBuffer ==
  ASSUME IInv, NEW d \in Conns, NEW g \in Dirs, Send(d, g) \/ HalfClose(d, g) \/ Recv(d, g),
         NEW c \in Conns, NEW f \in Dirs
  PROVE  BufferKept(c, f)
<1> DEFINE fl == flow[c][f]
<1>1. /\ flow \in [Conns -> [Dirs -> FlowType]] /\ fl \in FlowType
      /\ copier' = copier
  BY DEF IInv, TypeOK, FlowType, Send, HalfClose, Recv, EndUnchanged
<1>2. CASE c # d \/ f # g
  <2>1. flow'[c][f] = fl
    BY <1>1, <1>2 DEF Send, HalfClose, Recv
  <2> QED
    BY <1>1, <2>1 DEF BufferKept
<1>3. CASE c = d /\ f = g
  <2>1. CASE flow' = [flow EXCEPT ![c][f].sent = @ + 1, ![c][f].src = @ + 1]
    BY <1>1, <2>1 DEF BufferKept, FlowType
  <2>2. CASE flow' = [flow EXCEPT ![c][f].closed = TRUE]
    BY <1>1, <2>2 DEF BufferKept, FlowType
  <2>3. CASE flow' = [flow EXCEPT ![c][f].got = @ + 1, ![c][f].dst = @ - 1]
    BY <1>1, <2>3 DEF BufferKept, FlowType
  <2>4. CASE flow' = [flow EXCEPT ![c][f].eof = TRUE]
    BY <1>1, <2>4 DEF BufferKept, FlowType
  <2> QED
    BY <1>3, <2>1, <2>2, <2>3, <2>4 DEF Send, HalfClose, Recv
<1> QED
  BY <1>2, <1>3

\* The goroutine of one direction leaves the others alone.
LEMMA CopyOthers ==
  ASSUME IInv, NEW d \in Conns, NEW g \in Dirs, Copy(d, g), NEW c \in Conns, NEW f \in Dirs,
         c # d \/ f # g
  PROVE  BufferKept(c, f)
<1>1. flow \in [Conns -> [Dirs -> FlowType]] /\ copier \in [Conns -> [Dirs -> States]]
  BY DEF IInv, TypeOK, FlowType, States
<1>2. flow'[c][f] = flow[c][f]
  <2>1. CASE CopyRead(d, g)
    BY <1>1, <2>1 DEF CopyRead
  <2>2. CASE CopyWrite(d, g)
    BY <1>1, <2>2 DEF CopyWrite
  <2>3. CASE CopyEnd(d, g) \/ WriteError(d, g) \/ CloseWrite(d, g)
    BY <1>1, <2>3 DEF CopyEnd, WriteError, CloseWrite
  <2> QED
    BY <2>1, <2>2, <2>3 DEF Copy
<1>3. copier'[c][f] = copier[c][f]
  <2>1. PICK to : copier' = [copier EXCEPT ![d][g] = to]
    BY DEF Copy, CopyRead, CopyEnd, CopyWrite, WriteError, CloseWrite, CopierGo
  <2> QED
    BY <1>1, <2>1
<1> QED
  BY <1>2, <1>3 DEF BufferKept

\* It fills its buffer before it writes, and writes until the buffer is empty.
LEMMA CopyFills ==
  ASSUME IInv, NEW c \in Conns, NEW f \in Dirs, Copy(c, f), copier'[c][f] = "write"
  PROVE  flow'[c][f].buf > 0
<1> DEFINE fl == flow[c][f]
<1>1. /\ TypeOK /\ flow \in [Conns -> [Dirs -> FlowType]] /\ fl \in FlowType
      /\ copier \in [Conns -> [Dirs -> States]]
      /\ fl.src \in Nat /\ fl.buf \in Nat /\ fl.dst \in 0..Capacity
      /\ BufSize \in Nat /\ Capacity \in Nat
  BY FlowFields DEF IInv, TypeOK, FlowType, States
<1>2. CASE CopyRead(c, f)
  <2>1. PICK n \in 1..Min({BufSize, fl.src}) :
          flow' = [flow EXCEPT ![c][f].buf = n, ![c][f].src = @ - n]
    BY <1>2 DEF CopyRead
  <2>2. flow'[c][f] = [fl EXCEPT !.buf = n, !.src = @ - n]
    BY <1>1, <2>1
  <2>3. flow'[c][f].buf = n
    BY <1>1, <2>2 DEF FlowType
  <2>4. n > 0
    BY <2>1
  <2> QED
    BY <2>3, <2>4
<1>3. CASE CopyWrite(c, f)
  <2>1. PICK n \in 1..Min({Capacity - fl.dst, fl.buf}) :
          /\ flow' = [flow EXCEPT ![c][f].dst = @ + n, ![c][f].buf = @ - n]
          /\ CopierGo(c, f, "write", IF n = fl.buf THEN "read" ELSE "write")
    BY <1>3 DEF CopyWrite
  <2>2. copier'[c][f] = IF n = fl.buf THEN "read" ELSE "write"
    BY <1>1, <2>1 DEF CopierGo
  <2>3. n # fl.buf
    BY <2>2
  <2> DEFINE buf == fl.buf
             room == Capacity - fl.dst
             left == fl.buf - n
  <2>4. room \in Nat /\ buf \in Nat /\ n \in 1..Min({room, buf}) /\ n # buf
    BY <1>1, <2>1, <2>3
  <2>5. flow'[c][f] = [fl EXCEPT !.dst = @ + n, !.buf = left]
    BY <1>1, <2>1
  <2> HIDE DEF left
  <2>6. flow'[c][f].buf = left
    BY <1>1, <2>5 DEF FlowType
  <2> HIDE DEF buf, room
  <2>7. Min({room, buf}) = IF room <= buf THEN room ELSE buf
    BY <2>4, MinOfTwo
  <2>8. buf - n > 0
    BY <2>4, <2>7
  <2> QED
    BY <2>6, <2>8 DEF left, buf
<1>4. CASE CopyEnd(c, f) \/ WriteError(c, f) \/ CloseWrite(c, f)
  <2>1. PICK to \in {"shut", "done"} : copier' = [copier EXCEPT ![c][f] = to]
    BY <1>4 DEF CopyEnd, WriteError, AfterWriteError, CloseWrite, CopierGo
  <2>2. copier'[c][f] = to
    BY <1>1, <2>1
  <2> QED
    BY <2>1, <2>2
<1> QED
  BY <1>2, <1>3, <1>4 DEF Copy

LEMMA BufferStep ==
  ASSUME IInv, [Next]_vars, NEW c \in Conns, NEW f \in Dirs
  PROVE  BufferKept(c, f) \/ (copier'[c][f] = "write" => flow'[c][f].buf > 0)
<1>1. UNCHANGED <<flow, copier>> => BufferKept(c, f)
  BY DEF BufferKept
<1>2. ASSUME NEW cs \in SUBSET Conns, Sever(cs), copier' = copier PROVE BufferKept(c, f)
  BY <1>2, SeveredBuffer
<1>3. CASE UNCHANGED vars
  BY <1>1, <1>3 DEF vars, endVars
<1>4. CASE MainStep \/ Interrupt
  <2> DEFINE live == {d \in Conns : guest[d] = "live"}
  <2>1. (UNCHANGED flow \/ Sever(live)) /\ copier' = copier
    BY <1>4 DEF MainStep, NewSession, Listen, Interrupt, AcceptFails, CloseListener,
         StopSession, Exit, Terminate, MainGo, endVars
  <2>2. live \in SUBSET Conns
    OBVIOUS
  <2> HIDE DEF live
  <2> QED
    BY <1>1, <1>2, <2>1, <2>2
<1>5. ASSUME NEW d \in Conns, Accept(d) \/ Handle(d) \/ ClientGone(d) \/ GuestDies(d)
      PROVE  BufferKept(c, f)
  <2>1. CASE Accept(d) \/ AwaitDone(d)
    BY <1>1, <2>1 DEF Accept, AwaitDone
  <2>2. CASE Dial(d)
    BY <2>2, DialBuffer
  <2>3. CASE CloseGuest(d) \/ CloseClient(d) \/ ClientGone(d)
    BY <2>3, CloseBuffer
  <2>4. CASE GuestDies(d)
    <3>1. {d} \in SUBSET Conns /\ Sever({d}) /\ copier' = copier
      BY <2>4 DEF GuestDies, EndUnchanged
    <3> QED
      BY <1>2, <3>1
  <2> QED
    BY <1>5, <2>1, <2>2, <2>3, <2>4 DEF Handle
<1>6. ASSUME NEW d \in Conns, NEW g \in Dirs, Copy(d, g)
      PROVE  BufferKept(c, f) \/ (copier'[c][f] = "write" => flow'[c][f].buf > 0)
  BY <1>6, CopyOthers, CopyFills
<1>7. ASSUME NEW d \in Conns, NEW g \in Dirs, Send(d, g) \/ HalfClose(d, g) \/ Recv(d, g)
      PROVE  BufferKept(c, f)
  BY <1>7, EndsBuffer
<1> QED
  BY <1>3, <1>4, <1>5, <1>6, <1>7 DEF Next

\* Both are kept by every step.
LEMMA StreamsInvariance == Spec => [](StreamsAreWhole /\ WritersHaveBytes)
<1>1. Init => StreamsAreWhole /\ WritersHaveBytes
  BY DEF Init, StreamsAreWhole, WritersHaveBytes, Both
<1>2. IInv /\ [Next]_vars /\ StreamsAreWhole => StreamsAreWhole'
  BY StaysWhole DEF StreamsAreWhole
<1>3. IInv /\ [Next]_vars /\ WritersHaveBytes => WritersHaveBytes'
  BY BufferStep DEF WritersHaveBytes, BufferKept
<1> QED
  BY <1>1, <1>2, <1>3, Invariance, PTL DEF Spec

-----------------------------------------------------------------------------
(* What the end of both streams does for a handler *)

\* How one step moves the ends of c: what has ended stays so, the target sees
\* an end only after the half-close, which comes from a goroutine that is done
\* or a handler that has both, and a guest that dies ends the stream back.
Onward(c) ==
  /\ \A f \in Dirs : flow[c][f].closed => flow'[c][f].closed
  /\ flow[c]["up"].eof => flow'[c]["up"].eof
  /\ flow[c]["up"].shut => flow'[c]["up"].shut
  /\ flow'[c]["up"].eof => flow[c]["up"].eof \/ flow[c]["up"].shut
  /\ flow'[c]["up"].shut => flow[c]["up"].shut \/ copier'[c]["up"] = "done"
  /\ copier[c]["up"] = "done" => copier'[c]["up"] = "done"
  /\ guest'[c] = "dead" => guest[c] = "dead" \/ flow'[c]["down"].closed
  /\ guest[c] = "dead" => guest'[c] = "dead" \/ handler[c] = "closeGuest"

LEMMA Elsewhere ==
  ASSUME NEW c \in Conns, flow'[c] = flow[c], copier'[c] = copier[c], guest'[c] = guest[c]
  PROVE  Onward(c)
  BY DEF Onward

LEMMA SeveredOnward ==
  ASSUME IInv, NEW cs \in SUBSET Conns, Sever(cs), NEW c \in Conns,
         copier[c]["up"] = "done" => copier'[c]["up"] = "done",
         c \in cs \/ guest'[c] = guest[c],
         guest[c] = "dead" => guest'[c] = "dead"
  PROVE  Onward(c)
<1>1. /\ flow'[c]["up"] = flow[c]["up"]
      /\ c \in cs => flow'[c]["down"].closed = TRUE
      /\ c \notin cs => flow'[c] = flow[c]
  BY Severed
<1> QED
  BY <1>1 DEF Onward, Dirs

LEMMA DialOnward ==
  ASSUME IInv, NEW d \in Conns, Dial(d), NEW c \in Conns PROVE Onward(c)
<1>1. /\ copier \in [Conns -> [Dirs -> States]] /\ guest \in [Conns -> {"none", "live", "dead", "nil", "closed"}]
      /\ handler[d] = "dial" /\ HandlerInv(d)
  BY DEF IInv, TypeOK, States, Dial, DialError, Connected, HandlerGo
<1>2. copier[d]["up"] = "none" /\ guest[d] = "none"
  BY <1>1 DEF HandlerInv, Both, Dirs
<1>3. /\ copier' = copier \/ copier' = [copier EXCEPT ![d] = Both("read")]
      /\ \/ guest' = [guest EXCEPT ![d] = "live"] /\ UNCHANGED flow
         \/ (guest' = guest \/ \E g \in {"nil", "dead"} : guest' = [guest EXCEPT ![d] = g])
            /\ Sever({d})
  BY DEF Dial, DialError, Connected
<1>4. CASE c = d
  <2>1. copier[c]["up"] # "done" /\ guest[c] = "none"
    BY <1>2, <1>4
  <2>2. CASE guest' = [guest EXCEPT ![d] = "live"] /\ UNCHANGED flow
    BY <1>1, <1>4, <2>1, <2>2 DEF Onward
  <2>3. CASE Sever({d})
    <3> DEFINE cs == {d}
    <3>1. cs \in SUBSET Conns /\ Sever(cs) /\ c \in cs
      BY <1>4, <2>3
    <3> HIDE DEF cs
    <3> QED
      BY <2>1, <3>1, SeveredOnward
  <2> QED
    BY <1>3, <2>2, <2>3
<1>5. CASE c # d
  <2>1. copier'[c] = copier[c] /\ guest'[c] = guest[c]
    BY <1>1, <1>3, <1>5
  <2>2. flow'[c] = flow[c]
    BY <1>3, <1>5, SeveredOne
  <2> QED
    BY <2>1, <2>2, Elsewhere
<1> QED
  BY <1>4, <1>5

LEMMA HandlerOnward ==
  ASSUME IInv, NEW d \in Conns, CloseGuest(d) \/ CloseClient(d) \/ ClientGone(d),
         NEW c \in Conns
  PROVE  Onward(c)
<1>1. /\ flow \in [Conns -> [Dirs -> FlowType]] /\ flow[c] \in [Dirs -> FlowType]
      /\ flow[c]["up"] \in FlowType /\ flow[c]["down"] \in FlowType
      /\ guest \in [Conns -> {"none", "live", "dead", "nil", "closed"}]
      /\ HandlerInv(d)
  BY DEF IInv, TypeOK, FlowType, Dirs
<1>2. CASE CloseGuest(d)
  <2>1. /\ flow' = [flow EXCEPT ![d]["down"].src = 0, ![d]["up"].shut = TRUE]
        /\ guest' = [guest EXCEPT ![d] = "closed"] /\ copier' = copier
        /\ handler[d] = "closeGuest"
    BY <1>2 DEF CloseGuest, HandlerGo
  <2>2. copier[d]["up"] = "done"
    BY <1>1, <2>1 DEF HandlerInv, Both, Dirs
  <2>3. CASE c = d
    <3>1. /\ flow'[c]["up"] = [flow[c]["up"] EXCEPT !.shut = TRUE]
          /\ flow'[c]["down"] = [flow[c]["down"] EXCEPT !.src = 0]
      BY <1>1, <2>1, <2>3 DEF Dirs
    <3>2. /\ flow'[c]["up"].closed = flow[c]["up"].closed
          /\ flow'[c]["down"].closed = flow[c]["down"].closed
          /\ flow'[c]["up"].eof = flow[c]["up"].eof /\ flow'[c]["up"].shut = TRUE
      BY <1>1, <3>1 DEF FlowType
    <3>3. guest'[c] = "closed" /\ copier'[c]["up"] = "done" /\ handler[c] = "closeGuest"
      BY <1>1, <2>1, <2>2, <2>3
    <3> QED
      BY <3>2, <3>3 DEF Onward, Dirs
  <2>4. CASE c # d
    <3>1. flow'[c] = flow[c] /\ guest'[c] = guest[c] /\ copier'[c] = copier[c]
      BY <1>1, <2>1, <2>4
    <3> QED
      BY <3>1, Elsewhere
  <2> QED
    BY <2>3, <2>4
<1>3. CASE CloseClient(d) \/ ClientGone(d)
  <2>1. UNCHANGED <<guest, copier>>
    BY <1>3 DEF CloseClient, ClientGone, EndUnchanged
  <2>2. /\ \A f \in Dirs : flow[c][f].closed => flow'[c][f].closed
        /\ flow'[c]["up"].eof = flow[c]["up"].eof /\ flow'[c]["up"].shut = flow[c]["up"].shut
    <3>1. CASE CloseClient(d)
      <4>1. PICK dst : flow' = [flow EXCEPT ![d]["down"].shut = TRUE, ![d]["down"].dst = dst,
                                            ![d]["up"].src = 0, ![d]["up"].closed = TRUE]
        BY <3>1 DEF CloseClient
      <4> QED
        BY <1>1, <4>1 DEF Dirs, FlowType
    <3>2. CASE ClientGone(d)
      <4>1. PICK src : flow' = [flow EXCEPT ![d]["up"].closed = TRUE, ![d]["down"].dst = 0,
                                            ![d]["up"].src = src]
        BY <3>2 DEF ClientGone
      <4> QED
        BY <1>1, <4>1 DEF Dirs, FlowType
    <3> QED
      BY <1>3, <3>1, <3>2
  <2> QED
    BY <2>1, <2>2 DEF Onward
<1> QED
  BY <1>2, <1>3

LEMMA PeersOnward ==
  ASSUME IInv, NEW d \in Conns, NEW g \in Dirs, Send(d, g) \/ HalfClose(d, g) \/ Recv(d, g),
         NEW c \in Conns
  PROVE  Onward(c)
<1>1. /\ flow \in [Conns -> [Dirs -> FlowType]] /\ UNCHANGED <<guest, copier>>
      /\ \A f \in Dirs : flow[c][f] \in FlowType
  BY DEF IInv, TypeOK, FlowType, Send, HalfClose, Recv, EndUnchanged
<1>2. CASE c # d
  <2>1. flow'[c] = flow[c]
    BY <1>1, <1>2 DEF Send, HalfClose, Recv
  <2> QED
    BY <1>1, <2>1, Elsewhere
<1>3. CASE c = d
  <2>1. ASSUME NEW f \in Dirs
        PROVE  /\ flow[c][f].closed => flow'[c][f].closed
               /\ flow[c][f].eof => flow'[c][f].eof
               /\ flow'[c][f].shut = flow[c][f].shut
               /\ flow'[c][f].eof => flow[c][f].eof \/ flow[c][f].shut
    <3>1. CASE f # g
      <4>1. flow'[c][f] = flow[c][f]
        BY <1>1, <3>1 DEF Send, HalfClose, Recv
      <4> QED
        BY <4>1
    <3>2. CASE f = g
      <4>1. CASE flow' = [flow EXCEPT ![c][f].sent = @ + 1, ![c][f].src = @ + 1]
        BY <1>1, <4>1 DEF FlowType
      <4>2. CASE flow' = [flow EXCEPT ![c][f].closed = TRUE]
        BY <1>1, <4>2 DEF FlowType
      <4>3. CASE flow' = [flow EXCEPT ![c][f].got = @ + 1, ![c][f].dst = @ - 1]
        BY <1>1, <4>3 DEF FlowType
      <4>4. CASE flow[c][f].shut /\ flow' = [flow EXCEPT ![c][f].eof = TRUE]
        BY <1>1, <4>4 DEF FlowType
      <4> QED
        BY <1>3, <3>2, <4>1, <4>2, <4>3, <4>4 DEF Send, HalfClose, Recv
    <3> QED
      BY <3>1, <3>2
  <2> QED
    BY <1>1, <2>1 DEF Onward, Dirs
<1> QED
  BY <1>2, <1>3

LEMMA CopyOnward ==
  ASSUME IInv, NEW d \in Conns, NEW g \in Dirs, Copy(d, g), NEW c \in Conns
  PROVE  Onward(c)
<1>1. /\ flow \in [Conns -> [Dirs -> FlowType]] /\ copier \in [Conns -> [Dirs -> States]]
      /\ \A f \in Dirs : flow[c][f] \in FlowType
  BY DEF IInv, TypeOK, FlowType, States
<1>2. PICK to : copier' = [copier EXCEPT ![d][g] = to]
  BY DEF Copy, CopyRead, CopyEnd, CopyWrite, WriteError, CloseWrite, CopierGo
<1>3. copier[d][g] # "done" /\ UNCHANGED guest /\ (CloseWrite(d, g) => copier'[d][g] = "done")
  <2>1. copier[d][g] # "done" /\ UNCHANGED guest
    BY DEF Copy, CopyRead, CopyEnd, CopyWrite, WriteError, CloseWrite, CopierGo
  <2>2. ASSUME CloseWrite(d, g) PROVE copier'[d][g] = "done"
    <3>1. copier' = [copier EXCEPT ![d][g] = "done"]
      BY <2>2 DEF CloseWrite, CopierGo
    <3> QED
      BY <1>1, <3>1
  <2> QED
    BY <2>1, <2>2
<1>4. copier[c]["up"] = "done" => copier'[c]["up"] = "done"
  BY <1>1, <1>2, <1>3 DEF Dirs
<1>5. ASSUME NEW f \in Dirs
      PROVE  /\ flow'[c][f].closed = flow[c][f].closed /\ flow'[c][f].eof = flow[c][f].eof
             /\ flow[c][f].shut => flow'[c][f].shut
             /\ flow'[c][f].shut => flow[c][f].shut \/ copier'[c][f] = "done"
  <2>1. CASE c # d \/ f # g
    <3>1. CASE CopyRead(d, g)
      <4>1. flow'[c][f] = flow[c][f]
        BY <1>1, <2>1, <3>1 DEF CopyRead
      <4> QED
        BY <4>1
    <3>2. CASE CopyWrite(d, g)
      <4>1. flow'[c][f] = flow[c][f]
        BY <1>1, <2>1, <3>2 DEF CopyWrite
      <4> QED
        BY <4>1
    <3>3. CASE CopyEnd(d, g) \/ WriteError(d, g) \/ CloseWrite(d, g)
      <4>1. flow'[c][f] = flow[c][f]
        BY <1>1, <2>1, <3>3 DEF CopyEnd, WriteError, CloseWrite
      <4> QED
        BY <4>1
    <3> QED
      BY <3>1, <3>2, <3>3 DEF Copy
  <2>2. CASE c = d /\ f = g
    <3>1. CASE CopyRead(c, f)
      <4>1. PICK n : flow' = [flow EXCEPT ![c][f].buf = n, ![c][f].src = @ - n]
        BY <3>1 DEF CopyRead
      <4> QED
        BY <1>1, <4>1 DEF FlowType
    <3>2. CASE CopyWrite(c, f)
      <4>1. PICK n : flow' = [flow EXCEPT ![c][f].dst = @ + n, ![c][f].buf = @ - n]
        BY <3>2 DEF CopyWrite
      <4> DEFINE fl == flow[c][f]
                 dst == fl.dst + n
                 buf == fl.buf - n
      <4>2. fl \in FlowType /\ flow'[c][f] = [fl EXCEPT !.dst = dst, !.buf = buf]
        BY <1>1, <4>1
      <4> HIDE DEF dst, buf
      <4>3. /\ flow'[c][f].closed = fl.closed /\ flow'[c][f].eof = fl.eof
            /\ flow'[c][f].shut = fl.shut
        BY <4>2 DEF FlowType
      <4> QED
        BY <4>3
    <3>3. CASE CopyEnd(c, f) \/ WriteError(c, f)
      <4>1. flow' = flow \/ flow' = [flow EXCEPT ![c][f].buf = 0]
        BY <3>3 DEF CopyEnd, WriteError
      <4>2. flow[c][f] \in FlowType
        BY <1>1
      <4>3. CASE flow' = [flow EXCEPT ![c][f].buf = 0]
        <5>1. flow'[c][f] = [flow[c][f] EXCEPT !.buf = 0]
          BY <1>1, <4>3
        <5> QED
          BY <4>2, <5>1 DEF FlowType
      <4> QED
        BY <4>1, <4>3
    <3>4. CASE CloseWrite(c, f)
      <4>1. flow' = [flow EXCEPT ![c][f] = Shut(@)] /\ copier'[c][f] = "done"
        BY <1>3, <2>2, <3>4 DEF CloseWrite
      <4>2. flow'[c][f] = [flow[c][f] EXCEPT !.shut = TRUE]
        BY <1>1, <4>1 DEF Shut
      <4> QED
        BY <1>1, <4>1, <4>2 DEF FlowType
    <3> QED
      BY <2>2, <3>1, <3>2, <3>3, <3>4 DEF Copy
  <2> QED
    BY <2>1, <2>2
<1> QED
  BY <1>3, <1>4, <1>5 DEF Onward, Dirs

LEMMA StepOnward ==
  ASSUME IInv, [Next]_vars, NEW c \in Conns PROVE Onward(c)
<1>1. UNCHANGED <<flow, copier, guest>> => Onward(c)
  BY Elsewhere
<1>2. CASE UNCHANGED vars
  BY <1>1, <1>2 DEF vars, endVars
<1>3. CASE MainStep \/ Interrupt
  <2>1. CASE UNCHANGED <<flow, copier, guest>>
    BY <1>1, <2>1
  <2>2. CASE Terminate
    <3> DEFINE live == {d \in Conns : guest[d] = "live"}
    <3>1. /\ live \in SUBSET Conns /\ Sever(live) /\ copier' = copier
          /\ guest' = [d \in Conns |-> IF d \in live THEN "dead" ELSE guest[d]]
      BY <2>2 DEF Terminate, MainGo
    <3> HIDE DEF live
    <3>2. (c \in live \/ guest'[c] = guest[c]) /\ (guest[c] = "dead" => guest'[c] = "dead")
      BY <3>1
    <3> QED
      BY <3>1, <3>2, SeveredOnward
  <2> QED
    BY <1>3, <2>1, <2>2 DEF MainStep, NewSession, Listen, Interrupt, AcceptFails,
       CloseListener, StopSession, Exit, MainGo, endVars
<1>4. ASSUME NEW d \in Conns, Accept(d) \/ Handle(d) \/ ClientGone(d) \/ GuestDies(d)
      PROVE  Onward(c)
  <2>1. CASE Accept(d) \/ AwaitDone(d)
    BY <1>1, <2>1 DEF Accept, AwaitDone
  <2>2. CASE Dial(d)
    BY <2>2, DialOnward
  <2>3. CASE CloseGuest(d) \/ CloseClient(d) \/ ClientGone(d)
    BY <2>3, HandlerOnward
  <2>4. CASE GuestDies(d)
    <3> DEFINE cs == {d}
    <3>1. /\ cs \in SUBSET Conns /\ Sever(cs) /\ copier' = copier
          /\ guest[d] = "live" /\ guest' = [guest EXCEPT ![d] = "dead"]
          /\ c # d => c \notin cs
          /\ d \in cs
      BY <2>4 DEF GuestDies, EndUnchanged
    <3> HIDE DEF cs
    <3>2. guest \in [Conns -> {"none", "live", "dead", "nil", "closed"}]
      BY DEF IInv, TypeOK
    <3>3. (c \in cs \/ guest'[c] = guest[c]) /\ (guest[c] = "dead" => guest'[c] = "dead")
      BY <3>1, <3>2
    <3> QED
      BY <3>1, <3>3, SeveredOnward
  <2> QED
    BY <1>4, <2>1, <2>2, <2>3, <2>4 DEF Handle
<1>5. ASSUME NEW d \in Conns, NEW g \in Dirs,
             Copy(d, g) \/ Send(d, g) \/ HalfClose(d, g) \/ Recv(d, g)
      PROVE  Onward(c)
  BY <1>5, CopyOnward, PeersOnward
<1> QED
  BY <1>2, <1>3, <1>4, <1>5 DEF Next

LEMMA EndsPassedOnInvariance == Spec => [](\A c \in Conns : EndsPassedOn(c))
<1>1. Init => \A c \in Conns : EndsPassedOn(c)
  BY DEF Init, EndsPassedOn, Both, Dirs
<1>2. IInv /\ [Next]_vars /\ (\A c \in Conns : EndsPassedOn(c)) =>
        (\A c \in Conns : EndsPassedOn(c))'
  <2> SUFFICES ASSUME IInv, [Next]_vars, NEW c \in Conns, EndsPassedOn(c)
               PROVE  EndsPassedOn(c)'
    OBVIOUS
  <2>1. Onward(c)
    BY StepOnward
  <2> QED
    BY <2>1 DEF Onward, EndsPassedOn, Dirs
<1> QED
  BY <1>1, <1>2, Invariance, PTL DEF Spec

\* Its guest stays dead until the handler closes it, after both reports.
LEMMA OverForGood == IInv /\ [Next]_vars => StaysOver
<1> SUFFICES ASSUME IInv, [Next]_vars, NEW c \in Conns, StreamsOver(c),
                    handler[c] \in {"wait2", "wait1"}
             PROVE  StreamsOver(c)'
  BY DEF StaysOver
<1>1. Onward(c)
  BY StepOnward
<1> QED
  BY <1>1 DEF Onward, StreamsOver, Dirs

LEMMA EndsFree ==
  ASSUME IInv, WritersHaveBytes, \A c \in Conns : EndsPassedOn(c)
  PROVE  EndedStreamsFreeHandler
<1> SUFFICES ASSUME NEW c \in Conns, StreamsOver(c), handler[c] \in {"wait2", "wait1"},
                    ~(done[c] > 0)
             PROVE  \/ \E f \in Dirs : CopyMoves(c, f)
                    \/ /\ client[c] # "gone" /\ copier[c]["down"] = "write"
                       /\ flow[c]["down"].dst = Capacity
  BY DEF EndedStreamsFreeHandler
<1>1. TypeOK /\ done[c] = 0 /\ EndsPassedOn(c)
  <2>1. TypeOK
    BY DEF IInv
  <2>2. done[c] \in 0..2
    BY <2>1 DEF TypeOK
  <2> QED
    BY <2>1, <2>2
<1>2. PICK f \in Dirs : copier[c][f] \in {"read", "write", "shut"}
  BY <1>1, Accounted DEF HandlersAccount
<1>3. /\ flow[c]["down"].dst \in 0..Capacity /\ Capacity \in Nat
      /\ copier[c]["down"] = "write" => flow[c]["down"].buf > 0
  BY <1>1, FlowFields DEF WritersHaveBytes, Dirs
<1>4. flow[c]["down"].closed
  BY <1>1 DEF StreamsOver, EndsPassedOn
<1>5. CASE f = "down"
  BY <1>2, <1>3, <1>4, <1>5 DEF CopyMoves, DeadEnd, Dirs
<1>6. CASE f = "up"
  \* The target has not seen the end, so the guest is dead and nothing blocks.
  <2>1. ~flow[c]["up"].eof
    BY <1>1, <1>2, <1>6 DEF EndsPassedOn
  <2>2. flow[c]["up"].closed /\ guest[c] = "dead"
    BY <2>1 DEF StreamsOver
  <2>3. CopyMoves(c, "up")
    BY <1>2, <1>6, <2>2 DEF CopyMoves, DeadEnd
  <2> QED
    BY <2>3 DEF Dirs
<1> QED
  BY <1>5, <1>6 DEF Dirs

\* Whoever waits for the two reports will get them, there is room for both, and
\* a handler that has ended leaves no goroutine, connection or report behind
\* (proxy.go:76-107).
THEOREM HandlersAreAccountedFor == Spec => []HandlersAccount
<1> QED
  BY Accounted, Invariance, PTL

\* The end of a stream means that all of it has arrived, unless an end failed:
\* for any number of bytes, and through both hops (proxy.go:87-104).
THEOREM BothHopsDeliverAll == Spec => []StreamsAreWhole
<1> QED
  BY StreamsInvariance, PTL

\* Once both streams are over, that stays so and no silent peer keeps the handler
\* from its end: the part of HandlerEnds that needs no fairness.  It does not rest
\* on the queue of one direction being served while the other is full, for the
\* bridge has then nothing left to write to the target (proxy.go:87-107,
\* bridge.c:134-137).
THEOREM EndedStreamsFreeHandlers == Spec => []EndedStreamsFreeHandler /\ [][StaysOver]_vars
<1>1. IInv /\ WritersHaveBytes /\ (\A c \in Conns : EndsPassedOn(c)) => EndedStreamsFreeHandler
  BY EndsFree
<1>2. IInv /\ [Next]_vars => [StaysOver]_vars
  BY OverForGood
<1> QED
  BY <1>1, <1>2, Invariance, StreamsInvariance, EndsPassedOnInvariance, PTL DEF Spec
=============================================================================
