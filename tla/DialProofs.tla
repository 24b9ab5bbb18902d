----------------------------- MODULE DialProofs -----------------------------
(***************************************************************************)
(* The safety of Dial for any number of dials, goroutines and handles:     *)
(* who owns which handle at which point of Close and CloseWrite.           *)
(***************************************************************************)
EXTENDS Dial, TLAPS

\* Inside closeOnce, inside writeCloseOnce, and past CloseWrite in Close.
InClose  == {"closeCw", "closeShutdown", "closeIn", "closeOut", "release"}
InShut   == {"cwShutdown", "closeShutdown"}
PastShut == {"closeIn", "closeOut", "release"}

\* What dial has got so far; the process reference goes back once.
DialInv(d) ==
  /\ conn[d].pc = "spawn" /\ open => mounted
  /\ conn[d].pc \in {"idle", "mount", "spawn"} => conn[d].process = "nil"
  /\ conn[d].pc = "handles" => \/ conn[d].process = "held"
                               \/ conn[d].process = "nil" /\ ~open
  /\ conn[d].pc = "undo" => conn[d].process = "held"
  /\ conn[d].pc = "failed" /\ open => conn[d].process # "held"
  /\ conn[d].pc = "conn" /\ conn[d].closeOnce # "done" => conn[d].process \in {"nil", "held"}
  /\ conn[d].closeOnce = "done" /\ open => conn[d].process # "held"
  /\ conn[d].process # "overreleased"
  /\ conn[d].pc # "conn" => /\ conn[d].closeOnce = "new" /\ conn[d].writeOnce = "new"
                            /\ \A u \in Users : upc[d][u] = "idle"

\* One goroutine at a time is inside each once, and Close goes on only when
\* CloseWrite is over.
OnceInv(d) ==
  /\ \A u \in Users : upc[d][u] \in InClose => conn[d].closeOnce = "running"
  /\ \A u, v \in Users : upc[d][u] \in InClose /\ upc[d][v] \in InClose => u = v
  /\ \A u \in Users : upc[d][u] \in InShut => conn[d].writeOnce = "running"
  /\ \A u, v \in Users : upc[d][u] \in InShut /\ upc[d][v] \in InShut => u = v
  /\ \A u \in Users : upc[d][u] \in PastShut => conn[d].writeOnce = "done"
  /\ conn[d].closeOnce = "done" => conn[d].writeOnce = "done"

\* A connection owns its two handles until Close has closed them, and nothing
\* else ever.
SocketInv(d) ==
  /\ conn[d].pc \in {"idle", "mount", "spawn", "handles"} =>
       conn[d].stdin = NoHandle /\ conn[d].stdout = NoHandle
  /\ conn[d].stdin = conn[d].stdout => conn[d].stdin = NoHandle
  /\ \A h \in Handles : owner[h] = d => h = conn[d].stdin \/ h = conn[d].stdout
  /\ /\ conn[d].pc = "conn" /\ conn[d].closeOnce # "done" /\ conn[d].stdin # NoHandle
     /\ \A u \in Users : upc[d][u] \notin {"closeOut", "release"}
     => owner[conn[d].stdin] = d
  /\ /\ conn[d].pc = "conn" /\ conn[d].closeOnce # "done" /\ conn[d].stdout # NoHandle
     /\ \A u \in Users : upc[d][u] # "release"
     => owner[conn[d].stdout] = d
  /\ \A u \in Users : upc[d][u] \in {"closeOut", "release"} =>
       \A h \in Handles : owner[h] = d => h # conn[d].stdin
  /\ \A u \in Users : upc[d][u] = "release" => \A h \in Handles : owner[h] # d
  /\ conn[d].closeOnce = "done" => \A h \in Handles : owner[h] # d

IInv ==
  /\ TypeOK
  /\ bridgeDone => mounted
  /\ \A d \in Dials : DialInv(d) /\ OnceInv(d) /\ SocketInv(d)

-----------------------------------------------------------------------------
(* IInv is inductive *)

\* Before the first dial nothing is owned and nobody is inside a once.
LEMMA InitIInv == Init => IInv
<1> SUFFICES ASSUME Init PROVE IInv
  OBVIOUS
<1>1. TypeOK
  <2>1. [pc |-> "idle", process |-> "nil", stdin |-> NoHandle, stdout |-> NoHandle,
         closeOnce |-> "new", writeOnce |-> "new", sends |-> 0, reading |-> FALSE]
        \in Connection
    BY DialConstants DEF Connection, Once
  <2> QED
    BY <2>1 DEF Init, TypeOK
<1>2. ASSUME NEW d \in Dials PROVE DialInv(d) /\ OnceInv(d) /\ SocketInv(d)
  BY DialConstants DEF Init, DialInv, OnceInv, SocketInv, InClose, InShut, PastShut
<1> QED
  BY <1>1, <1>2 DEF IInv, Init

\* What is said of a connection only depends on the connection, its goroutines
\* and the handles it owns: a step that leaves these alone keeps it.
LEMMA Frame ==
  ASSUME IInv, NEW e \in Dials,
         conn'[e] = conn[e], upc'[e] = upc[e], open' => open, mounted => mounted',
         \A h \in Handles : owner'[h] = e <=> owner[h] = e
  PROVE  DialInv(e)' /\ OnceInv(e)' /\ SocketInv(e)'
<1> USE DEF IInv
<1>1. DialInv(e)'
  BY DEF DialInv
<1>2. OnceInv(e)'
  BY DEF OnceInv
<1>3. SocketInv(e)'
  <2>1. conn[e].stdin \in Handles \cup {NoHandle} /\ conn[e].stdout \in Handles \cup {NoHandle}
    BY DEF TypeOK, Connection
  <2> QED
    BY <2>1 DEF SocketInv
<1> QED
  BY <1>1, <1>2, <1>3

\* So it is enough to look at the connection a step is about.
LEMMA OneConnection ==
  ASSUME IInv, NEW d \in Dials, open' => open, mounted => mounted',
         \A e \in Dials : e # d => /\ conn'[e] = conn[e] /\ upc'[e] = upc[e]
                                   /\ \A h \in Handles : owner'[h] = e <=> owner[h] = e,
         TypeOK', bridgeDone' => mounted', DialInv(d)', OnceInv(d)', SocketInv(d)'
  PROVE  IInv'
<1>1. ASSUME NEW e \in Dials, e # d PROVE DialInv(e)' /\ OnceInv(e)' /\ SocketInv(e)'
  BY <1>1, Frame
<1> QED
  BY <1>1 DEF IInv

\* A call of dial only starts it.
LEMMA DialCallKeeps == ASSUME IInv, NEW d \in Dials, DialCall(d) PROVE IInv'
<1> USE DEF IInv, TypeOK, DialCall, DialUnchanged
<1>0. conn[d] \in Connection
  OBVIOUS
<1>1. /\ conn' = [conn EXCEPT ![d] = [conn[d] EXCEPT !.pc = "mount"]]
      /\ [conn[d] EXCEPT !.pc = "mount"] \in Connection
  BY <1>0 DEF Connection
<1>2. TypeOK'
  BY <1>1
<1>3. DialInv(d)'
  BY <1>0 DEF DialInv, Connection
<1>4. OnceInv(d)'
  BY <1>0 DEF OnceInv, Connection
<1>5. SocketInv(d)'
  BY <1>0 DEF SocketInv, Connection
<1> QED
  BY <1>2, <1>3, <1>4, <1>5, OneConnection

\* dial goes on after ensureBridgeMounted with the directory mounted, or with the
\* session stopped.
LEMMA EnsureBridgeMountedKeeps ==
  ASSUME IInv, NEW d \in Dials, EnsureBridgeMounted(d) PROVE IInv'
<1> USE DEF IInv, TypeOK
<1>0. conn[d] \in Connection /\ conn[d].pc = "mount"
  BY DEF EnsureBridgeMounted
<1>1. PICK p \in {"spawn", "failed"} :
        /\ conn' = [conn EXCEPT ![d] = [conn[d] EXCEPT !.pc = p]]
        /\ p = "spawn" /\ open => bridgeDone'
        /\ mounted \/ bridgeDone' => mounted'
        /\ bridgeDone' \in BOOLEAN /\ mounted' \in BOOLEAN
        /\ UNCHANGED <<open, owner, upc, stray, crashed>>
  <2>1. UNCHANGED <<open, owner, upc, stray, crashed>>
    BY DEF EnsureBridgeMounted, DialUnchanged
  <2>2. CASE /\ ~open \/ bridgeDone
             /\ conn' = [conn EXCEPT ![d].pc = "spawn"]
             /\ UNCHANGED <<bridgeDone, mounted>>
    BY <2>1, <2>2
  <2>3. CASE Mount /\ conn' = [conn EXCEPT ![d].pc = IF bridgeDone' THEN "spawn" ELSE "failed"]
    <3>1. bridgeDone' \in BOOLEAN /\ mounted' \in BOOLEAN /\ (mounted \/ bridgeDone' => mounted')
      <4>1. CASE mounted' = TRUE /\ bridgeDone' = TRUE
        BY <4>1, Zenon
      <4>2. CASE ~mounted /\ mounted' \in BOOLEAN /\ UNCHANGED bridgeDone
        BY <4>2
      <4> QED
        BY <2>3, <4>1, <4>2, Zenon DEF Mount
    <3>2. CASE bridgeDone'
      BY <2>1, <2>3, <3>1, <3>2
    <3>3. CASE ~bridgeDone'
      BY <2>1, <2>3, <3>1, <3>3
    <3> QED
      BY <3>2, <3>3
  <2>4. CASE conn' = [conn EXCEPT ![d].pc = "failed"] /\ UNCHANGED <<bridgeDone, mounted>>
    BY <2>1, <2>4
  <2> QED
    BY <2>2, <2>3, <2>4, Zenon DEF EnsureBridgeMounted
<1>2. TypeOK'
  <2>1. [conn[d] EXCEPT !.pc = p] \in Connection
    BY <1>0 DEF Connection
  <2> QED
    BY <1>1, <2>1
<1>3. DialInv(d)'
  BY <1>0, <1>1 DEF DialInv, Connection
<1>4. OnceInv(d)'
  BY <1>0, <1>1 DEF OnceInv, Connection
<1>5. SocketInv(d)'
  BY <1>0, <1>1 DEF SocketInv, Connection
<1> QED
  BY <1>1, <1>2, <1>3, <1>4, <1>5, OneConnection

\* dial goes on to GetStdHandle with a process, or with the session stopped.
LEMMA SpawnKeeps == ASSUME IInv, NEW d \in Dials, Spawn(d) PROVE IInv'
<1> USE DEF IInv, TypeOK, Spawn, DialUnchanged
<1>0. conn[d] \in Connection
  OBVIOUS
<1>1. /\ [conn[d] EXCEPT !.pc = "handles", !.process = "held"] \in Connection
      /\ [conn[d] EXCEPT !.pc = "handles"] \in Connection
      /\ [conn[d] EXCEPT !.pc = "failed"] \in Connection
  BY <1>0 DEF Connection
<1>2. TypeOK'
  BY <1>1
<1>3. DialInv(d)'
  BY <1>0 DEF DialInv, Connection
<1>4. OnceInv(d)'
  BY <1>0 DEF OnceInv, Connection
<1>5. SocketInv(d)'
  BY <1>0 DEF SocketInv, Connection
<1> QED
  BY <1>2, <1>3, <1>4, <1>5, OneConnection

\* A dial that fails after the process was spawned releases it while it can.
LEMMA UndoSpawnKeeps == ASSUME IInv, NEW d \in Dials, UndoSpawn(d) PROVE IInv'
<1> USE DEF IInv, TypeOK
<1>0. conn[d] \in Connection /\ conn[d].pc = "undo" /\ conn[d].process = "held"
  BY DEF DialInv, UndoSpawn
<1>1. PICK p \in {"held", "released"} :
        /\ conn' = [conn EXCEPT ![d] = [conn[d] EXCEPT !.pc = "failed", !.process = p]]
        /\ open => p = "released"
        /\ UNCHANGED <<open, bridgeDone, mounted, owner, upc, stray, crashed>>
  BY <1>0 DEF Connection, UndoSpawn, Released, DialUnchanged
<1>2. TypeOK'
  <2>1. [conn[d] EXCEPT !.pc = "failed", !.process = p] \in Connection
    BY <1>0 DEF Connection
  <2> QED
    BY <1>1, <2>1
<1>3. DialInv(d)'
  BY <1>0, <1>1 DEF DialInv, Connection
<1>4. OnceInv(d)'
  BY <1>0, <1>1 DEF OnceInv, Connection
<1>5. SocketInv(d)'
  BY <1>0, <1>1 DEF SocketInv, Connection
<1> QED
  BY <1>1, <1>2, <1>3, <1>4, <1>5, OneConnection

\* The handles dial gets are free ones, so nobody else loses one.
LEMMA GetStdHandlesKeeps == ASSUME IInv, NEW d \in Dials, GetStdHandles(d) PROVE IInv'
<1> USE DEF IInv, TypeOK
<1>0. /\ conn[d] \in Connection /\ conn[d].pc = "handles"
      /\ conn[d].stdin = NoHandle /\ conn[d].stdout = NoHandle
      /\ conn[d].process \in {"nil", "held"}
      /\ open => conn[d].process = "held"
  BY DEF GetStdHandles, SocketInv, DialInv
<1>a. \A h \in Handles : owner[h] # d
  BY <1>0, DialConstants DEF SocketInv
<1> DEFINE Got(p, i, o) ==
      /\ conn' \in [Dials -> Connection] /\ owner' \in [Handles -> Dials \cup {Nobody}]
      /\ \A e \in Dials : e # d => conn'[e] = conn[e]
      /\ conn'[d].pc = p /\ conn'[d].stdin = i /\ conn'[d].stdout = o
      /\ conn'[d].process = conn[d].process
      /\ conn'[d].closeOnce = conn[d].closeOnce /\ conn'[d].writeOnce = conn[d].writeOnce
      /\ \A h \in Handles : owner'[h] = IF h = i \/ h = o THEN d ELSE owner[h]
<1>1. PICK p \in {"undo", "conn"}, i \in Handles \cup {NoHandle}, o \in Handles \cup {NoHandle} :
        /\ Got(p, i, o)
        /\ i # NoHandle => owner[i] = Nobody
        /\ o # NoHandle => owner[o] = Nobody
        /\ i = o => i = NoHandle
        /\ p = "undo" => open
        /\ UNCHANGED <<open, bridgeDone, mounted, upc, stray, crashed>>
  <2>0. UNCHANGED <<open, bridgeDone, mounted, upc, stray, crashed>>
    BY DEF GetStdHandles, DialUnchanged
  <2>1. CASE open /\ conn' = [conn EXCEPT ![d].pc = "undo"] /\ UNCHANGED owner
    <3>1. Got("undo", NoHandle, NoHandle)
      BY <1>0, <2>1, DialConstants DEF Connection
    <3> QED
      BY <2>0, <2>1, <3>1
  <2>2. ASSUME NEW i \in Free, open,
               conn' = [conn EXCEPT ![d].pc = "undo", ![d].stdin = i],
               owner' = [owner EXCEPT ![i] = d]
        PROVE  i \in Handles /\ owner[i] = Nobody /\ Got("undo", i, NoHandle)
    BY <1>0, <2>2, DialConstants DEF Connection, Free
  <2>3. ASSUME NEW i \in Free, NEW o \in Free, i # o,
               conn' = [conn EXCEPT ![d].pc = "conn", ![d].stdin = i, ![d].stdout = o],
               owner' = [owner EXCEPT ![i] = d, ![o] = d]
        PROVE  /\ i \in Handles /\ o \in Handles /\ owner[i] = Nobody /\ owner[o] = Nobody
               /\ Got("conn", i, o)
    BY <1>0, <2>3, DialConstants DEF Connection, Free
  <2>4. CASE conn' = [conn EXCEPT ![d].pc = "conn"] /\ UNCHANGED owner
    <3>1. Got("conn", NoHandle, NoHandle)
      BY <1>0, <2>4, DialConstants DEF Connection
    <3> QED
      BY <2>0, <2>4, <3>1
  <2> HIDE DEF Got
  <2>5. CASE \E i \in Free : /\ open
                             /\ conn' = [conn EXCEPT ![d].pc = "undo", ![d].stdin = i]
                             /\ owner' = [owner EXCEPT ![i] = d]
    <3>1. PICK i \in Free : /\ open
                            /\ conn' = [conn EXCEPT ![d].pc = "undo", ![d].stdin = i]
                            /\ owner' = [owner EXCEPT ![i] = d]
      BY <2>5
    <3>2. i \in Handles /\ owner[i] = Nobody /\ Got("undo", i, NoHandle)
      BY <2>2, <3>1
    <3> QED
      BY <2>0, <3>1, <3>2, DialConstants
  <2>6. CASE \E i, o \in Free :
               /\ i # o
               /\ conn' = [conn EXCEPT ![d].pc = "conn", ![d].stdin = i, ![d].stdout = o]
               /\ owner' = [owner EXCEPT ![i] = d, ![o] = d]
    <3>1. PICK i \in Free, o \in Free :
               /\ i # o
               /\ conn' = [conn EXCEPT ![d].pc = "conn", ![d].stdin = i, ![d].stdout = o]
               /\ owner' = [owner EXCEPT ![i] = d, ![o] = d]
      BY <2>6
    <3>2. /\ i \in Handles /\ o \in Handles /\ owner[i] = Nobody /\ owner[o] = Nobody
          /\ Got("conn", i, o)
      BY <2>3, <3>1
    <3> QED
      BY <2>0, <3>1, <3>2
  <2> QED
    BY <2>1, <2>4, <2>5, <2>6, Zenon DEF GetStdHandles
<1>2. TypeOK'
  BY <1>1
<1>3. DialInv(d)'
  BY <1>0, <1>1 DEF DialInv, Connection
<1>4. OnceInv(d)'
  BY <1>0, <1>1 DEF OnceInv, Connection
<1>5. SocketInv(d)'
  BY <1>0, <1>a, <1>1, DialConstants DEF SocketInv, DialInv, Connection
<1>6. ASSUME NEW e \in Dials, e # d, NEW h \in Handles PROVE owner'[h] = e <=> owner[h] = e
  BY <1>a, <1>1, <1>6, DialConstants
<1> QED
  BY <1>1, <1>2, <1>3, <1>4, <1>5, <1>6, OneConnection

\* What holds while the session is open is asked of fewer states once it has
\* stopped.
LEMMA SessionCloseKeeps == ASSUME IInv, SessionClose PROVE IInv'
<1> USE DEF IInv, SessionClose
<1>1. TypeOK'
  BY DEF TypeOK
<1>2. ASSUME NEW d \in Dials PROVE DialInv(d)' /\ OnceInv(d)' /\ SocketInv(d)'
  BY <1>2, Frame
<1> QED
  BY <1>1, <1>2

\* Read and Write are no part of the invariant: they only use the handles.
LEMMA IoKeeps ==
  ASSUME IInv, NEW d \in Dials, Read(d) \/ Write(d) \/ Recv(d) \/ Send(d)
  PROVE  IInv'
<1> USE DEF IInv, TypeOK
<1>0. conn[d] \in Connection
  OBVIOUS
<1> DEFINE c == conn[d]
           c1 == conn'[d]
<1>1. /\ UNCHANGED <<open, bridgeDone, mounted, owner, upc, crashed>>
      /\ \A e \in Dials : e # d => conn'[e] = conn[e]
      /\ c1.pc = c.pc /\ c1.process = c.process /\ c1.stdin = c.stdin /\ c1.stdout = c.stdout
      /\ c1.closeOnce = c.closeOnce /\ c1.writeOnce = c.writeOnce
  BY <1>0 DEF Read, Write, Recv, Send, IoUnchanged, Connection
<1>2. TypeOK'
  <2>1. stray' \in SUBSET (Dials \X Dials)
    <3>1. ASSUME NEW h \in {conn[d].stdin, conn[d].stdout}, Moved(d, h)
          PROVE  stray' \in SUBSET (Dials \X Dials)
      <4>1. OwnerOf(h) \in Dials \cup {Nobody}
        BY <1>0 DEF OwnerOf, Connection
      <4> QED
        BY <3>1, <4>1 DEF Moved
    <3> QED
      BY <3>1 DEF Read, Write, Recv, Send
  <2>2. conn' \in [Dials -> Connection]
    <3>1. /\ \A n \in 0..MaxSends : [conn[d] EXCEPT !.sends = n] \in Connection
          /\ [conn[d] EXCEPT !.reading = TRUE] \in Connection
          /\ [conn[d] EXCEPT !.reading = FALSE] \in Connection
      BY <1>0 DEF Connection
    <3>2. conn[d].sends \in 0..MaxSends
      BY <1>0 DEF Connection
    <3>3. 0 \in 0..MaxSends /\ (conn[d].sends > 0 => conn[d].sends - 1 \in 0..MaxSends)
      BY <3>2, DialConstants
    <3>4. CASE Read(d) \/ Recv(d)
      BY <3>1, <3>4 DEF Read, Recv
    <3>5. CASE Write(d)
      <4>1. PICK n \in 1..MaxSends : conn' = [conn EXCEPT ![d].sends = n]
        BY <3>5 DEF Write
      <4>2. n \in 0..MaxSends
        BY DialConstants
      <4> QED
        BY <3>1, <4>1, <4>2
    <3>6. CASE Send(d)
      BY <3>1, <3>3, <3>6 DEF Send
    <3> QED
      BY <3>4, <3>5, <3>6
  <2> QED
    BY <1>1, <2>1, <2>2
<1>3. DialInv(d)'
  BY <1>0, <1>1 DEF DialInv, Connection
<1>4. OnceInv(d)'
  BY <1>0, <1>1 DEF OnceInv, Connection
<1>5. SocketInv(d)'
  BY <1>0, <1>1 DEF SocketInv, Connection
<1> QED
  BY <1>1, <1>2, <1>3, <1>4, <1>5, OneConnection

\* Calling Close or CloseWrite enters no once yet.
LEMMA CallCloseKeeps == ASSUME IInv, NEW d \in Dials, NEW u \in Users, CallClose(d, u) PROVE IInv'
<1> USE DEF IInv, TypeOK, CallClose, Goto, CloseUnchanged
<1>1. TypeOK'
  BY DEF ClosePcs
<1>2. DialInv(d)'
  BY DEF DialInv
<1>3. OnceInv(d)'
  BY DEF OnceInv, InClose, InShut, PastShut
<1>4. SocketInv(d)'
  BY DEF SocketInv
<1> QED
  BY <1>1, <1>2, <1>3, <1>4, OneConnection

\* closeOnce lets one goroutine in; the others leave when it is over.
LEMMA CloseOnceKeeps == ASSUME IInv, NEW d \in Dials, NEW u \in Users, CloseOnce(d, u) PROVE IInv'
<1> USE DEF IInv, TypeOK
<1>0. conn[d] \in Connection /\ [conn[d] EXCEPT !.closeOnce = "running"] \in Connection
  <2>1. conn[d] \in Connection
    OBVIOUS
  <2> QED
    BY <2>1 DEF Connection, Once
<1> USE DEF CloseOnce, Goto, CloseUnchanged
<1>1. TypeOK'
  <2>1. conn' \in [Dials -> Connection]
    BY <1>0
  <2>2. upc' \in [Dials -> [Users -> {"idle", "cw", "cwShutdown"} \cup ClosePcs]]
    <3>1. \E to \in {"closeCw", "idle"} : upc' = [upc EXCEPT ![d][u] = to]
      OBVIOUS
    <3> QED
      BY <3>1 DEF ClosePcs
  <2> QED
    BY <2>1, <2>2
<1>2. DialInv(d)'
  BY <1>0 DEF DialInv, Connection
<1>3. OnceInv(d)'
  BY <1>0 DEF OnceInv, InClose, InShut, PastShut, Connection
<1>4. SocketInv(d)'
  BY <1>0 DEF SocketInv, Connection
<1> QED
  BY <1>1, <1>2, <1>3, <1>4, OneConnection

LEMMA OnceBegins == \A k \in Connection : [k EXCEPT !.writeOnce = "running"] \in Connection
BY DEF Connection, Once

\* writeCloseOnce lets one goroutine in, and Close goes on when it is over.
LEMMA WriteCloseOnceKeeps ==
  ASSUME IInv, NEW d \in Dials, NEW u \in Users, WriteCloseOnce(d, u) PROVE IInv'
<1> USE DEF IInv, TypeOK
<1>0. conn[d] \in Connection /\ [conn[d] EXCEPT !.writeOnce = "running"] \in Connection
  <2>1. conn[d] \in Connection
    OBVIOUS
  <2> QED
    BY <2>1, OnceBegins
<1> USE DEF WriteCloseOnce, Goto, CloseUnchanged
<1>1. TypeOK'
  <2>1. conn' \in [Dials -> Connection]
    BY <1>0
  <2>2. upc' \in [Dials -> [Users -> {"idle", "cw", "cwShutdown"} \cup ClosePcs]]
    <3>1. \E to \in {"cwShutdown", "closeShutdown", "idle", "closeIn"} :
            upc' = [upc EXCEPT ![d][u] = to]
      OBVIOUS
    <3> QED
      BY <3>1 DEF ClosePcs
  <2> QED
    BY <2>1, <2>2
<1>2. DialInv(d)'
  BY <1>0 DEF DialInv, Connection
<1>3. OnceInv(d)'
  <2> USE DEF OnceInv, InClose, InShut, PastShut, Connection
  <2>1. CASE conn[d].writeOnce = "new" /\ Goto(d, u, "cw", "cwShutdown")
    BY <1>0, <2>1
  <2>2. CASE conn[d].writeOnce = "new" /\ Goto(d, u, "closeCw", "closeShutdown")
    BY <1>0, <2>2
  <2>3. CASE conn[d].writeOnce = "done" /\ Goto(d, u, "cw", "idle")
    BY <1>0, <2>3
  <2>4. CASE conn[d].writeOnce = "done" /\ Goto(d, u, "closeCw", "closeIn")
    BY <1>0, <2>4
  <2> QED
    BY <2>1, <2>2, <2>3, <2>4
<1>4. SocketInv(d)'
  BY <1>0 DEF SocketInv, Connection
<1> QED
  BY <1>1, <1>2, <1>3, <1>4, OneConnection

\* After its shutdown a goroutine is done with CloseWrite.
LEMMA ShutdownSocketKeeps ==
  ASSUME IInv, NEW d \in Dials, NEW u \in Users, ShutdownSocket(d, u) PROVE IInv'
<1> USE DEF IInv, TypeOK
<1>0. conn[d] \in Connection /\ [conn[d] EXCEPT !.writeOnce = "done"] \in Connection
  <2>1. conn[d] \in Connection
    OBVIOUS
  <2> QED
    BY <2>1 DEF Connection, Once
<1> USE DEF ShutdownSocket, Goto, CloseUnchanged
<1>1. TypeOK'
  <2>1. conn' \in [Dials -> Connection]
    BY <1>0
  <2>2. upc' \in [Dials -> [Users -> {"idle", "cw", "cwShutdown"} \cup ClosePcs]]
    BY DEF ClosePcs
  <2> QED
    BY <2>1, <2>2
<1>2. DialInv(d)'
  BY <1>0 DEF DialInv, Connection
<1>3. OnceInv(d)'
  <2> USE DEF OnceInv, InClose, InShut, PastShut, Connection
  <2>1. CASE Goto(d, u, "cwShutdown", "idle")
    BY <1>0, <2>1
  <2>2. CASE Goto(d, u, "closeShutdown", "closeIn")
    BY <1>0, <2>2
  <2> QED
    BY <2>1, <2>2
<1>4. SocketInv(d)'
  BY <1>0 DEF SocketInv, Connection
<1> QED
  BY <1>1, <1>2, <1>3, <1>4, OneConnection

\* Close frees a handle only while its connection owns it.
LEMMA CloseSocketKeeps ==
  ASSUME IInv, NEW d \in Dials, NEW u \in Users, CloseSocket(d, u) PROVE IInv'
<1> USE DEF IInv, TypeOK
<1>0. /\ conn[d] \in Connection /\ conn[d].pc = "conn" /\ conn[d].closeOnce = "running"
      /\ \A v \in Users : v # u => upc[d][v] \notin InClose
  BY DEF CloseSocket, Goto, DialInv, OnceInv, InClose
<1>1. PICK to \in {"closeOut", "release"} :
        /\ upc' = [upc EXCEPT ![d][u] = to]
        /\ upc[d][u] = IF to = "closeOut" THEN "closeIn" ELSE "closeOut"
        /\ owner' = Freed(IF to = "closeOut" THEN conn[d].stdin ELSE conn[d].stdout)
        /\ UNCHANGED <<open, bridgeDone, mounted, conn, stray, crashed>>
  BY DEF CloseSocket, Goto, CloseUnchanged
<1>2. ASSUME NEW e \in Dials, e # d, NEW h \in Handles PROVE owner'[h] = e <=> owner[h] = e
  BY <1>0, <1>1, <1>2, DialConstants DEF Freed, SocketInv, InClose
<1>3. TypeOK'
  BY <1>1, DialConstants DEF Freed, ClosePcs
<1>4. DialInv(d)'
  BY <1>0, <1>1 DEF DialInv
<1>5. OnceInv(d)'
  BY <1>0, <1>1 DEF OnceInv, InClose, InShut, PastShut
<1>6. SocketInv(d)'
  <2> USE DEF SocketInv, Freed, InClose
  <2>1. CASE to = "closeOut"
    <3>1. \A h \in Handles : owner'[h] = d => h = conn[d].stdout /\ h # conn[d].stdin
      BY <1>0, <1>1, <2>1, DialConstants
    <3>2. conn[d].stdout # NoHandle => owner'[conn[d].stdout] = d
      <4>1. \A v \in Users : upc[d][v] # "release"
        BY <1>0, <1>1, <2>1
      <4>2. conn[d].stdout \in Handles \cup {NoHandle}
        BY <1>0 DEF Connection
      <4> QED
        BY <1>0, <1>1, <2>1, <4>1, <4>2, DialConstants
    <3>3. upc'[d][u] = "closeOut" /\ \A v \in Users : v # u => upc'[d][v] = upc[d][v]
      BY <1>1, <2>1
    <3> QED
      BY <1>0, <1>1, <3>1, <3>2, <3>3
  <2>2. CASE to = "release"
    BY <1>0, <1>1, <2>2, DialConstants
  <2> QED
    BY <2>1, <2>2
<1> QED
  BY <1>1, <1>2, <1>3, <1>4, <1>5, <1>6, OneConnection

\* Close ends with the process released, or with nobody left to release it.
LEMMA ReleaseProcessKeeps ==
  ASSUME IInv, NEW d \in Dials, NEW u \in Users, ReleaseProcess(d, u) PROVE IInv'
<1> USE DEF IInv, TypeOK
<1>0. /\ conn[d] \in Connection /\ conn[d].pc = "conn" /\ conn[d].closeOnce = "running"
      /\ conn[d].process \in {"nil", "held"} /\ conn[d].writeOnce = "done"
      /\ \A v \in Users : v # u => upc[d][v] \notin InClose
      /\ \A h \in Handles : owner[h] # d
  BY DEF ReleaseProcess, Goto, DialInv, OnceInv, SocketInv, InClose, PastShut
<1>1. PICK p \in {"nil", "held", "released"} :
        /\ conn' = [conn EXCEPT ![d] = [conn[d] EXCEPT !.closeOnce = "done", !.process = p]]
        /\ open => p # "held"
        /\ upc[d][u] = "release" /\ upc' = [upc EXCEPT ![d][u] = "idle"]
        /\ crashed' \in BOOLEAN
        /\ UNCHANGED <<open, bridgeDone, mounted, owner, stray>>
  BY <1>0 DEF Connection, ReleaseProcess, Released, Goto, CloseUnchanged
<1>2. TypeOK'
  <2>1. [conn[d] EXCEPT !.closeOnce = "done", !.process = p] \in Connection
    BY <1>0 DEF Connection, Once
  <2> QED
    BY <1>1, <2>1
<1>3. DialInv(d)'
  BY <1>0, <1>1 DEF DialInv, Connection
<1>4. OnceInv(d)'
  BY <1>0, <1>1 DEF OnceInv, Connection, InClose, InShut, PastShut
<1>5. SocketInv(d)'
  BY <1>0, <1>1 DEF SocketInv, Connection, InClose
<1> QED
  BY <1>1, <1>2, <1>3, <1>4, <1>5, OneConnection

\* Every step of dial, of the connections and of the session preserves it.
LEMMA StepIInv == IInv /\ [Next]_vars => IInv'
<1> SUFFICES ASSUME IInv, [Next]_vars PROVE IInv'
  OBVIOUS
<1>1. CASE SessionClose
  BY <1>1, SessionCloseKeeps
<1>2. ASSUME NEW d \in Dials, DialCall(d) \/ DialStep(d) PROVE IInv'
  BY <1>2, DialCallKeeps, EnsureBridgeMountedKeeps, SpawnKeeps, GetStdHandlesKeeps,
     UndoSpawnKeeps DEF DialStep
<1>3. ASSUME NEW d \in Dials, Read(d) \/ Recv(d) \/ Write(d) \/ Send(d) PROVE IInv'
  BY <1>3, IoKeeps
<1>4. ASSUME NEW d \in Dials, NEW u \in Users, CallClose(d, u) \/ CloseStep(d, u) PROVE IInv'
  BY <1>4, CallCloseKeeps, CloseOnceKeeps, WriteCloseOnceKeeps, ShutdownSocketKeeps,
     CloseSocketKeeps, ReleaseProcessKeeps DEF CloseStep
<1>5. CASE UNCHANGED vars
  <2>1. TypeOK'
    BY <1>5 DEF IInv, TypeOK, vars
  <2>2. ASSUME NEW d \in Dials PROVE DialInv(d)' /\ OnceInv(d)' /\ SocketInv(d)'
    BY <1>5, <2>2, Frame DEF vars
  <2> QED
    BY <1>5, <2>1, <2>2 DEF IInv, vars
<1> QED
  BY <1>1, <1>2, <1>3, <1>4, <1>5 DEF Next

\* Who owns which handle, who is inside which once and who holds which process
\* reference at every point of dial, CloseWrite and Close (session.go:202-268,
\* conn.go:69-87).
THEOREM Invariance == Spec => []IInv
  BY InitIInv, StepIInv, PTL DEF Spec

-----------------------------------------------------------------------------
(* The properties of the runs *)

\* Every variable keeps its type.
THEOREM TypeCorrect == Spec => []TypeOK
<1>1. IInv => TypeOK
  BY DEF IInv
<1> QED
  BY <1>1, Invariance, PTL

\* No shutdown and no closesocket hits the socket of another connection,
\* however many goroutines close and half close (conn.go:69-87).
THEOREM TeardownOwns == Spec => []TeardownOwnsSockets
<1>1. IInv => TeardownOwnsSockets
  <2> SUFFICES ASSUME IInv, NEW d \in Dials, NEW u \in Users
               PROVE  /\ upc[d][u] \in {"cwShutdown", "closeShutdown", "closeIn"} =>
                           OwnerOf(conn[d].stdin) = d \/ conn[d].stdin = NoHandle
                      /\ upc[d][u] = "closeOut" =>
                           OwnerOf(conn[d].stdout) = d \/ conn[d].stdout = NoHandle
    BY DEF TeardownOwnsSockets
  <2> USE DEF IInv, OwnerOf
  <2>1. CASE upc[d][u] \in InShut
    <3>1. /\ conn[d].pc = "conn" /\ conn[d].closeOnce # "done"
          /\ \A v \in Users : upc[d][v] \notin PastShut
      BY <2>1 DEF InShut, DialInv, OnceInv
    <3> QED
      BY <2>1, <3>1 DEF InShut, PastShut, SocketInv
  <2>2. CASE upc[d][u] \in InClose
    <3>1. /\ conn[d].pc = "conn" /\ conn[d].closeOnce = "running"
          /\ \A v \in Users : v # u => upc[d][v] \notin InClose
      BY <2>2 DEF InClose, DialInv, OnceInv
    <3> QED
      BY <2>1, <2>2, <3>1 DEF InClose, InShut, SocketInv
  <2> QED
    BY <2>1, <2>2 DEF InShut, InClose
<1> QED
  BY <1>1, Invariance, PTL

\* A closed connection keeps no socket, and no process reference while there is
\* a COM thread to give it back on (conn.go:76-87).
THEOREM ClosedHoldsNothing == Spec => []ClosedConnHoldsNothing
<1>1. IInv => ClosedConnHoldsNothing
  BY DEF IInv, DialInv, SocketInv, ClosedConnHoldsNothing
<1> QED
  BY <1>1, Invariance, PTL

\* A process reference is given back once, by a failed dial too
\* (session.go:231-234).
THEOREM ReleasedOnce == Spec => []ProcessReleasedOnce
<1>1. IInv => ProcessReleasedOnce
  BY DEF IInv, DialInv, ProcessReleasedOnce
<1> QED
  BY <1>1, Invariance, PTL

\* GetStdHandle runs on a process, although dial goes on after a do that ran
\* nothing (session.go:224-230).
THEOREM HandlesHaveProcess == Spec => []HandlesNeedProcess
<1>1. IInv => HandlesNeedProcess
  BY DEF IInv, DialInv, HandlesNeedProcess
<1> QED
  BY <1>1, Invariance, PTL

\* The guest sees entrypoint.sh wherever a bridge is spawned
\* (session.go:249-268).
THEOREM SpawnsMounted == Spec => []SpawnFindsBridge
<1>1. IInv => SpawnFindsBridge
  BY DEF IInv, DialInv, SpawnFindsBridge
<1> QED
  BY <1>1, Invariance, PTL

-----------------------------------------------------------------------------
(* The edges of the two findings, and who waits for whom *)

\* What a connection keeps of how it came about: without a process it was
\* dialled into a stopped session and has no sockets; a failed dial has at
\* most its stdin; bytes of it went astray only after its own Close had begun;
\* and each of its onces is left by the goroutine that entered it.
EdgeInv(d) ==
  /\ conn[d].process = "nil" /\ conn[d].pc \in {"handles", "conn"} =>
       ~open /\ conn[d].stdin = NoHandle /\ conn[d].stdout = NoHandle
  /\ conn[d].pc \in {"undo", "failed"} => conn[d].stdout = NoHandle
  /\ conn[d].reading \/ conn[d].sends > 0 => conn[d].pc = "conn"
  /\ \A e \in Dials : <<d, e>> \in stray => conn[d].closeOnce # "new"
                                            /\ conn[d].writeOnce = "done"
  /\ conn[d].closeOnce = "running" => \E u \in Users : upc[d][u] \in InClose
  /\ conn[d].writeOnce = "running" => \E u \in Users : upc[d][u] \in InShut

LateConn(d) == conn[d].pc = "conn" /\ conn[d].process = "nil"

EdgesInv == /\ \A d \in Dials : EdgeInv(d)
            /\ crashed => \E d \in Dials : LateConn(d)

\* The panic in releaseProcess, NoPanic's finding, only meets a connection that
\* dial handed out after the session had stopped: one without a process, and
\* without any socket.
PanicNeedsLateConn ==
  /\ crashed => \E d \in Dials : LateConn(d)
  /\ \A d \in Dials : LateConn(d) =>
       ~open /\ conn[d].stdin = NoHandle /\ conn[d].stdout = NoHandle

\* Bytes on a foreign socket, OwnStreamOnly's finding, are always those of a
\* connection whose own Close has come past its CloseWrite.
StrayNeedsClose ==
  \A d, e \in Dials : <<d, e>> \in stray => /\ conn[d].closeOnce # "new"
                                            /\ conn[d].writeOnce = "done"

\* Every open socket belongs to a connection that Close has not finished with,
\* or is the stdin of a dial that did not get its stdout: a failed dial loses
\* one socket at most, and nothing else loses any.
SocketsAccountedFor ==
  \A d \in Dials, h \in Handles : owner[h] = d =>
    \/ /\ conn[d].pc = "conn" /\ conn[d].closeOnce # "done"
       /\ h \in {conn[d].stdin, conn[d].stdout}
    \/ conn[d].pc \in {"undo", "failed"} /\ h = conn[d].stdin

\* Where goroutine u of connection d can go on: the guards of CloseStep(d, u).
CloseMoves(d, u) ==
  \/ upc[d][u] \in {"cwShutdown", "closeShutdown", "closeIn", "closeOut", "release"}
  \/ upc[d][u] = "close" /\ conn[d].closeOnce # "running"
  \/ upc[d][u] \in {"cw", "closeCw"} /\ conn[d].writeOnce # "running"

\* Close waits for a CloseWrite under way, or for another Close, never the
\* other way round: while a goroutine is in either, one of them can go on.
CloseNeverStuck ==
  \A d \in Dials : (\E u \in Users : upc[d][u] # "idle") => \E u \in Users : CloseMoves(d, u)

\* As Frame, for a step that moves no bytes of the connection.
LEMMA EdgeFrame ==
  ASSUME NEW e \in Dials, EdgeInv(e),
         conn'[e] = conn[e], upc'[e] = upc[e], open' => open,
         \A f \in Dials : <<e, f>> \in stray' => <<e, f>> \in stray
  PROVE  EdgeInv(e)'
BY DEF EdgeInv

\* What GetStdHandles makes of a connection.
LEMMA HandlesGot ==
  ASSUME IInv, NEW d \in Dials, GetStdHandles(d)
  PROVE  /\ conn'[d].process = conn[d].process
         /\ conn'[d].closeOnce = conn[d].closeOnce /\ conn'[d].writeOnce = conn[d].writeOnce
         /\ conn'[d].reading = conn[d].reading /\ conn'[d].sends = conn[d].sends
         /\ conn[d].pc = "handles" /\ conn'[d].pc \in {"undo", "conn"}
         /\ conn'[d].pc = "undo" => conn'[d].stdout = conn[d].stdout
         /\ ~open => conn'[d].stdin = conn[d].stdin /\ conn'[d].stdout = conn[d].stdout
<1>1. conn[d] \in Connection /\ conn \in [Dials -> Connection] /\ conn[d].pc = "handles"
  BY DEF IInv, TypeOK, GetStdHandles
<1> DEFINE Goal(k) == /\ k.process = conn[d].process
                      /\ k.closeOnce = conn[d].closeOnce /\ k.writeOnce = conn[d].writeOnce
                      /\ k.reading = conn[d].reading /\ k.sends = conn[d].sends
                      /\ k.pc \in {"undo", "conn"}
                      /\ k.pc = "undo" => k.stdout = conn[d].stdout
                      /\ ~open => k.stdin = conn[d].stdin /\ k.stdout = conn[d].stdout
<1>2. ASSUME conn' = [conn EXCEPT ![d].pc = "undo"] PROVE Goal(conn'[d])
  BY <1>1, <1>2 DEF Connection
<1>3. ASSUME NEW i, open, conn' = [conn EXCEPT ![d].pc = "undo", ![d].stdin = i]
      PROVE  Goal(conn'[d])
  BY <1>1, <1>3 DEF Connection
<1>4. ASSUME NEW i, NEW o, open,
             conn' = [conn EXCEPT ![d].pc = "conn", ![d].stdin = i, ![d].stdout = o]
      PROVE  Goal(conn'[d])
  BY <1>1, <1>4 DEF Connection
<1>5. ASSUME conn' = [conn EXCEPT ![d].pc = "conn"] PROVE Goal(conn'[d])
  BY <1>1, <1>5 DEF Connection
<1>6. \/ conn' = [conn EXCEPT ![d].pc = "undo"]
      \/ \E i : open /\ conn' = [conn EXCEPT ![d].pc = "undo", ![d].stdin = i]
      \/ \E i, o : /\ open
                   /\ conn' = [conn EXCEPT ![d].pc = "conn", ![d].stdin = i, ![d].stdout = o]
      \/ conn' = [conn EXCEPT ![d].pc = "conn"]
  BY Zenon DEF GetStdHandles
<1>7. Goal(conn'[d])
  <2> HIDE DEF Goal
  <2> QED
    BY <1>2, <1>3, <1>4, <1>5, <1>6
<1> QED
  BY <1>1, <1>7

\* dial sets the sockets only together with a process, while the session is
\* open.
LEMMA DialEdge ==
  ASSUME IInv, NEW d \in Dials, EdgeInv(d), DialCall(d) \/ DialStep(d)
  PROVE  EdgeInv(d)'
<1>1. conn[d] \in Connection /\ conn \in [Dials -> Connection]
  BY DEF IInv, TypeOK
<1>2. DialInv(d) /\ SocketInv(d)
  BY DEF IInv
<1>3. UNCHANGED <<open, upc, stray>>
  BY DEF DialCall, DialStep, EnsureBridgeMounted, Spawn, GetStdHandles, UndoSpawn,
         DialUnchanged
<1>4. /\ conn'[d].closeOnce = conn[d].closeOnce /\ conn'[d].writeOnce = conn[d].writeOnce
      /\ conn'[d].reading = conn[d].reading /\ conn'[d].sends = conn[d].sends
      /\ conn[d].pc # "conn"
  <2>1. CASE DialCall(d) \/ EnsureBridgeMounted(d)
    BY <1>1, <2>1 DEF Connection, DialCall, EnsureBridgeMounted
  <2>2. CASE Spawn(d)
    BY <1>1, <2>2 DEF Connection, Spawn
  <2>3. CASE GetStdHandles(d)
    BY <1>1, <2>3, HandlesGot
  <2>4. CASE UndoSpawn(d)
    BY <1>1, <2>4 DEF Connection, UndoSpawn
  <2> QED
    BY <2>1, <2>2, <2>3, <2>4 DEF DialStep
<1>5. /\ conn'[d].process = "nil" /\ conn'[d].pc \in {"handles", "conn"} =>
           ~open /\ conn'[d].stdin = NoHandle /\ conn'[d].stdout = NoHandle
      /\ conn'[d].pc \in {"undo", "failed"} => conn'[d].stdout = NoHandle
  <2>1. CASE DialCall(d) \/ EnsureBridgeMounted(d)
    BY <1>1, <1>2, <2>1 DEF Connection, DialCall, EnsureBridgeMounted, SocketInv
  <2>2. CASE Spawn(d)
    BY <1>1, <1>2, <2>2 DEF Connection, Spawn, SocketInv
  <2>3. CASE GetStdHandles(d)
    <3>1. conn[d].pc = "handles"
      BY <2>3, HandlesGot
    <3>2. conn[d].stdin = NoHandle /\ conn[d].stdout = NoHandle
      BY <1>2, <3>1 DEF SocketInv
    <3>3. conn[d].process = "nil" => ~open
      BY <1>2, <3>1 DEF DialInv
    <3> QED
      BY <2>3, <3>2, <3>3, HandlesGot
  <2>4. CASE UndoSpawn(d)
    <3>1. conn[d].pc = "undo" /\ conn'[d].pc = "failed" /\ conn'[d].stdout = conn[d].stdout
      BY <1>1, <2>4 DEF Connection, UndoSpawn
    <3> QED
      BY <3>1 DEF EdgeInv
  <2> QED
    BY <2>1, <2>2, <2>3, <2>4 DEF DialStep
<1> QED
  BY <1>3, <1>4, <1>5 DEF EdgeInv

\* recv and send reach a foreign socket only once Close has given back the
\* handle they use.
LEMMA IoEdge ==
  ASSUME IInv, NEW d \in Dials, EdgeInv(d), Read(d) \/ Write(d) \/ Recv(d) \/ Send(d)
  PROVE  EdgeInv(d)'
<1>1. conn[d] \in Connection /\ conn \in [Dials -> Connection]
  BY DEF IInv, TypeOK
<1>2. UNCHANGED <<open, upc>>
  BY DEF Read, Write, Recv, Send, IoUnchanged
<1>3. /\ conn'[d].pc = conn[d].pc /\ conn'[d].process = conn[d].process
      /\ conn'[d].stdin = conn[d].stdin /\ conn'[d].stdout = conn[d].stdout
      /\ conn'[d].closeOnce = conn[d].closeOnce /\ conn'[d].writeOnce = conn[d].writeOnce
  BY <1>1 DEF Connection, Read, Write, Recv, Send
<1>4. conn[d].pc = "conn"
  BY DEF Read, Write, Recv, Send, Usable, EdgeInv
<1>5. \/ stray' = stray
      \/ Moved(d, conn[d].stdin) \/ Moved(d, conn[d].stdout)
  BY DEF Read, Write, Recv, Send
<1>6. ASSUME NEW e \in Dials, <<d, e>> \in stray'
      PROVE  conn[d].closeOnce # "new" /\ conn[d].writeOnce = "done"
  <2>1. CASE <<d, e>> \in stray
    BY <2>1 DEF EdgeInv
  <2>2. CASE <<d, e>> \notin stray
    <3>1. PICK h \in {conn[d].stdin, conn[d].stdout} : OwnerOf(h) = e /\ e # d
      BY <1>5, <1>6, <2>2 DEF Moved
    <3>2. h # NoHandle /\ owner[h] # d
      BY <3>1, DialConstants DEF OwnerOf
    <3>3. conn[d].closeOnce = "done" \/ \E u \in Users : upc[d][u] \in {"closeOut", "release"}
      BY <1>4, <3>1, <3>2 DEF IInv, SocketInv
    <3> QED
      BY <3>3 DEF IInv, OnceInv, InClose, PastShut
  <2> QED
    BY <2>1, <2>2
<1> QED
  BY <1>2, <1>3, <1>4, <1>6 DEF EdgeInv

\* Whoever leaves a once ends it.
LEMMA CloseEdge ==
  ASSUME IInv, NEW d \in Dials, EdgeInv(d), NEW u \in Users,
         CallClose(d, u) \/ CloseStep(d, u)
  PROVE  EdgeInv(d)'
<1>1. /\ conn[d] \in Connection /\ conn \in [Dials -> Connection]
      /\ upc \in [Dials -> [Users -> {"idle", "cw", "cwShutdown"} \cup ClosePcs]]
  BY DEF IInv, TypeOK
<1>2. UNCHANGED <<open, stray>>
  BY DEF CallClose, CloseStep, CloseOnce, WriteCloseOnce, ShutdownSocket, CloseSocket,
         ReleaseProcess, CloseUnchanged
<1>3. /\ conn'[d].pc = conn[d].pc /\ conn[d].pc = "conn"
      /\ conn'[d].stdin = conn[d].stdin /\ conn'[d].stdout = conn[d].stdout
      /\ conn'[d].reading = conn[d].reading /\ conn'[d].sends = conn[d].sends
      /\ conn'[d].process = "nil" => conn[d].process = "nil"
  <2>1. conn[d].pc = "conn"
    BY DEF IInv, DialInv, CallClose, CloseStep, CloseOnce, WriteCloseOnce,
           ShutdownSocket, CloseSocket, ReleaseProcess, Goto
  <2> QED
    BY <1>1, <2>1 DEF Connection, CallClose, CloseStep, CloseOnce, WriteCloseOnce,
           ShutdownSocket, CloseSocket, ReleaseProcess, Released
<1>4. /\ conn[d].closeOnce # "new" => conn'[d].closeOnce # "new"
      /\ conn[d].writeOnce = "done" => conn'[d].writeOnce = "done"
  BY <1>1 DEF Connection, CallClose, CloseStep, CloseOnce, WriteCloseOnce,
         ShutdownSocket, CloseSocket, ReleaseProcess
<1>5. /\ \A v \in Users : v # u => upc'[d][v] = upc[d][v]
      /\ upc'[d][u] \in {"idle", "cw", "cwShutdown"} \cup ClosePcs
  BY <1>1 DEF CallClose, CloseStep, CloseOnce, WriteCloseOnce, ShutdownSocket,
         CloseSocket, ReleaseProcess, Goto, ClosePcs
<1>6. ASSUME conn'[d].closeOnce = "running" PROVE \E v \in Users : upc'[d][v] \in InClose
  <2>1. \/ upc'[d][u] \in InClose
        \/ conn[d].closeOnce = "running" /\ upc[d][u] \notin InClose
    BY <1>1, <1>6 DEF Connection, CallClose, CloseStep, CloseOnce, WriteCloseOnce,
           ShutdownSocket, CloseSocket, ReleaseProcess, Goto, InClose
  <2> QED
    BY <1>5, <2>1 DEF EdgeInv
<1>7. ASSUME conn'[d].writeOnce = "running" PROVE \E v \in Users : upc'[d][v] \in InShut
  <2>1. \/ upc'[d][u] \in InShut
        \/ conn[d].writeOnce = "running" /\ upc[d][u] \notin InShut
    BY <1>1, <1>7 DEF Connection, CallClose, CloseStep, CloseOnce, WriteCloseOnce,
           ShutdownSocket, CloseSocket, ReleaseProcess, Goto, InShut
  <2> QED
    BY <1>5, <2>1 DEF EdgeInv
<1> QED
  BY <1>2, <1>3, <1>4, <1>6, <1>7 DEF EdgeInv

LEMMA EdgesStep == IInv /\ EdgesInv /\ [Next]_vars => EdgesInv'
<1> SUFFICES ASSUME IInv, EdgesInv, [Next]_vars PROVE EdgesInv'
  OBVIOUS
<1>1. CASE SessionClose \/ UNCHANGED vars
  <2>1. \A d \in Dials : EdgeInv(d)'
    BY <1>1, EdgeFrame DEF EdgesInv, SessionClose, vars
  <2>2. crashed' => \E d \in Dials : LateConn(d)'
    BY <1>1 DEF EdgesInv, LateConn, SessionClose, vars
  <2> QED
    BY <2>1, <2>2 DEF EdgesInv
<1>2. ASSUME NEW d \in Dials,
             DialCall(d) \/ DialStep(d) \/ Read(d) \/ Recv(d) \/ Write(d) \/ Send(d)
      PROVE  EdgesInv'
  <2>1. EdgeInv(d)'
    BY <1>2, DialEdge, IoEdge DEF EdgesInv
  <2>2. ASSUME NEW e \in Dials, e # d PROVE EdgeInv(e)'
    <3>1. conn'[e] = conn[e] /\ UNCHANGED <<open, upc>>
      BY <1>2, <2>2 DEF IInv, TypeOK, DialCall, DialStep, EnsureBridgeMounted, Spawn,
             GetStdHandles, UndoSpawn, DialUnchanged, Read, Recv, Write, Send, IoUnchanged
    <3>2. \A f \in Dials : <<e, f>> \in stray' => <<e, f>> \in stray
      <4>1. stray' = stray \/ \E h : Moved(d, h)
        BY <1>2 DEF DialCall, DialStep, EnsureBridgeMounted, Spawn, GetStdHandles,
               UndoSpawn, DialUnchanged, Read, Recv, Write, Send
      <4>2. ASSUME NEW f \in Dials, NEW h, Moved(d, h), <<e, f>> \notin stray
            PROVE  <<e, f>> \notin stray'
        BY <2>2, <4>2 DEF Moved
      <4> QED
        BY <4>1, <4>2
    <3> QED
      BY <3>1, <3>2, EdgeFrame DEF EdgesInv
  <2>3. ~crashed'
    BY <1>2 DEF DialCall, DialStep, EnsureBridgeMounted, Spawn, GetStdHandles, UndoSpawn,
           DialUnchanged, Read, Recv, Write, Send, IoUnchanged
  <2> QED
    BY <2>1, <2>2, <2>3 DEF EdgesInv
<1>3. ASSUME NEW d \in Dials, NEW u \in Users, CallClose(d, u) \/ CloseStep(d, u)
      PROVE  EdgesInv'
  <2>1. EdgeInv(d)'
    BY <1>3, CloseEdge DEF EdgesInv
  <2>2. ASSUME NEW e \in Dials, e # d PROVE EdgeInv(e)'
    <3>1. conn'[e] = conn[e] /\ upc'[e] = upc[e] /\ UNCHANGED <<open, stray>>
      BY <1>3, <2>2 DEF IInv, TypeOK, CallClose, CloseStep, CloseOnce, WriteCloseOnce,
             ShutdownSocket, CloseSocket, ReleaseProcess, CloseUnchanged, Goto
    <3> QED
      BY <3>1, EdgeFrame DEF EdgesInv
  <2>3. crashed' => LateConn(d)'
    <3>1. CASE ReleaseProcess(d, u)
      <4>1. conn[d] \in Connection /\ conn \in [Dials -> Connection]
        BY DEF IInv, TypeOK
      <4>2. conn[d].pc = "conn"
        BY <3>1 DEF IInv, DialInv, ReleaseProcess, Goto
      <4>3. conn'[d].pc = conn[d].pc /\ (conn[d].process = "nil" => conn'[d].process = "nil")
        BY <3>1, <4>1 DEF Connection, ReleaseProcess, Released
      <4> QED
        BY <3>1, <4>2, <4>3 DEF LateConn, ReleaseProcess
    <3>2. CASE ~ReleaseProcess(d, u)
      BY <1>3, <3>2 DEF CallClose, CloseStep, CloseOnce, WriteCloseOnce, ShutdownSocket,
             CloseSocket, CloseUnchanged
    <3> QED
      BY <3>1, <3>2
  <2> QED
    BY <2>1, <2>2, <2>3 DEF EdgesInv
<1> QED
  BY <1>1, <1>2, <1>3 DEF Next

\* The edges hold in every state of every behaviour.
LEMMA Edges == Spec => []EdgesInv
<1>1. Init => EdgesInv
  BY DEF Init, EdgesInv, EdgeInv
<1> QED
  BY <1>1, EdgesStep, Invariance, PTL DEF Spec

\* releaseProcess panics only on a connection whose dial was overtaken by
\* Session.Close (session.go:196-243).
THEOREM PanicIsLate == Spec => []PanicNeedsLateConn
<1>1. EdgesInv => PanicNeedsLateConn
  BY DEF EdgesInv, EdgeInv, LateConn, PanicNeedsLateConn
<1> QED
  BY <1>1, Edges, PTL

\* Read and Write of a connection that nobody has closed move its bytes over
\* its own sockets, although they look at no flag (conn.go:35-67).
THEOREM StrayIsAfterClose == Spec => []StrayNeedsClose
<1>1. EdgesInv => StrayNeedsClose
  BY DEF EdgesInv, EdgeInv, StrayNeedsClose
<1> QED
  BY <1>1, Edges, PTL

\* No socket is lost but the stdin of a dial that fails at stdout
\* (session.go:224-234, conn.go:76-87).
THEOREM SocketsAreAccountedFor == Spec => []SocketsAccountedFor
<1>1. IInv /\ EdgesInv => SocketsAccountedFor
  <2> SUFFICES ASSUME IInv, EdgesInv, NEW d \in Dials, NEW h \in Handles, owner[h] = d
               PROVE  \/ /\ conn[d].pc = "conn" /\ conn[d].closeOnce # "done"
                         /\ h \in {conn[d].stdin, conn[d].stdout}
                      \/ conn[d].pc \in {"undo", "failed"} /\ h = conn[d].stdin
    BY DEF SocketsAccountedFor
  <2>1. conn[d] \in Connection
    BY DEF IInv, TypeOK
  <2>2. SocketInv(d) /\ EdgeInv(d)
    BY DEF IInv, EdgesInv
  <2>3. h # NoHandle
    BY DialConstants
  <2> QED
    BY <2>1, <2>2, <2>3 DEF SocketInv, EdgeInv, Connection
<1> QED
  BY <1>1, Edges, Invariance, PTL

\* Two onces, one inside the other, and no deadlock (conn.go:69-87).
THEOREM CloseIsNeverStuck == Spec => []CloseNeverStuck
<1>1. IInv /\ EdgesInv => CloseNeverStuck
  <2> SUFFICES ASSUME IInv, EdgesInv, NEW d \in Dials, NEW u \in Users, upc[d][u] # "idle"
               PROVE  \E v \in Users : CloseMoves(d, v)
    BY DEF CloseNeverStuck
  <2>1. upc[d][u] \in {"idle", "cw", "cwShutdown"} \cup ClosePcs
    BY DEF IInv, TypeOK
  <2>2. EdgeInv(d)
    BY DEF EdgesInv
  <2>3. ASSUME NEW v \in Users, upc[d][v] \in InShut PROVE CloseMoves(d, v)
    BY <2>3 DEF InShut, CloseMoves
  <2>4. ASSUME NEW v \in Users, upc[d][v] \in {"cw", "closeCw"}
        PROVE  \E w \in Users : CloseMoves(d, w)
    BY <2>2, <2>3, <2>4 DEF EdgeInv, CloseMoves
  <2>5. ASSUME NEW v \in Users, upc[d][v] \in InClose
        PROVE  \E w \in Users : CloseMoves(d, w)
    BY <2>4, <2>5 DEF InClose, CloseMoves
  <2> QED
    BY <2>1, <2>2, <2>4, <2>5 DEF EdgeInv, CloseMoves, ClosePcs
<1> QED
  BY <1>1, Edges, Invariance, PTL
=============================================================================
