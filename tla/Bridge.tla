------------------------------- MODULE Bridge -------------------------------
(***************************************************************************)
(* bridgesrc/bridge.c: the relay in the guest between its stdio and one    *)
(* socket, with the guestConn (conn.go) at one end and the target, dockerd *)
(* say, at the other.                                                      *)
(*                                                                         *)
(* flow["up"] is the way from the client over fd 0 to the target,          *)
(* flow["down"] the way back over fd 1.  Each has a bounded queue before   *)
(* the bridge (src) and one after it (dst); the bridge has one buffer and  *)
(* one thread for both.  The n-th byte that a sender sends is the number n.*)
(***************************************************************************)
EXTENDS Naturals, Sequences, FiniteSetsExt

CONSTANTS MaxBytes,   \* bytes that each end sends at most
          Capacity,   \* bytes that a queue of the system holds
          BufSize     \* sizeof(buf)

ASSUME BridgeConstants == /\ MaxBytes \in Nat /\ Capacity \in Nat \ {0}
                          /\ BufSize \in Nat \ {0}

VARIABLES
  flow,      \* flow[f]: the stream in direction f and its two queues
  gone,      \* the ends that have closed their sockets altogether
  pc,        \* the main loop of the bridge
  polled,    \* revents of the last poll
  polling,   \* directions whose fds[i].fd is not -1
  buf,       \* what write_all still has to write
  aborted    \* the relay ended by an error or a signal

vars == <<flow, gone, pc, polled, polling, buf, aborted>>

Dirs == {"up", "down"}
Sender(f)   == IF f = "up" THEN "client" ELSE "target"
Receiver(f) == IF f = "up" THEN "target" ELSE "client"
Writing(f)  == IF f = "up" THEN "upWrite" ELSE "downWrite"
After(f)    == IF f = "up" THEN "down" ELSE "poll"

Bytes == UNION {[1..n -> 1..MaxBytes] : n \in 0..MaxBytes}

TypeOK ==
  /\ flow \in [Dirs -> [sent : 0..MaxBytes, src : Bytes, closed : BOOLEAN,
                        dst : Bytes, shut : BOOLEAN, got : Bytes,
                        eof : BOOLEAN, lost : BOOLEAN]]
  /\ \A f \in Dirs : Len(flow[f].src) <= Capacity /\ Len(flow[f].dst) <= Capacity
  /\ gone \in SUBSET {"client", "target"}
  /\ pc \in {"connect", "poll", "exited"} \cup Dirs \cup {Writing(f) : f \in Dirs}
  /\ polled \in SUBSET Dirs /\ polling \in SUBSET Dirs
  /\ buf \in Bytes /\ Len(buf) <= BufSize
  /\ aborted \in BOOLEAN

Init ==
  /\ flow = [f \in Dirs |-> [sent |-> 0, src |-> <<>>, closed |-> FALSE,
                             dst |-> <<>>, shut |-> FALSE, got |-> <<>>,
                             eof |-> FALSE, lost |-> FALSE]]
  /\ gone = {} /\ pc = "connect"
  /\ polled = {} /\ polling = Dirs /\ buf = <<>> /\ aborted = FALSE

-----------------------------------------------------------------------------
(* The two ends: guestConn and the target *)

EndUnchanged == UNCHANGED <<pc, polled, polling, buf, aborted>>

\* One send of guestConn.Write, or of the target.
Send(f) ==
  /\ ~flow[f].closed /\ pc # "exited"
  /\ flow[f].sent < MaxBytes /\ Len(flow[f].src) < Capacity
  /\ flow' = [flow EXCEPT ![f].sent = @ + 1,
                          ![f].src = Append(@, flow[f].sent + 1)]
  /\ UNCHANGED gone
  /\ EndUnchanged

\* guestConn.CloseWrite, or a shutdown by the target.
CloseWrite(f) ==
  /\ ~flow[f].closed
  /\ flow' = [flow EXCEPT ![f].closed = TRUE]
  /\ UNCHANGED gone
  /\ EndUnchanged

\* guestConn.Read, or a read of the target.
Recv(f) ==
  /\ Receiver(f) \notin gone /\ ~flow[f].eof
  /\ \/ /\ flow[f].dst # <<>>
        /\ flow' = [flow EXCEPT ![f].got = Append(@, Head(flow[f].dst)),
                                ![f].dst = Tail(@)]
     \/ /\ flow[f].dst = <<>> /\ flow[f].shut
        /\ flow' = [flow EXCEPT ![f].eof = TRUE]
  /\ UNCHANGED gone
  /\ EndUnchanged

\* guestConn.Close, or the target going away: what it has not read is dropped,
\* and what it has sent may be lost with it.
EndClose(e) ==
  /\ e \notin gone
  /\ gone' = gone \cup {e}
  /\ \E lost \in BOOLEAN :
       flow' = [f \in Dirs |->
                  IF Sender(f) = e
                  THEN [flow[f] EXCEPT !.closed = TRUE,
                                       !.lost = lost,
                                       !.src = IF lost THEN <<>> ELSE @]
                  ELSE [flow[f] EXCEPT !.dst = <<>>]]
  /\ EndUnchanged

-----------------------------------------------------------------------------
(* The bridge *)

Abort ==
  /\ pc' = "exited" /\ aborted' = TRUE
  /\ flow' = [f \in Dirs |-> [flow[f] EXCEPT !.shut = TRUE]]
  /\ UNCHANGED <<gone, polled, polling, buf>>

\* connect_unix or connect_tcp.
Connect ==
  /\ pc = "connect"
  /\ \/ pc' = "poll" /\ UNCHANGED <<flow, gone, polled, polling, buf, aborted>>
     \/ Abort

Ready == {f \in polling : flow[f].src # <<>> \/ flow[f].closed}

\* revents is a snapshot; poll may also fail for good.
Poll ==
  /\ pc = "poll" /\ polling # {}
  /\ \/ /\ Ready # {}
        /\ polled' = Ready /\ pc' = "up"
        /\ UNCHANGED <<flow, gone, polling, buf, aborted>>
     \/ Abort

Exit ==
  /\ pc = "poll" /\ polling = {}
  /\ pc' = "exited"
  /\ UNCHANGED <<flow, gone, polled, polling, buf, aborted>>

NotReady(f) ==
  /\ pc = f /\ f \notin polled
  /\ pc' = After(f)
  /\ UNCHANGED <<flow, gone, polled, polling, buf, aborted>>

ReadData(f) ==
  /\ pc = f /\ f \in polled /\ flow[f].src # <<>>
  /\ \E n \in 1..Min({BufSize, Len(flow[f].src)}) :
       /\ buf' = SubSeq(flow[f].src, 1, n)
       /\ flow' = [flow EXCEPT ![f].src = SubSeq(@, n + 1, Len(@))]
  /\ pc' = Writing(f)
  /\ UNCHANGED <<gone, polled, polling, aborted>>

\* Mutant: the end of one direction ends the relay.
ReadEofStop(f) ==
  /\ pc = f /\ f \in polled /\ flow[f].src = <<>> /\ flow[f].closed
  /\ flow' = [g \in Dirs |-> [flow[g] EXCEPT !.shut = TRUE]]
  /\ pc' = "exited"
  /\ UNCHANGED <<gone, polled, polling, buf, aborted>>

\* Mutant: the direction is no longer polled, but its output stays open.
ReadEofQuietly(f) ==
  /\ pc = f /\ f \in polled /\ flow[f].src = <<>> /\ flow[f].closed
  /\ polling' = polling \ {f} /\ pc' = After(f)
  /\ UNCHANGED <<flow, gone, polled, buf, aborted>>

\* Mutant: the direction is polled again after its end.
ReadEofAgain(f) ==
  /\ pc = f /\ f \in polled /\ flow[f].src = <<>> /\ flow[f].closed
  /\ flow' = [flow EXCEPT ![f].shut = TRUE]
  /\ pc' = After(f)
  /\ UNCHANGED <<gone, polled, polling, buf, aborted>>

\* End of file or a read error: shutdown(sock, SHUT_WR), respectively close(1).
ReadEof(f) ==
  /\ pc = f /\ f \in polled /\ flow[f].src = <<>> /\ flow[f].closed
  /\ flow' = [flow EXCEPT ![f].shut = TRUE]
  /\ polling' = polling \ {f} /\ pc' = After(f)
  /\ UNCHANGED <<gone, polled, buf, aborted>>

\* Mutant: a short write counts as a whole one.
WriteOnce(f) ==
  /\ pc = Writing(f) /\ Receiver(f) \notin gone
  /\ \E n \in 1..Min({Capacity - Len(flow[f].dst), Len(buf)}) :
       flow' = [flow EXCEPT ![f].dst = @ \o SubSeq(buf, 1, n)]
  /\ buf' = <<>> /\ pc' = After(f)
  /\ UNCHANGED <<gone, polled, polling, aborted>>

\* Mutant: off is not advanced.
WriteAgain(f) ==
  /\ pc = Writing(f) /\ Receiver(f) \notin gone
  /\ \E n \in 1..Min({Capacity - Len(flow[f].dst), Len(buf)}) :
       /\ flow' = [flow EXCEPT ![f].dst = @ \o SubSeq(buf, 1, n)]
       /\ buf' = IF n = Len(buf) THEN <<>> ELSE buf
       /\ pc' = IF n = Len(buf) THEN After(f) ELSE pc
  /\ UNCHANGED <<gone, polled, polling, aborted>>

\* One write of write_all; it blocks while the queue is full.
WriteSome(f) ==
  /\ pc = Writing(f) /\ Receiver(f) \notin gone
  /\ \E n \in 1..Min({Capacity - Len(flow[f].dst), Len(buf)}) :
       /\ flow' = [flow EXCEPT ![f].dst = @ \o SubSeq(buf, 1, n)]
       /\ buf' = SubSeq(buf, n + 1, Len(buf))
       /\ pc' = IF n = Len(buf) THEN After(f) ELSE pc
  /\ UNCHANGED <<gone, polled, polling, aborted>>

\* EPIPE, or the SIGPIPE that comes before it and is not ignored.
WriteFails(f) ==
  /\ pc = Writing(f) /\ Receiver(f) \in gone
  /\ Abort

-----------------------------------------------------------------------------
(* The specification *)

BridgeStep == \/ Connect \/ Poll \/ Exit
              \/ \E f \in Dirs : \/ NotReady(f) \/ ReadData(f) \/ ReadEof(f)
                                 \/ WriteSome(f) \/ WriteFails(f)

Next == \/ BridgeStep
        \/ \E f \in Dirs : Send(f) \/ CloseWrite(f) \/ Recv(f)
        \/ \E e \in {"client", "target"} : EndClose(e)

Spec == Init /\ [][Next]_vars

\* The bridge runs, and an end that reads keeps reading.
FairSpec       == Spec /\ WF_vars(BridgeStep) /\ \A f \in Dirs : WF_vars(Recv(f))
ClientReadSpec == Spec /\ WF_vars(BridgeStep) /\ WF_vars(Recv("down"))

-----------------------------------------------------------------------------
(* Properties *)

Broken(f) == aborted \/ flow[f].lost

Up == INSTANCE Pipe WITH sent <- flow["up"].sent, closed <- flow["up"].closed,
        got <- flow["up"].got, eof <- flow["up"].eof, broken <- Broken("up")

Down == INSTANCE Pipe WITH sent <- flow["down"].sent, closed <- flow["down"].closed,
        got <- flow["down"].got, eof <- flow["down"].eof, broken <- Broken("down")

\* What the target receives is what the client has written, whatever the other
\* direction does meanwhile, and it sees the end after CloseWrite only, with
\* nothing missing (bridge.c:116-123).
UpIsPipe == Up!Spec

\* The client receives the target's bytes in full and then the end, also when
\* it has finished writing long before (bridge.c:116-123).
DownIsPipe == Down!Spec

\* Each end that reads sees the end of the stream once its peer has closed it,
\* even if it never closes its own side (bridge.c:146-157): the hang that
\* close(1) is there for.
EofArrives ==
  \A f \in Dirs : flow[f].closed ~> flow[f].eof \/ Receiver(f) \in gone

\* The process ends when both directions have.
RelayEnds == (\A f \in Dirs : flow[f].closed) ~> pc = "exited"

\* "Closing fd 1 immediately unblocks it, independently of whether stdin still
\* has more to send to the target" (bridge.c:155-157): a client that reads
\* sees the end of what the target has sent, whether or not the target reads.
EofIndependentOfStdin ==
  flow["down"].closed ~> flow["down"].eof \/ "client" \in gone
=============================================================================
