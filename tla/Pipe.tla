-------------------------------- MODULE Pipe --------------------------------
(***************************************************************************)
(* One direction of a connection, as its two ends see it: bytes arrive in  *)
(* order, none is lost or repeated, and the receiver sees the end of the   *)
(* stream only after the sender has closed it and everything has arrived.  *)
(* Only a pipe that broke may end early.                                   *)
(*                                                                         *)
(* The n-th byte sent is the number n.  Bridge.tla implements one Pipe per *)
(* direction.                                                              *)
(***************************************************************************)
EXTENDS Naturals, Sequences

VARIABLES sent,     \* number of bytes sent
          closed,   \* the sender has closed its side
          got,      \* the bytes received
          eof,      \* the receiver has seen the end of the stream
          broken    \* an end is gone or the relay failed

vars == <<sent, closed, got, eof, broken>>

Init == sent = 0 /\ closed = FALSE /\ got = <<>> /\ eof = FALSE /\ broken = FALSE

Send == /\ ~closed
        /\ sent' = sent + 1
        /\ UNCHANGED <<closed, got, eof, broken>>

Close == /\ closed' = TRUE
         /\ broken' \in {broken, TRUE}
         /\ UNCHANGED <<sent, got, eof>>

Deliver == /\ ~eof /\ Len(got) < sent
           /\ got' = Append(got, Len(got) + 1)
           /\ UNCHANGED <<sent, closed, eof, broken>>

End == /\ broken \/ (closed /\ Len(got) = sent)
       /\ eof' = TRUE
       /\ UNCHANGED <<sent, closed, got, broken>>

Break == broken' = TRUE /\ UNCHANGED <<sent, closed, got, eof>>

Next == Send \/ Close \/ Deliver \/ End \/ Break

Spec == Init /\ [][Next]_vars
=============================================================================
