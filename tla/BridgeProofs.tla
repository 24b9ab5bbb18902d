---------------------------- MODULE BridgeProofs ----------------------------
(***************************************************************************)
(* The safety of Bridge for any number of bytes and any sizes of queues    *)
(* and buffer: where the bytes of a stream are, and why each direction is  *)
(* a Pipe.                                                                 *)
(***************************************************************************)
EXTENDS Bridge, SequenceTheorems, TLAPS

\* What write_all still has for direction f.
Pending(f) == IF pc = Writing(f) THEN buf ELSE <<>>

\* Where in the loop the revents of f have not been looked at yet.
Ahead(f) == IF f = "up" THEN {"up", "upWrite"} ELSE {"up", "upWrite", "down"}

\* s is the part of the stream that comes after its first k bytes.
Continues(s, k) == \A i \in 1..Len(s) : s[i] = k + i

\* What the receiver has is the beginning of the stream, and what is on its way
\* to it follows, queue after queue.
Received(sent, src, got) ==
  Continues(got, 0) /\ Len(got) <= sent /\ Len(src) <= sent

Arrived(sent, dst, got) ==
  Continues(dst, Len(got)) /\ Len(got) + Len(dst) <= sent

Relayed(sent, src, pending, dst, got) ==
  /\ Continues(pending, Len(got) + Len(dst))
  /\ Continues(src, Len(got) + Len(dst) + Len(pending))
  /\ Len(got) + Len(dst) + Len(pending) + Len(src) <= sent

Whole(sent, src, pending, dst, got) ==
  Len(got) + Len(dst) + Len(pending) + Len(src) = sent

\* So it is in each direction, until the relay is aborted or the receiver goes;
\* and nothing is missing unless the sender's end took something with it.
StreamInv(f) ==
  LET fl == flow[f]
  IN  /\ Received(fl.sent, fl.src, fl.got)
      /\ Receiver(f) \in gone => fl.dst = <<>>
      /\ Receiver(f) \notin gone => Arrived(fl.sent, fl.dst, fl.got)
      /\ Receiver(f) \notin gone /\ ~aborted =>
           /\ Relayed(fl.sent, fl.src, Pending(f), fl.dst, fl.got)
           /\ ~fl.lost => Whole(fl.sent, fl.src, Pending(f), fl.dst, fl.got)

\* A direction is closed at the other end once it has been drained, and then it
\* is no longer polled.
EndInv(f) ==
  LET fl == flow[f]
  IN  /\ fl.lost => fl.closed /\ Sender(f) \in gone
      /\ ~aborted =>
           /\ f \notin polling => fl.closed /\ fl.src = <<>>
           /\ fl.shut => f \notin polling
           /\ pc = Writing(f) => f \in polling
           /\ pc \in Ahead(f) => (f \in polled => f \in polling)
      /\ aborted => pc = "exited"

IInv == TypeOK /\ \A f \in Dirs : StreamInv(f) /\ EndInv(f)

-----------------------------------------------------------------------------
(* Sequences of bytes *)

LEMMA MinOfTwo ==
  ASSUME NEW a \in Int, NEW b \in Int
  PROVE  Min({a, b}) = IF a <= b THEN a ELSE b
  BY DEF Min

LEMMA BytesAreSeq ==
  ASSUME NEW s
  PROVE  s \in Bytes <=> s \in Seq(1..MaxBytes) /\ Len(s) <= MaxBytes
<1>1. ASSUME s \in Bytes PROVE s \in Seq(1..MaxBytes) /\ Len(s) <= MaxBytes
  <2>1. PICK n \in 0..MaxBytes : s \in [1..n -> 1..MaxBytes]
    BY <1>1 DEF Bytes
  <2>2. s \in Seq(1..MaxBytes) /\ n \in Nat
    BY <2>1, SeqDef, BridgeConstants
  <2>3. Len(s) = n
    BY <2>1, <2>2, LenProperties
  <2> QED
    BY <2>2, <2>3, BridgeConstants
<1>2. ASSUME s \in Seq(1..MaxBytes), Len(s) <= MaxBytes PROVE s \in Bytes
  <2>1. Len(s) \in 0..MaxBytes /\ s \in [1..Len(s) -> 1..MaxBytes]
    BY <1>2, LenProperties, BridgeConstants
  <2> QED
    BY <2>1 DEF Bytes
<1> QED
  BY <1>1, <1>2

LEMMA EmptyBytes == Len(<<>>) = 0 /\ <<>> \in Bytes
<1>1. Len(<<>>) = 0 /\ <<>> \in Seq(1..MaxBytes)
  BY EmptySeq
<1>2. 0 <= MaxBytes
  BY BridgeConstants
<1>3. <<>> \in Bytes
  BY <1>1, <1>2, BytesAreSeq
<1> QED
  BY <1>1, <1>3

\* One byte more at the end.
LEMMA OneMore ==
  ASSUME NEW S, NEW s \in Seq(S), NEW e \in S
  PROVE  /\ Append(s, e) \in Seq(S) /\ Len(Append(s, e)) = Len(s) + 1
         /\ \A k \in Nat : Continues(s, k) /\ e = k + Len(s) + 1 => Continues(Append(s, e), k)
<1>1. Len(s) \in Nat
  BY LenProperties
<1>2. /\ Append(s, e) \in Seq(S) /\ Len(Append(s, e)) = Len(s) + 1
      /\ \A i \in 1..Len(s) : Append(s, e)[i] = s[i]
      /\ Append(s, e)[Len(s) + 1] = e
  BY AppendProperties
<1> QED
  BY <1>1, <1>2 DEF Continues

\* The first byte, and the rest.
LEMMA OneLess ==
  ASSUME NEW S, NEW s \in Seq(S), s # <<>>
  PROVE  /\ Head(s) \in S /\ Tail(s) \in Seq(S)
         /\ Len(s) \in Nat \ {0} /\ Len(Tail(s)) = Len(s) - 1
         /\ \A k \in Nat : Continues(s, k) => Head(s) = k + 1 /\ Continues(Tail(s), k + 1)
<1>1. Len(s) \in Nat \ {0} /\ Head(s) = s[1]
  BY EmptySeq
<1>2. /\ Head(s) \in S /\ Tail(s) \in Seq(S) /\ Len(Tail(s)) = Len(s) - 1
      /\ \A i \in 1..Len(Tail(s)) : Tail(s)[i] = s[i + 1]
  BY HeadTailProperties
<1> QED
  BY <1>1, <1>2 DEF Continues

\* The first n bytes, and the rest.
LEMMA Cut ==
  ASSUME NEW S, NEW s \in Seq(S), NEW n \in 0..Len(s)
  PROVE  /\ SubSeq(s, 1, n) \in Seq(S) /\ Len(SubSeq(s, 1, n)) = n
         /\ SubSeq(s, n + 1, Len(s)) \in Seq(S) /\ Len(SubSeq(s, n + 1, Len(s))) = Len(s) - n
         /\ \A k \in Nat : Continues(s, k) => /\ Continues(SubSeq(s, 1, n), k)
                                              /\ Continues(SubSeq(s, n + 1, Len(s)), k + n)
<1>1. Len(s) \in Nat /\ \A i \in 1..Len(s) : s[i] \in S
  BY LenProperties, ElementOfSeq
<1>2. /\ SubSeq(s, 1, n) \in Seq(S) /\ Len(SubSeq(s, 1, n)) = n
      /\ \A i \in 1..n : SubSeq(s, 1, n)[i] = s[i]
  BY <1>1, SubSeqProperties
<1>3. /\ SubSeq(s, n + 1, Len(s)) \in Seq(S) /\ Len(SubSeq(s, n + 1, Len(s))) = Len(s) - n
      /\ \A i \in 1..(Len(s) - n) : SubSeq(s, n + 1, Len(s))[i] = s[n + i]
  BY <1>1, SubSeqProperties
<1> QED
  BY <1>1, <1>2, <1>3 DEF Continues

\* Two parts of the stream, one after the other.
LEMMA Join ==
  ASSUME NEW S, NEW s \in Seq(S), NEW t \in Seq(S)
  PROVE  /\ s \o t \in Seq(S) /\ Len(s \o t) = Len(s) + Len(t)
         /\ \A k \in Nat : Continues(s, k) /\ Continues(t, k + Len(s)) => Continues(s \o t, k)
<1>1. Len(s) \in Nat /\ Len(t) \in Nat
  BY LenProperties
<1>2. /\ s \o t \in Seq(S) /\ Len(s \o t) = Len(s) + Len(t)
      /\ \A i \in 1..(Len(s) + Len(t)) :
           (s \o t)[i] = IF i <= Len(s) THEN s[i] ELSE t[i - Len(s)]
  BY ConcatProperties
<1>3. ASSUME NEW k \in Nat, Continues(s, k), Continues(t, k + Len(s)),
             NEW i \in 1..(Len(s) + Len(t))
      PROVE  (s \o t)[i] = k + i
  <2>1. CASE i <= Len(s)
    BY <1>1, <1>2, <1>3, <2>1 DEF Continues
  <2>2. CASE i > Len(s)
    <3>1. i - Len(s) \in 1..Len(t)
      BY <1>1, <2>2
    <3>2. t[i - Len(s)] = k + Len(s) + (i - Len(s))
      BY <1>3, <3>1 DEF Continues
    <3> QED
      BY <1>1, <1>2, <2>2, <3>2
  <2> QED
    BY <1>1, <2>1, <2>2
<1> QED
  BY <1>2, <1>3 DEF Continues

-----------------------------------------------------------------------------
(* What each way of moving bytes does to the stream *)

\* A number of bytes, and four queues.
Queues(sent, src, pending, dst, got) ==
  /\ sent \in Nat /\ src \in Seq(1..MaxBytes) /\ pending \in Seq(1..MaxBytes)
  /\ dst \in Seq(1..MaxBytes) /\ got \in Seq(1..MaxBytes)

\* One byte more enters at the sender.
LEMMA BytesEnter ==
  ASSUME NEW sent, NEW src, NEW pending, NEW dst, NEW got,
         Queues(sent, src, pending, dst, got), sent + 1 \in 1..MaxBytes
  PROVE  LET more == Append(src, sent + 1)
         IN  /\ Received(sent, src, got) => Received(sent + 1, more, got)
             /\ Arrived(sent, dst, got) => Arrived(sent + 1, dst, got)
             /\ Relayed(sent, src, pending, dst, got) /\ Whole(sent, src, pending, dst, got)
                  => /\ Relayed(sent + 1, more, pending, dst, got)
                     /\ Whole(sent + 1, more, pending, dst, got)
<1> DEFINE more == Append(src, sent + 1)
<1>1. sent \in Nat /\ Len(src) \in Nat /\ Len(pending) \in Nat /\ Len(dst) \in Nat /\ Len(got) \in Nat
  BY LenProperties DEF Queues
<1>2. /\ Len(more) = Len(src) + 1
      /\ \A k \in Nat : Continues(src, k) /\ sent + 1 = k + Len(src) + 1 => Continues(more, k)
  BY OneMore DEF Queues
<1> HIDE DEF more
<1>3. Received(sent, src, got) => Received(sent + 1, more, got)
  BY <1>1, <1>2 DEF Received
<1>4. Arrived(sent, dst, got) => Arrived(sent + 1, dst, got)
  BY <1>1 DEF Arrived
<1>5. ASSUME Relayed(sent, src, pending, dst, got), Whole(sent, src, pending, dst, got)
      PROVE  /\ Relayed(sent + 1, more, pending, dst, got)
             /\ Whole(sent + 1, more, pending, dst, got)
  <2>1. PICK k \in Nat : k = Len(got) + Len(dst) + Len(pending)
    BY <1>1
  <2>2. Continues(src, k) /\ k + Len(src) = sent
    BY <1>5, <2>1 DEF Relayed, Whole
  <2>3. Continues(more, k) /\ k + Len(more) = sent + 1
    BY <1>1, <1>2, <2>2
  <2> QED
    BY <1>1, <1>5, <2>1, <2>3 DEF Relayed, Whole
<1> QED
  BY <1>3, <1>4, <1>5 DEF more

\* One byte leaves the queue of the receiver, and the receiver has it.
LEMMA ByteArrives ==
  ASSUME NEW sent, NEW src, NEW pending, NEW dst, NEW got,
         Queues(sent, src, pending, dst, got), dst # <<>>, Arrived(sent, dst, got)
  PROVE  LET all == Append(got, Head(dst))
         IN  /\ Head(dst) = Len(got) + 1 /\ Len(got) < sent
             /\ Received(sent, src, got) => Received(sent, src, all)
             /\ Arrived(sent, Tail(dst), all)
             /\ Relayed(sent, src, pending, dst, got)
                  => Relayed(sent, src, pending, Tail(dst), all)
             /\ Whole(sent, src, pending, dst, got)
                  => Whole(sent, src, pending, Tail(dst), all)
<1> DEFINE first == Head(dst)
           rest == Tail(dst)
           all == Append(got, first)
<1>1. sent \in Nat /\ Len(src) \in Nat /\ Len(pending) \in Nat /\ Len(dst) \in Nat /\ Len(got) \in Nat
  BY LenProperties DEF Queues
<1>2. /\ first \in 1..MaxBytes /\ Len(dst) \in Nat \ {0} /\ Len(rest) = Len(dst) - 1
      /\ \A k \in Nat : Continues(dst, k) => first = k + 1 /\ Continues(rest, k + 1)
  BY OneLess DEF Queues
<1>3. /\ Len(all) = Len(got) + 1
      /\ \A k \in Nat : Continues(got, k) /\ first = k + Len(got) + 1 => Continues(all, k)
  BY <1>2, OneMore DEF Queues
<1> HIDE DEF first, rest, all
<1>4. first = Len(got) + 1 /\ Continues(rest, Len(got) + 1) /\ Len(got) < sent
  BY <1>1, <1>2 DEF Arrived
<1>5. Received(sent, src, got) => Received(sent, src, all)
  BY <1>1, <1>3, <1>4 DEF Received
<1>6. Arrived(sent, rest, all)
  BY <1>1, <1>2, <1>3, <1>4 DEF Arrived
<1>7. Len(all) + Len(rest) = Len(got) + Len(dst)
  BY <1>1, <1>2, <1>3
<1>8. /\ Relayed(sent, src, pending, dst, got) => Relayed(sent, src, pending, rest, all)
      /\ Whole(sent, src, pending, dst, got) => Whole(sent, src, pending, rest, all)
  BY <1>7 DEF Relayed, Whole
<1> QED
  BY <1>4, <1>5, <1>6, <1>8 DEF first, rest, all

\* The relay takes n bytes out of the queue of the sender.
LEMMA BytesRead ==
  ASSUME NEW sent, NEW src, NEW dst, NEW got,
         Queues(sent, src, <<>>, dst, got), NEW n \in 0..Len(src)
  PROVE  LET taken == SubSeq(src, 1, n)
             left == SubSeq(src, n + 1, Len(src))
         IN  /\ Received(sent, src, got) => Received(sent, left, got)
             /\ Relayed(sent, src, <<>>, dst, got) => Relayed(sent, left, taken, dst, got)
             /\ Whole(sent, src, <<>>, dst, got) => Whole(sent, left, taken, dst, got)
<1> DEFINE taken == SubSeq(src, 1, n)
           left == SubSeq(src, n + 1, Len(src))
<1>1. sent \in Nat /\ Len(src) \in Nat /\ Len(dst) \in Nat /\ Len(got) \in Nat /\ Len(<<>>) = 0
  BY LenProperties, EmptySeq DEF Queues
<1>2. /\ Len(taken) = n /\ Len(left) = Len(src) - n
      /\ \A k \in Nat : Continues(src, k) => Continues(taken, k) /\ Continues(left, k + n)
  BY Cut DEF Queues
<1> HIDE DEF taken, left
<1>3. Received(sent, src, got) => Received(sent, left, got)
  BY <1>1, <1>2 DEF Received
<1>4. PICK k \in Nat : k = Len(got) + Len(dst)
  BY <1>1
<1>5. Relayed(sent, src, <<>>, dst, got) => Relayed(sent, left, taken, dst, got)
  <2>1. ASSUME Relayed(sent, src, <<>>, dst, got)
        PROVE  Continues(src, k) /\ k + Len(src) <= sent
    BY <1>1, <1>4, <2>1 DEF Relayed
  <2>2. Continues(src, k) => Continues(taken, k) /\ Continues(left, k + n)
    BY <1>2, <1>4
  <2> QED
    BY <1>1, <1>2, <1>4, <2>1, <2>2 DEF Relayed
<1>6. Whole(sent, src, <<>>, dst, got) => Whole(sent, left, taken, dst, got)
  <2>1. n \in Nat /\ k + 0 + Len(src) = k + n + Len(left)
    BY <1>1, <1>2
  <2>2. Len(got) + Len(dst) + Len(taken) = k + n /\ Len(got) + Len(dst) + Len(<<>>) = k + 0
    BY <1>1, <1>2, <1>4
  <2> QED
    BY <2>1, <2>2 DEF Whole
<1> QED
  BY <1>3, <1>5, <1>6 DEF taken, left

\* The relay puts n bytes of its buffer into the queue of the receiver.
LEMMA BytesWritten ==
  ASSUME NEW sent, NEW src, NEW pending, NEW dst, NEW got,
         Queues(sent, src, pending, dst, got), NEW n \in 0..Len(pending),
         Arrived(sent, dst, got), Relayed(sent, src, pending, dst, got)
  PROVE  LET more == dst \o SubSeq(pending, 1, n)
             left == SubSeq(pending, n + 1, Len(pending))
         IN  /\ Arrived(sent, more, got) /\ Relayed(sent, src, left, more, got)
             /\ Whole(sent, src, pending, dst, got) => Whole(sent, src, left, more, got)
<1> DEFINE part == SubSeq(pending, 1, n)
           left == SubSeq(pending, n + 1, Len(pending))
           more == dst \o part
<1>1. sent \in Nat /\ Len(src) \in Nat /\ Len(pending) \in Nat /\ Len(dst) \in Nat /\ Len(got) \in Nat
  BY LenProperties DEF Queues
<1>2. /\ part \in Seq(1..MaxBytes) /\ Len(part) = n /\ Len(left) = Len(pending) - n
      /\ \A k \in Nat : Continues(pending, k) => Continues(part, k) /\ Continues(left, k + n)
  <2> DEFINE S == 1..MaxBytes
  <2>1. pending \in Seq(S)
    BY DEF Queues
  <2> HIDE DEF S
  <2>2. /\ part \in Seq(S) /\ Len(part) = n /\ Len(left) = Len(pending) - n
        /\ \A k \in Nat : Continues(pending, k) => Continues(part, k) /\ Continues(left, k + n)
    BY <2>1, Cut
  <2> QED
    BY <2>2 DEF S
<1>3. /\ Len(more) = Len(dst) + Len(part)
      /\ \A k \in Nat : Continues(dst, k) /\ Continues(part, k + Len(dst)) => Continues(more, k)
  BY <1>2, Join DEF Queues
<1> HIDE DEF part, left, more
<1>4. PICK k \in Nat : k = Len(got) + Len(dst)
  BY <1>1
<1>5. /\ Continues(dst, Len(got)) /\ Continues(pending, k)
      /\ Continues(src, k + Len(pending)) /\ k + Len(pending) + Len(src) <= sent
  BY <1>4 DEF Arrived, Relayed
<1>6. Continues(part, k) /\ Continues(left, k + n)
  BY <1>2, <1>5
<1>7. Continues(more, Len(got))
  BY <1>1, <1>3, <1>4, <1>5, <1>6
<1>8. Len(got) + Len(more) = k + n /\ k + n + Len(left) = k + Len(pending)
  BY <1>1, <1>2, <1>3, <1>4
<1>9. Arrived(sent, more, got)
  BY <1>1, <1>2, <1>5, <1>7, <1>8 DEF Arrived
<1>10. Relayed(sent, src, left, more, got)
  BY <1>5, <1>6, <1>8 DEF Relayed
<1>11. Whole(sent, src, pending, dst, got) => Whole(sent, src, left, more, got)
  BY <1>4, <1>8 DEF Whole
<1> QED
  BY <1>9, <1>10, <1>11 DEF part, left, more

\* What is in the queue of the sender is dropped.
LEMMA BytesDropped ==
  ASSUME NEW sent, NEW src, NEW pending, NEW dst, NEW got,
         Queues(sent, src, pending, dst, got)
  PROVE  /\ Received(sent, src, got) => Received(sent, <<>>, got)
         /\ Relayed(sent, src, pending, dst, got) => Relayed(sent, <<>>, pending, dst, got)
<1>1. sent \in Nat /\ Len(src) \in Nat /\ Len(pending) \in Nat /\ Len(dst) \in Nat /\ Len(got) \in Nat
  BY LenProperties DEF Queues
<1>2. Len(<<>>) = 0 /\ \A k \in Nat : Continues(<<>>, k)
  BY EmptySeq DEF Continues
<1>3. Received(sent, src, got) => Received(sent, <<>>, got)
  BY <1>1, <1>2 DEF Received
<1>4. PICK k \in Nat : k = Len(got) + Len(dst) + Len(pending)
  BY <1>1
<1>5. Relayed(sent, src, pending, dst, got) => Relayed(sent, <<>>, pending, dst, got)
  BY <1>1, <1>2, <1>4 DEF Relayed
<1> QED
  BY <1>3, <1>5

-----------------------------------------------------------------------------
(* IInv is inductive: the two ends *)

FlowType == [sent : 0..MaxBytes, src : Bytes, closed : BOOLEAN, dst : Bytes,
             shut : BOOLEAN, got : Bytes, eof : BOOLEAN, lost : BOOLEAN]

LEMMA Directions ==
  ASSUME NEW f \in Dirs
  PROVE  /\ f = "up" \/ f = "down"
         /\ Writing(f) \in {"upWrite", "downWrite"}
         /\ \A g \in Dirs : Writing(g) = Writing(f) => g = f
         /\ Receiver(f) \in {"client", "target"} /\ Sender(f) \in {"client", "target"}
         /\ Sender(f) # Receiver(f)
  BY DEF Dirs, Writing, Receiver, Sender

LEMMA InitIInv == Init => IInv
<1> SUFFICES ASSUME Init PROVE IInv
  OBVIOUS
<1>1. Len(<<>>) = 0 /\ <<>> \in Bytes
  BY EmptyBytes
<1>2. TypeOK
  <2>1. flow \in [Dirs -> FlowType]
    BY <1>1, BridgeConstants DEF Init, FlowType
  <2>2. \A f \in Dirs : Len(flow[f].src) <= Capacity /\ Len(flow[f].dst) <= Capacity
    <3>1. \A f \in Dirs : flow[f].src = <<>> /\ flow[f].dst = <<>>
      BY DEF Init
    <3>2. 0 <= Capacity
      BY BridgeConstants
    <3> QED
      BY <1>1, <3>1, <3>2
  <2>3. Len(buf) <= BufSize /\ buf \in Bytes
    BY <1>1, BridgeConstants DEF Init
  <2> QED
    BY <2>1, <2>2, <2>3 DEF Init, TypeOK, FlowType
<1>3. ASSUME NEW f \in Dirs PROVE StreamInv(f) /\ EndInv(f)
  <2>1. /\ flow[f].sent = 0 /\ flow[f].src = <<>> /\ flow[f].dst = <<>> /\ flow[f].got = <<>>
        /\ ~flow[f].lost /\ ~flow[f].shut /\ ~flow[f].closed
    BY DEF Init
  <2>2. pc = "connect" /\ polled = {} /\ f \in polling /\ ~aborted
    BY DEF Init
  <2>3. Pending(f) = <<>>
    BY <2>2, Directions DEF Pending
  <2>4. StreamInv(f)
    BY <1>1, <2>1, <2>3 DEF StreamInv, Received, Arrived, Relayed, Whole, Continues
  <2>5. EndInv(f)
    BY <2>1, <2>2, Directions DEF EndInv
  <2> QED
    BY <2>4, <2>5
<1> QED
  BY <1>2, <1>3 DEF IInv

\* The queues of a direction as sequences and their lengths as numbers.
LEMMA Shape ==
  ASSUME TypeOK, NEW f \in Dirs
  PROVE  /\ flow[f].src \in Seq(1..MaxBytes) /\ Len(flow[f].src) \in 0..MaxBytes
         /\ flow[f].dst \in Seq(1..MaxBytes) /\ Len(flow[f].dst) \in 0..MaxBytes
         /\ flow[f].got \in Seq(1..MaxBytes) /\ Len(flow[f].got) \in 0..MaxBytes
         /\ Pending(f) \in Seq(1..MaxBytes) /\ Len(Pending(f)) \in 0..MaxBytes
         /\ buf \in Seq(1..MaxBytes) /\ Len(buf) \in 0..MaxBytes
         /\ flow[f].sent \in 0..MaxBytes /\ MaxBytes \in Nat /\ Capacity \in Nat
         /\ Len(flow[f].src) <= Capacity /\ Len(flow[f].dst) <= Capacity
<1>1. flow[f].src \in Bytes /\ flow[f].dst \in Bytes /\ flow[f].got \in Bytes /\ buf \in Bytes
  BY DEF TypeOK
<1>2. <<>> \in Seq(1..MaxBytes) /\ Len(<<>>) = 0
  BY EmptySeq
<1>3. ASSUME NEW s \in Bytes PROVE s \in Seq(1..MaxBytes) /\ Len(s) \in 0..MaxBytes
  BY <1>3, BytesAreSeq, LenProperties, BridgeConstants
<1>4. Pending(f) \in Seq(1..MaxBytes) /\ Len(Pending(f)) \in 0..MaxBytes
  <2>1. CASE pc = Writing(f)
    BY <1>1, <1>3, <2>1 DEF Pending
  <2>2. CASE pc # Writing(f)
    BY <1>2, <2>2, BridgeConstants DEF Pending
  <2> QED
    BY <2>1, <2>2
<1>5. flow[f].sent \in 0..MaxBytes /\ MaxBytes \in Nat /\ Capacity \in Nat
  BY BridgeConstants DEF TypeOK
<1>6. Len(flow[f].src) <= Capacity /\ Len(flow[f].dst) <= Capacity
  BY DEF TypeOK
<1> QED
  BY <1>1, <1>3, <1>4, <1>5, <1>6

\* What one end does in one direction leaves the other alone.
LEMMA OneEnd ==
  ASSUME IInv, EndUnchanged, UNCHANGED gone, NEW f \in Dirs,
         TypeOK', StreamInv(f)', EndInv(f)', \A g \in Dirs \ {f} : flow'[g] = flow[g]
  PROVE  IInv'
<1>1. ASSUME NEW g \in Dirs \ {f} PROVE StreamInv(g)' /\ EndInv(g)'
  <2>1. StreamInv(g) /\ EndInv(g) /\ flow'[g] = flow[g]
    BY DEF IInv
  <2> QED
    BY <2>1 DEF StreamInv, EndInv, Pending, EndUnchanged
<1> QED
  BY <1>1 DEF IInv

\* A step of one end in direction f, whose state becomes new.
LEMMA EndStep ==
  ASSUME IInv, EndUnchanged, UNCHANGED gone, NEW f \in Dirs, NEW new \in FlowType,
         flow' = [flow EXCEPT ![f] = new],
         Len(new.src) <= Capacity, Len(new.dst) <= Capacity,
         StreamInv(f)', EndInv(f)'
  PROVE  IInv'
<1>1. TypeOK
  BY DEF IInv
<1>2. /\ flow' \in [Dirs -> FlowType] /\ flow'[f] = new
      /\ \A g \in Dirs \ {f} : flow'[g] = flow[g]
  BY <1>1 DEF TypeOK, FlowType
<1>3. ASSUME NEW g \in Dirs
      PROVE  Len(flow'[g].src) <= Capacity /\ Len(flow'[g].dst) <= Capacity
  BY <1>1, <1>2 DEF TypeOK
<1>4. TypeOK'
  BY <1>1, <1>2, <1>3 DEF TypeOK, EndUnchanged, FlowType
<1> QED
  BY <1>2, <1>4, OneEnd

LEMMA SendKeeps == ASSUME IInv, NEW f \in Dirs, Send(f) PROVE IInv'
<1> DEFINE fl == flow[f]
           more == Append(fl.src, fl.sent + 1)
           new == [fl EXCEPT !.sent = fl.sent + 1, !.src = more]
<1>1. /\ ~fl.closed /\ fl.sent < MaxBytes /\ Len(fl.src) < Capacity
      /\ UNCHANGED gone /\ EndUnchanged
  BY DEF Send
<1>2. TypeOK /\ StreamInv(f) /\ EndInv(f)
  BY DEF IInv
<1>3. fl \in FlowType /\ flow' = [flow EXCEPT ![f] = new] /\ flow'[f] = new
  BY <1>2 DEF Send, TypeOK, FlowType
<1>4. /\ fl.src \in Seq(1..MaxBytes) /\ fl.dst \in Seq(1..MaxBytes)
      /\ fl.got \in Seq(1..MaxBytes) /\ Pending(f) \in Seq(1..MaxBytes)
      /\ fl.sent \in Nat /\ Len(fl.src) \in Nat /\ Len(fl.dst) <= Capacity
      /\ MaxBytes \in Nat /\ Capacity \in Nat
  BY <1>2, Shape
<1>5. fl.sent + 1 \in 1..MaxBytes
  BY <1>1, <1>4
<1>6. /\ more \in Seq(1..MaxBytes) /\ Len(more) = Len(fl.src) + 1
      /\ Received(fl.sent, fl.src, fl.got) => Received(fl.sent + 1, more, fl.got)
      /\ Arrived(fl.sent, fl.dst, fl.got) => Arrived(fl.sent + 1, fl.dst, fl.got)
      /\ /\ Relayed(fl.sent, fl.src, Pending(f), fl.dst, fl.got)
         /\ Whole(fl.sent, fl.src, Pending(f), fl.dst, fl.got)
         => /\ Relayed(fl.sent + 1, more, Pending(f), fl.dst, fl.got)
            /\ Whole(fl.sent + 1, more, Pending(f), fl.dst, fl.got)
  <2>1. Queues(fl.sent, fl.src, Pending(f), fl.dst, fl.got)
    BY <1>4 DEF Queues
  <2>2. more \in Seq(1..MaxBytes) /\ Len(more) = Len(fl.src) + 1
    BY <1>4, <1>5, OneMore
  <2> QED
    BY <1>5, <2>1, <2>2, BytesEnter
<1> HIDE DEF more
<1>7. more \in Bytes /\ Len(more) <= Capacity
  <2>1. Len(fl.src) <= fl.sent
    BY <1>2 DEF StreamInv, Received
  <2> DEFINE before == Len(fl.src)
             after == Len(more)
             total == fl.sent
  <2>2. before \in Nat /\ after = before + 1 /\ total \in Nat /\ MaxBytes \in Nat /\ Capacity \in Nat
        /\ before <= total /\ total < MaxBytes /\ before < Capacity
    BY <1>1, <1>4, <1>6, <2>1
  <2> HIDE DEF before, after, total
  <2>3. after <= MaxBytes /\ after <= Capacity
    BY <2>2
  <2> QED
    BY <1>6, <2>3, BytesAreSeq DEF after
<1>8. new \in FlowType
  <2> DEFINE b == fl.sent + 1
             upTo == 0..MaxBytes
  <2>1. b \in upTo /\ upTo = 0..MaxBytes
    BY <1>4, <1>5
  <2> HIDE DEF b, upTo
  <2>2. [fl EXCEPT !.sent = b, !.src = more] \in FlowType
    BY <1>3, <1>7, <2>1 DEF FlowType
  <2> QED
    BY <2>2 DEF b
<1>9. /\ new.got = fl.got /\ new.dst = fl.dst /\ new.sent = fl.sent + 1 /\ new.src = more
      /\ new.lost = fl.lost /\ new.closed = fl.closed /\ new.shut = fl.shut
  BY <1>3 DEF FlowType
<1>10. Pending(f)' = Pending(f) /\ gone' = gone /\ aborted' = aborted
  BY <1>1 DEF Pending, EndUnchanged
<1>11. ~fl.lost
  BY <1>1, <1>2 DEF EndInv
<1> HIDE DEF new
<1>12. EndInv(f)'
  BY <1>1, <1>2, <1>3, <1>9 DEF EndInv, EndUnchanged
<1>13. StreamInv(f)'
  BY <1>2, <1>3, <1>6, <1>9, <1>10, <1>11 DEF StreamInv
<1> QED
  BY <1>1, <1>3, <1>4, <1>7, <1>8, <1>9, <1>12, <1>13, EndStep

LEMMA CloseWriteKeeps == ASSUME IInv, NEW f \in Dirs, CloseWrite(f) PROVE IInv'
<1> DEFINE fl == flow[f]
           new == [fl EXCEPT !.closed = TRUE]
<1>1. TypeOK /\ StreamInv(f) /\ EndInv(f) /\ UNCHANGED gone /\ EndUnchanged
  BY DEF IInv, CloseWrite
<1>2. fl \in FlowType /\ flow' = [flow EXCEPT ![f] = new] /\ flow'[f] = new
  BY <1>1 DEF CloseWrite, TypeOK, FlowType
<1>3. /\ new \in FlowType /\ new.closed
      /\ new.got = fl.got /\ new.dst = fl.dst /\ new.sent = fl.sent /\ new.src = fl.src
      /\ new.lost = fl.lost /\ new.shut = fl.shut
  BY <1>2 DEF FlowType
<1>4. Pending(f)' = Pending(f) /\ gone' = gone /\ aborted' = aborted
  BY <1>1 DEF Pending, EndUnchanged
<1>5. Len(fl.src) <= Capacity /\ Len(fl.dst) <= Capacity
  BY <1>1, Shape
<1> HIDE DEF new
<1>6. EndInv(f)'
  BY <1>1, <1>2, <1>3 DEF EndInv, EndUnchanged
<1>7. StreamInv(f)'
  BY <1>1, <1>2, <1>3, <1>4 DEF StreamInv
<1> QED
  BY <1>1, <1>2, <1>3, <1>5, <1>6, <1>7, EndStep

LEMMA RecvKeeps == ASSUME IInv, NEW f \in Dirs, Recv(f) PROVE IInv'
<1> DEFINE fl == flow[f]
<1>1. TypeOK /\ StreamInv(f) /\ EndInv(f) /\ UNCHANGED gone /\ EndUnchanged
  BY DEF IInv, Recv
<1>2. /\ fl.src \in Seq(1..MaxBytes) /\ fl.dst \in Seq(1..MaxBytes)
      /\ fl.got \in Seq(1..MaxBytes) /\ Pending(f) \in Seq(1..MaxBytes)
      /\ fl.sent \in 0..MaxBytes /\ fl.sent \in Nat /\ Len(fl.src) <= Capacity
      /\ Len(fl.got) \in Nat /\ MaxBytes \in Nat /\ Capacity \in Nat /\ Len(fl.dst) <= Capacity
  BY <1>1, Shape
<1>3. Pending(f)' = Pending(f) /\ gone' = gone /\ aborted' = aborted
  BY <1>1 DEF Pending, EndUnchanged
<1>4. fl \in FlowType /\ Receiver(f) \notin gone
  BY <1>1 DEF Recv, TypeOK, FlowType
<1>5. CASE /\ fl.dst # <<>>
           /\ flow' = [flow EXCEPT ![f].got = Append(@, Head(flow[f].dst)), ![f].dst = Tail(@)]
  <2> DEFINE all == Append(fl.got, Head(fl.dst))
             rest == Tail(fl.dst)
             new == [fl EXCEPT !.got = all, !.dst = rest]
  <2>1. flow' = [flow EXCEPT ![f] = new] /\ flow'[f] = new
    BY <1>1, <1>5 DEF TypeOK, FlowType
  <2>2. Arrived(fl.sent, fl.dst, fl.got)
    BY <1>1, <1>4 DEF StreamInv
  <2>3. /\ Len(fl.got) < fl.sent
        /\ Received(fl.sent, fl.src, fl.got) => Received(fl.sent, fl.src, all)
        /\ Arrived(fl.sent, rest, all)
        /\ Relayed(fl.sent, fl.src, Pending(f), fl.dst, fl.got)
             => Relayed(fl.sent, fl.src, Pending(f), rest, all)
        /\ Whole(fl.sent, fl.src, Pending(f), fl.dst, fl.got)
             => Whole(fl.sent, fl.src, Pending(f), rest, all)
    <3>1. Queues(fl.sent, fl.src, Pending(f), fl.dst, fl.got)
      BY <1>2 DEF Queues
    <3> QED
      BY <1>5, <2>2, <3>1, ByteArrives
  <2>4. /\ rest \in Seq(1..MaxBytes) /\ Len(rest) = Len(fl.dst) - 1 /\ Len(fl.dst) \in Nat
        /\ Head(fl.dst) \in 1..MaxBytes
    BY <1>2, <1>5, OneLess
  <2>5. all \in Seq(1..MaxBytes) /\ Len(all) = Len(fl.got) + 1
    BY <1>2, <2>4, OneMore
  <2> HIDE DEF all, rest
  <2>6. rest \in Bytes /\ all \in Bytes /\ Len(rest) <= Capacity
    <3>1. Len(fl.dst) <= MaxBytes
      BY <1>1, Shape
    <3> DEFINE before == Len(fl.dst)
               after == Len(rest)
               had == Len(fl.got)
               has == Len(all)
               total == fl.sent
    <3>2. /\ before \in Nat /\ before <= MaxBytes /\ before <= Capacity /\ after = before - 1
          /\ had \in Nat /\ has = had + 1 /\ total \in 0..MaxBytes /\ had < total
          /\ MaxBytes \in Nat /\ Capacity \in Nat
      BY <1>2, <2>3, <2>4, <2>5, <3>1
    <3> HIDE DEF before, after, had, has, total
    <3>3. after <= MaxBytes /\ has <= MaxBytes /\ after <= Capacity
      BY <3>2
    <3> QED
      BY <2>4, <2>5, <3>3, BytesAreSeq DEF after, has
  <2>7. /\ new \in FlowType
        /\ new.got = all /\ new.dst = rest /\ new.sent = fl.sent /\ new.src = fl.src
        /\ new.lost = fl.lost /\ new.shut = fl.shut /\ new.closed = fl.closed
    BY <1>4, <2>6 DEF FlowType
  <2> HIDE DEF new
  <2>8. EndInv(f)'
    BY <1>1, <2>1, <2>7 DEF EndInv, EndUnchanged
  <2>9. StreamInv(f)'
    BY <1>1, <1>3, <1>4, <2>1, <2>3, <2>7 DEF StreamInv
  <2> QED
    BY <1>1, <1>2, <2>1, <2>6, <2>7, <2>8, <2>9, EndStep
<1>6. CASE flow' = [flow EXCEPT ![f].eof = TRUE]
  <2> DEFINE new == [fl EXCEPT !.eof = TRUE]
  <2>1. flow' = [flow EXCEPT ![f] = new] /\ flow'[f] = new
    BY <1>1, <1>6 DEF TypeOK, FlowType
  <2>2. /\ new \in FlowType
        /\ new.got = fl.got /\ new.dst = fl.dst /\ new.sent = fl.sent /\ new.src = fl.src
        /\ new.lost = fl.lost /\ new.shut = fl.shut /\ new.closed = fl.closed
    BY <1>4 DEF FlowType
  <2> HIDE DEF new
  <2>3. EndInv(f)'
    BY <1>1, <2>1, <2>2 DEF EndInv, EndUnchanged
  <2>4. StreamInv(f)'
    BY <1>1, <1>3, <2>1, <2>2 DEF StreamInv
  <2> QED
    BY <1>1, <1>2, <2>1, <2>2, <2>3, <2>4, EndStep
<1> QED
  BY <1>5, <1>6 DEF Recv

LEMMA EndCloseKeeps == ASSUME IInv, NEW e \in {"client", "target"}, EndClose(e) PROVE IInv'
<1>1. e \notin gone /\ gone' = gone \cup {e} /\ EndUnchanged /\ TypeOK
  BY DEF EndClose, IInv
<1>2. PICK lost \in BOOLEAN :
        flow' = [f \in Dirs |->
                   IF Sender(f) = e
                   THEN [flow[f] EXCEPT !.closed = TRUE, !.lost = lost,
                                        !.src = IF lost THEN <<>> ELSE @]
                   ELSE [flow[f] EXCEPT !.dst = <<>>]]
  BY DEF EndClose
<1>3. Len(<<>>) = 0 /\ <<>> \in Bytes
  BY EmptyBytes
<1>4. \A f \in Dirs : Pending(f)' = Pending(f)
  BY <1>1 DEF Pending, EndUnchanged
<1>5. ASSUME NEW f \in Dirs
      PROVE  /\ flow'[f] \in FlowType
             /\ Len(flow'[f].src) <= Capacity /\ Len(flow'[f].dst) <= Capacity
             /\ StreamInv(f)' /\ EndInv(f)'
  <2> DEFINE fl == flow[f]
  <2>1. fl \in FlowType /\ StreamInv(f) /\ EndInv(f)
    BY <1>1, <1>5 DEF IInv, TypeOK, FlowType
  <2>2. /\ fl.src \in Seq(1..MaxBytes) /\ fl.dst \in Seq(1..MaxBytes)
        /\ fl.got \in Seq(1..MaxBytes) /\ Pending(f) \in Seq(1..MaxBytes) /\ fl.sent \in Nat
        /\ Len(fl.src) <= Capacity /\ Len(fl.dst) <= Capacity /\ 0 <= Capacity
    BY <1>1, Shape, BridgeConstants
  <2>3. CASE Sender(f) = e
    <3> DEFINE new == flow'[f]
    <3>1. new = [fl EXCEPT !.closed = TRUE, !.lost = lost, !.src = IF lost THEN <<>> ELSE @]
      BY <1>2, <2>3
    <3>2. /\ new.got = fl.got /\ new.dst = fl.dst /\ new.sent = fl.sent /\ new.lost = lost
          /\ new.src = IF lost THEN <<>> ELSE fl.src
          /\ new.shut = fl.shut /\ new.closed /\ new \in FlowType
      BY <1>3, <2>1, <3>1 DEF FlowType
    <3> HIDE DEF new
    <3>3. Receiver(f) \in gone' <=> Receiver(f) \in gone
      BY <1>1, <2>3, Directions
    <3>4. /\ Received(fl.sent, fl.src, fl.got) => Received(fl.sent, <<>>, fl.got)
          /\ Relayed(fl.sent, fl.src, Pending(f), fl.dst, fl.got)
               => Relayed(fl.sent, <<>>, Pending(f), fl.dst, fl.got)
      <4>1. Queues(fl.sent, fl.src, Pending(f), fl.dst, fl.got)
        BY <2>2 DEF Queues
      <4> QED
        BY <4>1, BytesDropped
    <3>5. ~fl.lost
      BY <1>1, <2>1, <2>3 DEF EndInv
    <3>6. StreamInv(f)'
      BY <1>1, <1>4, <2>1, <3>2, <3>3, <3>4, <3>5 DEF StreamInv, new, EndUnchanged
    <3>7. EndInv(f)'
      BY <1>1, <2>1, <2>3, <3>2 DEF EndInv, new, EndUnchanged
    <3> QED
      BY <1>3, <2>2, <3>2, <3>6, <3>7 DEF new
  <2>4. CASE Sender(f) # e
    <3> DEFINE new == flow'[f]
    <3>1. new = [fl EXCEPT !.dst = <<>>]
      BY <1>2, <2>4
    <3>2. /\ new.got = fl.got /\ new.dst = <<>> /\ new.sent = fl.sent /\ new.lost = fl.lost
          /\ new.src = fl.src /\ new.shut = fl.shut /\ new.closed = fl.closed /\ new \in FlowType
      BY <1>3, <2>1, <3>1 DEF FlowType
    <3> HIDE DEF new
    <3>3. Receiver(f) \in gone'
      BY <1>1, <2>4 DEF Sender, Receiver
    <3>4. StreamInv(f)'
      BY <2>1, <3>2, <3>3 DEF StreamInv, new
    <3>5. EndInv(f)'
      BY <1>1, <2>1, <3>2 DEF EndInv, new, EndUnchanged
    <3> QED
      BY <1>3, <2>2, <3>2, <3>4, <3>5 DEF new
  <2> QED
    BY <2>3, <2>4
<1>6. flow' \in [Dirs -> FlowType]
  <2>1. flow' = [f \in Dirs |-> flow'[f]]
    BY <1>2
  <2> QED
    BY <1>5, <2>1
<1>7. TypeOK'
  BY <1>1, <1>5, <1>6 DEF TypeOK, FlowType, EndUnchanged
<1> QED
  BY <1>5, <1>7 DEF IInv

-----------------------------------------------------------------------------
(* IInv is inductive: the bridge *)

\* Steps of the loop that move no bytes.
LEMMA LoopStep ==
  ASSUME IInv, TypeOK', UNCHANGED <<flow, gone, buf, aborted>>,
         \A f \in Dirs : pc # Writing(f) /\ pc' # Writing(f),
         \A f \in Dirs : EndInv(f)'
  PROVE  IInv'
<1>1. ASSUME NEW f \in Dirs PROVE StreamInv(f)'
  <2>1. StreamInv(f) /\ Pending(f)' = Pending(f)
    BY DEF IInv, Pending
  <2> QED
    BY <2>1 DEF StreamInv
<1> QED
  BY <1>1 DEF IInv

LEMMA AbortKeeps == ASSUME IInv, Abort PROVE IInv'
<1>1. /\ TypeOK /\ pc' = "exited" /\ aborted' = TRUE
      /\ flow' = [f \in Dirs |-> [flow[f] EXCEPT !.shut = TRUE]]
      /\ UNCHANGED <<gone, polled, polling, buf>>
  BY DEF Abort, IInv
<1>2. ASSUME NEW f \in Dirs
      PROVE  /\ flow'[f] \in FlowType
             /\ Len(flow'[f].src) <= Capacity /\ Len(flow'[f].dst) <= Capacity
             /\ StreamInv(f)' /\ EndInv(f)'
  <2> DEFINE fl == flow[f]
             new == flow'[f]
  <2>1. fl \in FlowType /\ StreamInv(f) /\ EndInv(f)
    BY <1>1, <1>2 DEF IInv, TypeOK, FlowType
  <2>2. new = [fl EXCEPT !.shut = TRUE]
    BY <1>1
  <2>3. /\ new.got = fl.got /\ new.dst = fl.dst /\ new.sent = fl.sent /\ new.lost = fl.lost
        /\ new.src = fl.src /\ new.closed = fl.closed /\ new \in FlowType
    BY <2>1, <2>2 DEF FlowType
  <2>4. Len(fl.src) <= Capacity /\ Len(fl.dst) <= Capacity
    BY <1>1, Shape
  <2> HIDE DEF new
  <2>5. StreamInv(f)'
    BY <1>1, <2>1, <2>3 DEF StreamInv, new
  <2>6. EndInv(f)'
    BY <1>1, <2>1, <2>3 DEF EndInv, new
  <2> QED
    BY <2>3, <2>4, <2>5, <2>6 DEF new
<1>3. flow' \in [Dirs -> FlowType]
  <2>1. flow' = [f \in Dirs |-> flow'[f]]
    BY <1>1
  <2> QED
    BY <1>2, <2>1
<1>4. TypeOK'
  BY <1>1, <1>2, <1>3 DEF TypeOK, FlowType
<1> QED
  BY <1>2, <1>4 DEF IInv

LEMMA ConnectKeeps == ASSUME IInv, Connect PROVE IInv'
<1>1. CASE pc' = "poll" /\ UNCHANGED <<flow, gone, polled, polling, buf, aborted>>
  <2>1. TypeOK /\ pc = "connect"
    BY DEF IInv, Connect
  <2>2. TypeOK'
    BY <1>1, <2>1 DEF TypeOK
  <2>3. \A f \in Dirs : pc # Writing(f) /\ pc' # Writing(f) /\ pc' \notin Ahead(f)
    BY <1>1, <2>1 DEF Writing, Ahead
  <2>4. \A f \in Dirs : EndInv(f)'
    BY <1>1, <2>1, <2>3 DEF IInv, EndInv
  <2> QED
    BY <1>1, <2>2, <2>3, <2>4, LoopStep
<1>2. CASE Abort
  BY <1>2, AbortKeeps
<1> QED
  BY <1>1, <1>2 DEF Connect

LEMMA PollKeeps == ASSUME IInv, Poll PROVE IInv'
<1>1. CASE /\ polled' = Ready /\ pc' = "up"
           /\ UNCHANGED <<flow, gone, polling, buf, aborted>>
  <2>1. TypeOK /\ pc = "poll"
    BY DEF IInv, Poll
  <2>2. polled' \in SUBSET polling /\ polled' \in SUBSET Dirs
    BY <1>1, <2>1 DEF Ready, TypeOK
  <2>3. TypeOK'
    BY <1>1, <2>1, <2>2 DEF TypeOK, Dirs
  <2>4. \A f \in Dirs : pc # Writing(f) /\ pc' # Writing(f)
    BY <1>1, <2>1 DEF Writing
  <2>5. \A f \in Dirs : EndInv(f)'
    BY <1>1, <2>1, <2>2, <2>4 DEF IInv, EndInv
  <2> QED
    BY <1>1, <2>3, <2>4, <2>5, LoopStep
<1>2. CASE Abort
  BY <1>2, AbortKeeps
<1> QED
  BY <1>1, <1>2 DEF Poll

LEMMA ExitKeeps == ASSUME IInv, Exit PROVE IInv'
<1>1. /\ TypeOK /\ pc = "poll" /\ pc' = "exited"
      /\ UNCHANGED <<flow, gone, polled, polling, buf, aborted>>
  BY DEF IInv, Exit
<1>2. TypeOK'
  BY <1>1 DEF TypeOK
<1>3. \A f \in Dirs : pc # Writing(f) /\ pc' # Writing(f) /\ pc' \notin Ahead(f)
  BY <1>1 DEF Writing, Ahead
<1>4. \A f \in Dirs : EndInv(f)'
  BY <1>1, <1>3 DEF IInv, EndInv
<1> QED
  BY <1>1, <1>2, <1>3, <1>4, LoopStep

\* After a direction has been served the other one's turn comes, or the next poll.
LEMMA AfterDirs ==
  ASSUME NEW f \in Dirs
  PROVE  /\ After(f) \in {"down", "poll"}
         /\ \A g \in Dirs : /\ After(f) # Writing(g) /\ f # Writing(g)
                            /\ After(f) \in Ahead(g) => f \in Ahead(g) /\ Writing(f) \in Ahead(g)
         /\ After(f) \notin Ahead(f)
  BY DEF Dirs, After, Writing, Ahead

LEMMA NotReadyKeeps == ASSUME IInv, NEW f \in Dirs, NotReady(f) PROVE IInv'
<1>1. /\ TypeOK /\ pc = f /\ pc' = After(f)
      /\ UNCHANGED <<flow, gone, polled, polling, buf, aborted>>
  BY DEF IInv, NotReady
<1>2. TypeOK'
  BY <1>1, AfterDirs DEF TypeOK, Dirs
<1>3. \A g \in Dirs : pc # Writing(g) /\ pc' # Writing(g) /\ (pc' \in Ahead(g) => pc \in Ahead(g))
  BY <1>1, AfterDirs
<1>4. \A g \in Dirs : EndInv(g)'
  BY <1>1, <1>3, AfterDirs DEF IInv, EndInv, Dirs
<1> QED
  BY <1>1, <1>2, <1>3, <1>4, LoopStep

\* Serving direction f leaves the other one alone.
LEMMA Served ==
  ASSUME IInv, TypeOK', NEW f \in Dirs, \A g \in Dirs \ {f} : flow'[g] = flow[g],
         UNCHANGED <<gone, aborted, polled>>,
         pc \in {f, Writing(f)}, pc' \in {Writing(f), After(f)},
         \A g \in Dirs \ {f} : g \in polling' <=> g \in polling,
         StreamInv(f)', EndInv(f)'
  PROVE  IInv'
<1>1. ASSUME NEW g \in Dirs \ {f} PROVE StreamInv(g)' /\ EndInv(g)'
  <2>1. StreamInv(g) /\ EndInv(g) /\ flow'[g] = flow[g]
    BY DEF IInv
  <2>2. pc # Writing(g) /\ pc' # Writing(g)
    BY AfterDirs, Directions
  <2>3. pc' \in Ahead(g) => pc \in Ahead(g)
    BY DEF Dirs, Ahead, Writing, After
  <2>4. Pending(g)' = Pending(g)
    BY <2>2 DEF Pending
  <2>5. StreamInv(g)'
    BY <2>1, <2>4 DEF StreamInv
  <2>6. ~aborted
    BY <2>1 DEF EndInv, Dirs, Writing
  <2>7. EndInv(g)'
    BY <2>1, <2>2, <2>3, <2>6 DEF EndInv
  <2> QED
    BY <2>5, <2>7
<1> QED
  BY <1>1 DEF IInv

\* The type of a step that serves direction f, whose state becomes new.
LEMMA ServedType ==
  ASSUME TypeOK, NEW f \in Dirs, NEW new \in FlowType, flow' = [flow EXCEPT ![f] = new],
         Len(new.src) <= Capacity, Len(new.dst) <= Capacity,
         UNCHANGED <<gone, aborted, polled>>, polling' \in SUBSET polling,
         pc' \in {Writing(f), After(f)}, buf' \in Bytes, Len(buf') <= BufSize
  PROVE  TypeOK' /\ flow'[f] = new /\ \A g \in Dirs \ {f} : flow'[g] = flow[g]
<1>1. /\ flow' \in [Dirs -> FlowType] /\ flow'[f] = new
      /\ \A g \in Dirs \ {f} : flow'[g] = flow[g]
  BY DEF TypeOK, FlowType
<1>2. \A g \in Dirs : Len(flow'[g].src) <= Capacity /\ Len(flow'[g].dst) <= Capacity
  BY <1>1 DEF TypeOK
<1>3. pc' \in {"connect", "poll", "exited"} \cup Dirs \cup {Writing(g) : g \in Dirs}
  BY AfterDirs DEF Dirs
<1>4. polling' \in SUBSET Dirs
  BY DEF TypeOK
<1> QED
  BY <1>1, <1>2, <1>3, <1>4 DEF TypeOK, FlowType

LEMMA ReadDataKeeps == ASSUME IInv, NEW f \in Dirs, ReadData(f) PROVE IInv'
<1> DEFINE fl == flow[f]
<1>1. /\ TypeOK /\ StreamInv(f) /\ EndInv(f) /\ pc = f /\ f \in polled /\ fl.src # <<>>
      /\ pc' = Writing(f) /\ UNCHANGED <<gone, polled, polling, aborted>>
  BY DEF IInv, ReadData
<1>2. PICK n \in 1..Min({BufSize, Len(fl.src)}) :
        /\ buf' = SubSeq(fl.src, 1, n)
        /\ flow' = [flow EXCEPT ![f].src = SubSeq(@, n + 1, Len(@))]
  BY DEF ReadData
<1> DEFINE taken == SubSeq(fl.src, 1, n)
           left == SubSeq(fl.src, n + 1, Len(fl.src))
           new == [fl EXCEPT !.src = left]
<1>3. /\ fl.src \in Seq(1..MaxBytes) /\ fl.dst \in Seq(1..MaxBytes)
      /\ fl.got \in Seq(1..MaxBytes) /\ fl.sent \in Nat
      /\ Len(fl.src) \in 0..MaxBytes /\ Len(fl.src) <= Capacity /\ Len(fl.dst) <= Capacity
      /\ MaxBytes \in Nat /\ Capacity \in Nat /\ BufSize \in Nat
  BY <1>1, Shape, BridgeConstants
<1>4. n \in 0..Len(fl.src) /\ n \in Nat /\ n <= BufSize /\ n <= MaxBytes
  <2>1. PICK k \in Nat : k = Len(fl.src) /\ k <= MaxBytes
    BY <1>3
  <2>2. n \in 1..Min({BufSize, k}) /\ BufSize \in Nat /\ MaxBytes \in Nat
    BY <1>2, <1>3, <2>1
  <2>3. Min({BufSize, k}) = IF BufSize <= k THEN BufSize ELSE k
    BY <2>2, MinOfTwo
  <2>4. n \in 0..k /\ n \in Nat /\ n <= BufSize /\ n <= MaxBytes
    BY <2>1, <2>2, <2>3
  <2> QED
    BY <2>1, <2>4
<1>5. Pending(f) = <<>>
  BY <1>1, AfterDirs DEF Pending
<1>6. ~aborted /\ f \in polling
  <2>1. ~aborted
    BY <1>1 DEF EndInv, Dirs
  <2> QED
    BY <1>1, <2>1 DEF EndInv, Ahead, Dirs
<1>7. /\ taken \in Seq(1..MaxBytes) /\ Len(taken) = n
      /\ left \in Seq(1..MaxBytes) /\ Len(left) = Len(fl.src) - n
  <2> DEFINE S == 1..MaxBytes
             src == fl.src
  <2>1. src \in Seq(S) /\ n \in 0..Len(src)
    BY <1>3, <1>4
  <2> HIDE DEF S, src
  <2>2. /\ SubSeq(src, 1, n) \in Seq(S) /\ Len(SubSeq(src, 1, n)) = n
        /\ SubSeq(src, n + 1, Len(src)) \in Seq(S)
        /\ Len(SubSeq(src, n + 1, Len(src))) = Len(src) - n
    BY <2>1, Cut
  <2> QED
    BY <2>2 DEF S, src
<1>8. /\ Received(fl.sent, fl.src, fl.got) => Received(fl.sent, left, fl.got)
      /\ Relayed(fl.sent, fl.src, <<>>, fl.dst, fl.got)
           => Relayed(fl.sent, left, taken, fl.dst, fl.got)
      /\ Whole(fl.sent, fl.src, <<>>, fl.dst, fl.got)
           => Whole(fl.sent, left, taken, fl.dst, fl.got)
  <2>1. Queues(fl.sent, fl.src, <<>>, fl.dst, fl.got)
    BY <1>3, EmptyBytes, BytesAreSeq DEF Queues
  <2> QED
    BY <1>4, <2>1, BytesRead
<1>9. buf' = taken /\ flow' = [flow EXCEPT ![f] = new] /\ fl \in FlowType
  BY <1>1, <1>2 DEF TypeOK, FlowType
<1> HIDE DEF taken, left
<1>10. left \in Bytes /\ taken \in Bytes /\ Len(left) <= Capacity /\ Len(taken) <= BufSize
  <2> DEFINE before == Len(fl.src)
             after == Len(left)
  <2>1. /\ before \in 0..MaxBytes /\ before <= Capacity /\ after = before - n
        /\ n \in Nat /\ MaxBytes \in Nat /\ Capacity \in Nat
    BY <1>3, <1>4, <1>7
  <2> HIDE DEF before, after
  <2>2. after <= MaxBytes /\ after <= Capacity
    BY <2>1
  <2> QED
    BY <1>4, <1>7, <2>2, BytesAreSeq DEF after
<1>11. /\ new \in FlowType
       /\ new.got = fl.got /\ new.dst = fl.dst /\ new.sent = fl.sent /\ new.src = left
       /\ new.lost = fl.lost /\ new.closed = fl.closed /\ new.shut = fl.shut
  BY <1>9, <1>10 DEF FlowType
<1> HIDE DEF new
<1>12. TypeOK' /\ flow'[f] = new /\ \A g \in Dirs \ {f} : flow'[g] = flow[g]
  BY <1>1, <1>3, <1>9, <1>10, <1>11, ServedType
<1>13. Pending(f)' = taken
  BY <1>1, <1>9 DEF Pending
<1>14. StreamInv(f)'
  BY <1>1, <1>5, <1>8, <1>11, <1>12, <1>13 DEF StreamInv
<1>15. EndInv(f)'
  BY <1>1, <1>6, <1>11, <1>12 DEF EndInv
<1> QED
  BY <1>1, <1>12, <1>14, <1>15, Served

LEMMA ReadEofKeeps == ASSUME IInv, NEW f \in Dirs, ReadEof(f) PROVE IInv'
<1> DEFINE fl == flow[f]
           new == [fl EXCEPT !.shut = TRUE]
<1>1. /\ TypeOK /\ StreamInv(f) /\ EndInv(f) /\ pc = f /\ fl.src = <<>> /\ fl.closed
      /\ polling' = polling \ {f} /\ pc' = After(f) /\ UNCHANGED <<gone, polled, buf, aborted>>
  BY DEF IInv, ReadEof
<1>2. fl \in FlowType /\ flow' = [flow EXCEPT ![f] = new]
  BY <1>1 DEF ReadEof, TypeOK, FlowType
<1>3. /\ new \in FlowType
      /\ new.got = fl.got /\ new.dst = fl.dst /\ new.sent = fl.sent /\ new.src = fl.src
      /\ new.lost = fl.lost /\ new.closed = fl.closed
  BY <1>2 DEF FlowType
<1>4. Len(fl.src) <= Capacity /\ Len(fl.dst) <= Capacity /\ buf \in Bytes /\ Len(buf) <= BufSize
  BY <1>1, Shape DEF TypeOK
<1> HIDE DEF new
<1>5. TypeOK' /\ flow'[f] = new /\ \A g \in Dirs \ {f} : flow'[g] = flow[g]
  BY <1>1, <1>2, <1>3, <1>4, ServedType
<1>6. Pending(f)' = Pending(f)
  BY <1>1, AfterDirs DEF Pending
<1>7. StreamInv(f)'
  BY <1>1, <1>3, <1>5, <1>6 DEF StreamInv
<1>8. EndInv(f)'
  <2>1. ~aborted
    BY <1>1 DEF EndInv, Dirs
  <2>2. pc' # Writing(f) /\ pc' \notin Ahead(f)
    BY <1>1, AfterDirs
  <2> QED
    BY <1>1, <1>3, <1>5, <2>1, <2>2 DEF EndInv
<1> QED
  BY <1>1, <1>5, <1>7, <1>8, Served

LEMMA WriteSomeKeeps == ASSUME IInv, NEW f \in Dirs, WriteSome(f) PROVE IInv'
<1> DEFINE fl == flow[f]
<1>1. /\ TypeOK /\ StreamInv(f) /\ EndInv(f) /\ pc = Writing(f) /\ Receiver(f) \notin gone
      /\ UNCHANGED <<gone, polled, polling, aborted>>
  BY DEF IInv, WriteSome
<1>2. PICK n \in 1..Min({Capacity - Len(fl.dst), Len(buf)}) :
        /\ flow' = [flow EXCEPT ![f].dst = @ \o SubSeq(buf, 1, n)]
        /\ buf' = SubSeq(buf, n + 1, Len(buf))
        /\ pc' = IF n = Len(buf) THEN After(f) ELSE pc
  BY DEF WriteSome
<1> DEFINE more == fl.dst \o SubSeq(buf, 1, n)
           left == SubSeq(buf, n + 1, Len(buf))
           new == [fl EXCEPT !.dst = more]
<1>3. /\ fl.src \in Seq(1..MaxBytes) /\ fl.dst \in Seq(1..MaxBytes)
      /\ fl.got \in Seq(1..MaxBytes) /\ buf \in Seq(1..MaxBytes) /\ fl.sent \in 0..MaxBytes
      /\ Len(buf) \in 0..MaxBytes /\ Len(fl.src) <= Capacity /\ Len(fl.dst) \in 0..MaxBytes
      /\ Len(fl.got) \in 0..MaxBytes /\ Len(fl.dst) <= Capacity /\ Len(buf) <= BufSize
      /\ MaxBytes \in Nat /\ Capacity \in Nat /\ BufSize \in Nat /\ fl.sent \in Nat
  BY <1>1, Shape, BridgeConstants DEF TypeOK
<1>4. n \in 0..Len(buf) /\ n \in Nat /\ n <= Capacity - Len(fl.dst)
  <2> DEFINE k == Len(buf)
             had == Len(fl.dst)
             room == Capacity - had
  <2>1. k \in Nat /\ had \in Nat /\ had <= Capacity /\ Capacity \in Nat
    BY <1>3
  <2>2. n \in 1..Min({room, k})
    BY <1>2
  <2> HIDE DEF k, had
  <2>3. room \in Nat
    BY <2>1
  <2> HIDE DEF room
  <2>4. Min({room, k}) = IF room <= k THEN room ELSE k
    BY <2>1, <2>3, MinOfTwo
  <2>5. n \in 0..k /\ n \in Nat /\ n <= room
    BY <2>1, <2>2, <2>3, <2>4
  <2> QED
    BY <2>5 DEF k, room, had
<1>5. ~aborted /\ f \in polling /\ Pending(f) = buf
  <2>1. ~aborted
    BY <1>1, Directions DEF EndInv
  <2> QED
    BY <1>1, <2>1 DEF EndInv, Pending
<1>6. Arrived(fl.sent, fl.dst, fl.got) /\ Relayed(fl.sent, fl.src, buf, fl.dst, fl.got)
  BY <1>1, <1>5 DEF StreamInv
<1>7. /\ Arrived(fl.sent, more, fl.got) /\ Relayed(fl.sent, fl.src, left, more, fl.got)
      /\ Whole(fl.sent, fl.src, buf, fl.dst, fl.got)
           => Whole(fl.sent, fl.src, left, more, fl.got)
  <2> DEFINE sent == fl.sent
             src == fl.src
             dst == fl.dst
             got == fl.got
  <2>1. /\ Queues(sent, src, buf, dst, got) /\ n \in 0..Len(buf)
        /\ Arrived(sent, dst, got) /\ Relayed(sent, src, buf, dst, got)
    BY <1>3, <1>4, <1>6 DEF Queues
  <2> HIDE DEF sent, src, dst, got
  <2>2. LET part == dst \o SubSeq(buf, 1, n)
            rest == SubSeq(buf, n + 1, Len(buf))
        IN  /\ Arrived(sent, part, got) /\ Relayed(sent, src, rest, part, got)
            /\ Whole(sent, src, buf, dst, got) => Whole(sent, src, rest, part, got)
    BY <2>1, BytesWritten
  <2> QED
    BY <2>2 DEF sent, src, dst, got
<1>8. /\ left \in Seq(1..MaxBytes) /\ Len(left) = Len(buf) - n
      /\ SubSeq(buf, 1, n) \in Seq(1..MaxBytes) /\ Len(SubSeq(buf, 1, n)) = n
  <2> DEFINE S == 1..MaxBytes
  <2>1. buf \in Seq(S) /\ n \in 0..Len(buf)
    BY <1>3, <1>4
  <2> HIDE DEF S
  <2>2. /\ SubSeq(buf, 1, n) \in Seq(S) /\ Len(SubSeq(buf, 1, n)) = n
        /\ left \in Seq(S) /\ Len(left) = Len(buf) - n
    BY <2>1, Cut
  <2> QED
    BY <2>2 DEF S
<1>9. more \in Seq(1..MaxBytes) /\ Len(more) = Len(fl.dst) + n
  BY <1>3, <1>8, Join
<1>10. buf' = left /\ flow' = [flow EXCEPT ![f] = new] /\ fl \in FlowType
  BY <1>1, <1>2 DEF TypeOK, FlowType
<1> HIDE DEF more, left
<1>11. left \in Bytes /\ Len(left) <= BufSize /\ more \in Bytes /\ Len(more) <= Capacity
  <2> DEFINE before == Len(buf)
             after == Len(left)
             had == Len(fl.dst)
             has == Len(more)
             old == Len(fl.got)
             total == fl.sent
  <2>1. /\ before \in 0..MaxBytes /\ before <= BufSize /\ n \in Nat
        /\ had \in Nat /\ n <= Capacity - had /\ old \in Nat /\ total \in 0..MaxBytes
        /\ MaxBytes \in Nat /\ Capacity \in Nat /\ BufSize \in Nat
    BY <1>3, <1>4
  <2>2. after = before - n /\ has = had + n
    BY <1>8, <1>9
  <2>3. old + has <= total
    BY <1>7 DEF Arrived
  <2> HIDE DEF before, after, had, has, old, total
  <2>4. after <= MaxBytes /\ after <= BufSize /\ has <= MaxBytes /\ has <= Capacity
    BY <2>1, <2>2, <2>3
  <2> QED
    BY <1>8, <1>9, <2>4, BytesAreSeq DEF after, has
<1>12. /\ new \in FlowType
       /\ new.got = fl.got /\ new.dst = more /\ new.sent = fl.sent /\ new.src = fl.src
       /\ new.lost = fl.lost /\ new.closed = fl.closed /\ new.shut = fl.shut
  BY <1>10, <1>11 DEF FlowType
<1> HIDE DEF new
<1>13. pc' \in {Writing(f), After(f)}
  BY <1>1, <1>2
<1>14. TypeOK' /\ flow'[f] = new /\ \A g \in Dirs \ {f} : flow'[g] = flow[g]
  BY <1>1, <1>3, <1>10, <1>11, <1>12, <1>13, ServedType
<1>15. Pending(f)' = left
  <2>1. CASE n = Len(buf)
    <3>1. Len(left) = 0
      BY <1>3, <1>8, <2>1
    <3>2. left = <<>>
      BY <1>8, <3>1, EmptySeq
    <3> QED
      BY <1>2, <2>1, <3>2, AfterDirs DEF Pending
  <2>2. CASE n # Len(buf)
    BY <1>1, <1>2, <1>10, <2>2 DEF Pending
  <2> QED
    BY <2>1, <2>2
<1>16. StreamInv(f)'
  BY <1>1, <1>5, <1>7, <1>12, <1>14, <1>15 DEF StreamInv
<1>17. EndInv(f)'
  <2>1. pc' \in Ahead(f) => pc \in Ahead(f)
    BY <1>1, <1>13, AfterDirs
  <2> QED
    BY <1>1, <1>5, <1>12, <1>14, <2>1 DEF EndInv
<1> QED
  BY <1>1, <1>13, <1>14, <1>16, <1>17, Served

LEMMA StepIInv == IInv /\ [Next]_vars => IInv'
<1> SUFFICES ASSUME IInv, [Next]_vars PROVE IInv'
  OBVIOUS
<1>1. CASE UNCHANGED vars
  <2>1. TypeOK'
    BY <1>1 DEF IInv, TypeOK, vars
  <2>2. \A f \in Dirs : StreamInv(f)' /\ EndInv(f)'
    BY <1>1 DEF IInv, StreamInv, EndInv, Pending, vars
  <2> QED
    BY <2>1, <2>2 DEF IInv
<1>2. CASE Connect
  BY <1>2, ConnectKeeps
<1>3. CASE Poll
  BY <1>3, PollKeeps
<1>4. CASE Exit
  BY <1>4, ExitKeeps
<1>5. ASSUME NEW f \in Dirs, NotReady(f) PROVE IInv'
  BY <1>5, NotReadyKeeps
<1>6. ASSUME NEW f \in Dirs, ReadData(f) PROVE IInv'
  BY <1>6, ReadDataKeeps
<1>7. ASSUME NEW f \in Dirs, ReadEof(f) PROVE IInv'
  BY <1>7, ReadEofKeeps
<1>8. ASSUME NEW f \in Dirs, WriteSome(f) PROVE IInv'
  BY <1>8, WriteSomeKeeps
<1>9. ASSUME NEW f \in Dirs, WriteFails(f) PROVE IInv'
  BY <1>9, AbortKeeps DEF WriteFails
<1>10. ASSUME NEW f \in Dirs, Send(f) PROVE IInv'
  BY <1>10, SendKeeps
<1>11. ASSUME NEW f \in Dirs, CloseWrite(f) PROVE IInv'
  BY <1>11, CloseWriteKeeps
<1>12. ASSUME NEW f \in Dirs, Recv(f) PROVE IInv'
  BY <1>12, RecvKeeps
<1>13. ASSUME NEW e \in {"client", "target"}, EndClose(e) PROVE IInv'
  BY <1>13, EndCloseKeeps
<1> QED
  BY <1>1, <1>2, <1>3, <1>4, <1>5, <1>6, <1>7, <1>8, <1>9, <1>10, <1>11, <1>12, <1>13
     DEF Next, BridgeStep

-----------------------------------------------------------------------------
(* The results *)

\* In every reachable state the bytes of each stream lie in order in its queues
\* and in the buffer of the relay (bridge.c:31-40, 110-163).
THEOREM Invariance == Spec => []IInv
<1>1. Init => IInv
  BY InitIInv
<1>2. IInv /\ [Next]_vars => IInv'
  BY StepIInv
<1> QED
  BY <1>1, <1>2, PTL DEF Spec

\* The variables have their types: above all, write_all never has more than its
\* buffer holds, and no queue more than its capacity (bridge.c:106-135).
THEOREM TypeCorrect == Spec => []TypeOK
<1>1. IInv => TypeOK
  BY DEF IInv
<1> QED
  BY <1>1, Invariance, PTL

-----------------------------------------------------------------------------
(* Each direction is a Pipe *)

Stream(f) == INSTANCE Pipe WITH sent <- flow[f].sent, closed <- flow[f].closed,
               got <- flow[f].got, eof <- flow[f].eof, broken <- Broken(f)

StreamStep(f) == Stream(f)!Next \/ UNCHANGED Stream(f)!vars

\* Steps that the two ends of direction f do not see.
LEMMA Unseen ==
  ASSUME NEW f \in Dirs, flow'[f].sent = flow[f].sent, flow'[f].closed = flow[f].closed,
         flow'[f].got = flow[f].got, flow'[f].eof = flow[f].eof,
         flow'[f].lost = flow[f].lost, aborted' = aborted
  PROVE  StreamStep(f)
<1>1. Broken(f)' = Broken(f)
  BY DEF Broken
<1> QED
  BY <1>1 DEF StreamStep, Stream!vars

LEMMA InitStream == ASSUME Init, NEW f \in Dirs PROVE Stream(f)!Init
  BY DEF Init, Stream!Init, Broken

LEMMA AbortStream == ASSUME IInv, Abort, NEW f \in Dirs PROVE StreamStep(f)
<1>1. flow[f] \in FlowType /\ flow'[f] = [flow[f] EXCEPT !.shut = TRUE] /\ aborted' = TRUE
  BY DEF Abort, IInv, TypeOK, FlowType
<1>2. /\ flow'[f].sent = flow[f].sent /\ flow'[f].closed = flow[f].closed
      /\ flow'[f].got = flow[f].got /\ flow'[f].eof = flow[f].eof
  BY <1>1 DEF FlowType
<1>3. Broken(f)' = TRUE
  BY <1>1 DEF Broken
<1> QED
  BY <1>2, <1>3 DEF StreamStep, Stream!Next, Stream!Break

\* What a step of direction g does to direction f # g.
LEMMA OtherStream ==
  ASSUME NEW f \in Dirs, flow'[f] = flow[f], aborted' = aborted PROVE StreamStep(f)
  BY Unseen

LEMMA SendStream == ASSUME IInv, NEW f \in Dirs, Send(f) PROVE StreamStep(f)
<1>1. /\ flow[f] \in FlowType /\ ~flow[f].closed /\ aborted' = aborted
      /\ flow'[f] = [flow[f] EXCEPT !.sent = @ + 1, !.src = Append(@, flow[f].sent + 1)]
  BY DEF Send, EndUnchanged, IInv, TypeOK, FlowType
<1>2. /\ flow'[f].sent = flow[f].sent + 1 /\ flow'[f].closed = flow[f].closed
      /\ flow'[f].got = flow[f].got /\ flow'[f].eof = flow[f].eof
      /\ flow'[f].lost = flow[f].lost
  BY <1>1 DEF FlowType
<1>3. Broken(f)' = Broken(f)
  BY <1>1, <1>2 DEF Broken
<1> QED
  BY <1>1, <1>2, <1>3 DEF StreamStep, Stream!Next, Stream!Send

LEMMA CloseWriteStream == ASSUME IInv, NEW f \in Dirs, CloseWrite(f) PROVE StreamStep(f)
<1>1. /\ flow[f] \in FlowType /\ aborted' = aborted
      /\ flow'[f] = [flow[f] EXCEPT !.closed = TRUE]
  BY DEF CloseWrite, EndUnchanged, IInv, TypeOK, FlowType
<1>2. /\ flow'[f].sent = flow[f].sent /\ flow'[f].closed = TRUE
      /\ flow'[f].got = flow[f].got /\ flow'[f].eof = flow[f].eof
      /\ flow'[f].lost = flow[f].lost
  BY <1>1 DEF FlowType
<1>3. Broken(f)' = Broken(f)
  BY <1>1, <1>2 DEF Broken
<1> QED
  BY <1>2, <1>3 DEF StreamStep, Stream!Next, Stream!Close

\* The end arrives after everything: nothing is left in any queue.
LEMMA EndIsLast ==
  ASSUME IInv, NEW f \in Dirs, Receiver(f) \notin gone, ~Broken(f),
         flow[f].shut, flow[f].dst = <<>>
  PROVE  flow[f].closed /\ Len(flow[f].got) = flow[f].sent
<1>1. TypeOK /\ StreamInv(f) /\ EndInv(f) /\ ~aborted /\ ~flow[f].lost
  BY DEF IInv, Broken
<1>2. flow[f].closed /\ flow[f].src = <<>> /\ pc # Writing(f)
  BY <1>1 DEF EndInv
<1>3. Pending(f) = <<>>
  BY <1>2 DEF Pending
<1>4. Whole(flow[f].sent, <<>>, <<>>, <<>>, flow[f].got)
  BY <1>1, <1>2, <1>3 DEF StreamInv
<1>5. Len(flow[f].got) + Len(<<>>) + Len(<<>>) + Len(<<>>) = flow[f].sent
  BY <1>4 DEF Whole
<1>6. Len(flow[f].got) \in Nat /\ Len(<<>>) = 0
  BY <1>1, Shape, EmptySeq
<1> QED
  BY <1>2, <1>5, <1>6

LEMMA RecvStream == ASSUME IInv, NEW f \in Dirs, Recv(f) PROVE StreamStep(f)
<1> DEFINE fl == flow[f]
<1>1. /\ TypeOK /\ StreamInv(f) /\ fl \in FlowType /\ aborted' = aborted
      /\ ~fl.eof /\ Receiver(f) \notin gone
  BY DEF Recv, EndUnchanged, IInv, TypeOK, FlowType
<1>2. CASE /\ fl.dst # <<>>
           /\ flow' = [flow EXCEPT ![f].got = Append(@, Head(flow[f].dst)), ![f].dst = Tail(@)]
  <2> DEFINE first == Head(fl.dst)
  <2>1. Arrived(fl.sent, fl.dst, fl.got)
    BY <1>1 DEF StreamInv
  <2>2. Queues(fl.sent, fl.src, Pending(f), fl.dst, fl.got)
    BY <1>1, Shape DEF Queues
  <2>3. first = Len(fl.got) + 1 /\ Len(fl.got) < fl.sent
    BY <1>2, <2>1, <2>2, ByteArrives
  <2>4. flow'[f] = [fl EXCEPT !.got = Append(@, first), !.dst = Tail(@)]
    BY <1>1, <1>2 DEF TypeOK
  <2> HIDE DEF first
  <2>5. /\ flow'[f].sent = fl.sent /\ flow'[f].closed = fl.closed
        /\ flow'[f].got = Append(fl.got, Len(fl.got) + 1) /\ flow'[f].eof = fl.eof
        /\ flow'[f].lost = fl.lost
    BY <1>1, <2>3, <2>4 DEF FlowType
  <2>6. Broken(f)' = Broken(f)
    BY <1>1, <2>5 DEF Broken
  <2> QED
    BY <1>1, <2>3, <2>5, <2>6 DEF StreamStep, Stream!Next, Stream!Deliver
<1>3. CASE fl.dst = <<>> /\ fl.shut /\ flow' = [flow EXCEPT ![f].eof = TRUE]
  <2>1. flow'[f] = [fl EXCEPT !.eof = TRUE]
    BY <1>1, <1>3 DEF TypeOK
  <2>2. /\ flow'[f].sent = fl.sent /\ flow'[f].closed = fl.closed
        /\ flow'[f].got = fl.got /\ flow'[f].eof = TRUE /\ flow'[f].lost = fl.lost
    BY <1>1, <2>1 DEF FlowType
  <2>3. Broken(f)' = Broken(f)
    BY <1>1, <2>2 DEF Broken
  <2>4. Broken(f) \/ (fl.closed /\ Len(fl.got) = fl.sent)
    BY <1>1, <1>3, EndIsLast
  <2> QED
    BY <2>2, <2>3, <2>4 DEF StreamStep, Stream!Next, Stream!End
<1> QED
  BY <1>2, <1>3 DEF Recv

LEMMA EndCloseStream ==
  ASSUME IInv, NEW e \in {"client", "target"}, EndClose(e), NEW f \in Dirs PROVE StreamStep(f)
<1> DEFINE fl == flow[f]
<1>1. EndInv(f) /\ fl \in FlowType /\ aborted' = aborted /\ e \notin gone
  BY DEF EndClose, EndUnchanged, IInv, TypeOK, FlowType
<1>2. PICK lost \in BOOLEAN :
        flow' = [g \in Dirs |->
                   IF Sender(g) = e
                   THEN [flow[g] EXCEPT !.closed = TRUE, !.lost = lost,
                                        !.src = IF lost THEN <<>> ELSE @]
                   ELSE [flow[g] EXCEPT !.dst = <<>>]]
  BY DEF EndClose
<1>3. CASE Sender(f) = e
  <2>1. flow'[f] = [fl EXCEPT !.closed = TRUE, !.lost = lost,
                              !.src = IF lost THEN <<>> ELSE @]
    BY <1>2, <1>3
  <2>2. /\ flow'[f].sent = fl.sent /\ flow'[f].closed = TRUE
        /\ flow'[f].got = fl.got /\ flow'[f].eof = fl.eof /\ flow'[f].lost = lost
    BY <1>1, <2>1 DEF FlowType
  <2>3. ~fl.lost
    BY <1>1, <1>3 DEF EndInv
  <2>4. Broken(f)' = TRUE \/ Broken(f)' = Broken(f)
    BY <1>1, <2>2, <2>3 DEF Broken
  <2> QED
    BY <2>2, <2>4 DEF StreamStep, Stream!Next, Stream!Close
<1>4. CASE Sender(f) # e
  <2>1. flow'[f] = [fl EXCEPT !.dst = <<>>]
    BY <1>2, <1>4
  <2>2. /\ flow'[f].sent = fl.sent /\ flow'[f].closed = fl.closed
        /\ flow'[f].got = fl.got /\ flow'[f].eof = fl.eof /\ flow'[f].lost = fl.lost
    BY <1>1, <2>1 DEF FlowType
  <2> QED
    BY <1>1, <2>2, Unseen
<1> QED
  BY <1>3, <1>4

\* What the loop of the bridge does, short of aborting.
LEMMA LoopStream ==
  ASSUME IInv, NEW f \in Dirs, NEW g \in Dirs,
         ReadData(g) \/ ReadEof(g) \/ WriteSome(g)
  PROVE  StreamStep(f)
<1>1. TypeOK /\ aborted' = aborted
  BY DEF IInv, ReadData, ReadEof, WriteSome
<1>2. CASE f # g
  <2>1. flow'[f] = flow[f]
    BY <1>1, <1>2 DEF ReadData, ReadEof, WriteSome, TypeOK
  <2> QED
    BY <1>1, <2>1, OtherStream
<1>3. CASE f = g
  <2>1. flow \in [Dirs -> FlowType]
    BY <1>1 DEF TypeOK, FlowType
  <2>2. /\ flow'[f].sent = flow[f].sent /\ flow'[f].closed = flow[f].closed
        /\ flow'[f].got = flow[f].got /\ flow'[f].eof = flow[f].eof
        /\ flow'[f].lost = flow[f].lost
    <3>1. CASE ReadData(f)
      <4>1. PICK left : flow'[f] = [flow[f] EXCEPT !.src = left]
        BY <2>1, <3>1 DEF ReadData
      <4> QED
        BY <2>1, <4>1 DEF FlowType
    <3>2. CASE ReadEof(f)
      <4>1. flow'[f] = [flow[f] EXCEPT !.shut = TRUE]
        BY <2>1, <3>2 DEF ReadEof
      <4> QED
        BY <2>1, <4>1 DEF FlowType
    <3>3. CASE WriteSome(f)
      <4>1. PICK more : flow'[f] = [flow[f] EXCEPT !.dst = more]
        BY <2>1, <3>3 DEF WriteSome
      <4> QED
        BY <2>1, <4>1 DEF FlowType
    <3> QED
      BY <1>3, <3>1, <3>2, <3>3
  <2> QED
    BY <1>1, <2>2, Unseen
<1> QED
  BY <1>2, <1>3

LEMMA NextStream == ASSUME IInv, [Next]_vars, NEW f \in Dirs PROVE StreamStep(f)
<1>1. CASE UNCHANGED <<flow, aborted>>
  BY <1>1, OtherStream
<1>2. CASE Abort
  BY <1>2, AbortStream
<1>3. ASSUME NEW g \in Dirs, ReadData(g) \/ ReadEof(g) \/ WriteSome(g) PROVE StreamStep(f)
  BY <1>3, LoopStream
<1>4. ASSUME NEW g \in Dirs, Send(g) \/ CloseWrite(g) \/ Recv(g) PROVE StreamStep(f)
  <2>1. CASE f = g
    BY <1>4, <2>1, SendStream, CloseWriteStream, RecvStream
  <2>2. CASE f # g
    <3>1. TypeOK /\ aborted' = aborted
      BY <1>4 DEF IInv, Send, CloseWrite, Recv, EndUnchanged
    <3>2. flow'[f] = flow[f]
      BY <1>4, <2>2, <3>1 DEF Send, CloseWrite, Recv, TypeOK
    <3> QED
      BY <3>1, <3>2, OtherStream
  <2> QED
    BY <2>1, <2>2
<1>5. ASSUME NEW e \in {"client", "target"}, EndClose(e) PROVE StreamStep(f)
  BY <1>5, EndCloseStream
<1>6. CASE UNCHANGED vars
  BY <1>1, <1>6 DEF vars
<1>7. CASE Next
  <2>1. CASE Connect \/ Poll \/ Exit
    BY <1>1, <1>2, <2>1 DEF Connect, Poll, Exit
  <2>2. ASSUME NEW g \in Dirs, NotReady(g) \/ WriteFails(g) PROVE StreamStep(f)
    BY <1>1, <1>2, <2>2 DEF NotReady, WriteFails
  <2> QED
    BY <1>3, <1>4, <1>5, <1>7, <2>1, <2>2 DEF Next, BridgeStep
<1> QED
  BY <1>6, <1>7

\* What the target receives is what the client has written, in order and
\* complete before the end, for any number of bytes, any sizes of queues and
\* buffer, and whatever the other direction does (bridge.c:110-163).
THEOREM UpRefinesPipe == Spec => UpIsPipe
<1>1. Init => Up!Init
  BY InitStream DEF Dirs, Stream!Init, Up!Init
<1>2. IInv /\ [Next]_vars => [Up!Next]_(Up!vars)
  <2>1. ASSUME IInv, [Next]_vars PROVE StreamStep("up")
    BY <2>1, NextStream DEF Dirs
  <2> QED
    BY <2>1 DEF StreamStep, Stream!Next, Stream!Send, Stream!Close, Stream!Deliver,
         Stream!End, Stream!Break, Stream!vars, Up!Next, Up!Send, Up!Close, Up!Deliver,
         Up!End, Up!Break, Up!vars
<1> QED
  BY <1>1, <1>2, Invariance, PTL DEF Spec, UpIsPipe, Up!Spec

\* The same of what the client receives from the target, so the end it sees is
\* never early, also after it has finished writing (bridge.c:110-163).
THEOREM DownRefinesPipe == Spec => DownIsPipe
<1>1. Init => Down!Init
  BY InitStream DEF Dirs, Stream!Init, Down!Init
<1>2. IInv /\ [Next]_vars => [Down!Next]_(Down!vars)
  <2>1. ASSUME IInv, [Next]_vars PROVE StreamStep("down")
    BY <2>1, NextStream DEF Dirs
  <2> QED
    BY <2>1 DEF StreamStep, Stream!Next, Stream!Send, Stream!Close, Stream!Deliver,
         Stream!End, Stream!Break, Stream!vars, Down!Next, Down!Send, Down!Close,
         Down!Deliver, Down!End, Down!Break, Down!vars
<1> QED
  BY <1>1, <1>2, Invariance, PTL DEF Spec, DownIsPipe, Down!Spec

-----------------------------------------------------------------------------
(* What the readers of the streams rely on *)

UpEnds == INSTANCE PipeProofs WITH sent <- flow["up"].sent, closed <- flow["up"].closed,
            got <- flow["up"].got, eof <- flow["up"].eof, broken <- Broken("up")

DownEnds == INSTANCE PipeProofs WITH sent <- flow["down"].sent, closed <- flow["down"].closed,
              got <- flow["down"].got, eof <- flow["down"].eof, broken <- Broken("down")

\* The n-th byte received is the n-th byte sent, and an end that sees the end
\* of the stream has them all, unless the relay or the other end broke off.
StreamsAreWhole ==
  \A f \in Dirs : /\ \A i \in 1..Len(flow[f].got) : flow[f].got[i] = i
                  /\ flow[f].eof /\ ~Broken(f) =>
                       flow[f].closed /\ Len(flow[f].got) = flow[f].sent

\* io.Copy on either end gets the stream of the other, whatever the chunks in
\* which the bridge reads and writes it (bridge.c:39-51, 110-163).
THEOREM StreamsArriveWhole == Spec => []StreamsAreWhole
<1>1. Spec => [](UpEnds!InOrder /\ UpEnds!WholeAtEnd)
  <2>1. Init => UpEnds!PipeInv
    <3>1. Init => UpEnds!Init
      BY InitStream DEF Dirs, Stream!Init, UpEnds!Init
    <3> QED
      BY <3>1, UpEnds!InitPipe
  <2>2. IInv /\ [Next]_vars /\ UpEnds!PipeInv => UpEnds!PipeInv'
    <3>1. IInv /\ [Next]_vars => [UpEnds!Next]_(UpEnds!vars)
      <4>1. ASSUME IInv, [Next]_vars PROVE StreamStep("up")
        BY <4>1, NextStream DEF Dirs
      <4> QED
        BY <4>1 DEF StreamStep, Stream!Next, Stream!Send, Stream!Close, Stream!Deliver,
             Stream!End, Stream!Break, Stream!vars, UpEnds!Next, UpEnds!Send, UpEnds!Close,
             UpEnds!Deliver, UpEnds!End, UpEnds!Break, UpEnds!vars
    <3> QED
      BY <3>1, UpEnds!StepPipe
  <2>3. UpEnds!PipeInv => UpEnds!InOrder /\ UpEnds!WholeAtEnd
    BY DEF UpEnds!PipeInv
  <2> QED
    BY <2>1, <2>2, <2>3, Invariance, PTL DEF Spec
<1>2. Spec => [](DownEnds!InOrder /\ DownEnds!WholeAtEnd)
  <2>1. Init => DownEnds!PipeInv
    <3>1. Init => DownEnds!Init
      BY InitStream DEF Dirs, Stream!Init, DownEnds!Init
    <3> QED
      BY <3>1, DownEnds!InitPipe
  <2>2. IInv /\ [Next]_vars /\ DownEnds!PipeInv => DownEnds!PipeInv'
    <3>1. IInv /\ [Next]_vars => [DownEnds!Next]_(DownEnds!vars)
      <4>1. ASSUME IInv, [Next]_vars PROVE StreamStep("down")
        BY <4>1, NextStream DEF Dirs
      <4> QED
        BY <4>1 DEF StreamStep, Stream!Next, Stream!Send, Stream!Close, Stream!Deliver,
             Stream!End, Stream!Break, Stream!vars, DownEnds!Next, DownEnds!Send, DownEnds!Close,
             DownEnds!Deliver, DownEnds!End, DownEnds!Break, DownEnds!vars
    <3> QED
      BY <3>1, DownEnds!StepPipe
  <2>3. DownEnds!PipeInv => DownEnds!InOrder /\ DownEnds!WholeAtEnd
    BY DEF DownEnds!PipeInv
  <2> QED
    BY <2>1, <2>2, <2>3, Invariance, PTL DEF Spec
<1>3. /\ UpEnds!InOrder /\ UpEnds!WholeAtEnd
      /\ DownEnds!InOrder /\ DownEnds!WholeAtEnd
      => StreamsAreWhole
  BY DEF StreamsAreWhole, Dirs, UpEnds!InOrder, UpEnds!WholeAtEnd, DownEnds!InOrder,
         DownEnds!WholeAtEnd
<1> QED
  BY <1>1, <1>2, <1>3, PTL

-----------------------------------------------------------------------------
(* The loop blocks where it means to *)

HasInput(f) == flow[f].src # <<>> \/ flow[f].closed

\* Where in the loop a revents of f still stands for something to read.
Unserved(f) == IF f = "up" THEN {"up"} ELSE {"up", "upWrite", "down"}

\* What poll has reported stays true until it has been acted upon, a direction
\* leaves the poll set when its output has been closed, and write_all is in its
\* loop for at least one byte.
LoopInv ==
  /\ aborted => \A f \in Dirs : flow[f].shut
  /\ ~aborted => /\ pc = "exited" => polling = {}
                 /\ \A f \in Dirs : /\ f \notin polling => flow[f].shut
                                    /\ pc \in Unserved(f) /\ f \in polled => HasInput(f)
                                    /\ pc = Writing(f) => buf # <<>>

\* The read that follows a poll finds bytes or the end of the stream: it never
\* blocks the one thread that serves both directions, although the revents it
\* goes by were taken before the other direction was served.
ReadNeverBlocks == \A f \in Dirs : pc = f /\ f \in polled => HasInput(f)

\* The bridge can take a step that is no error of poll.
RelayMoves ==
  \/ pc = "connect"
  \/ pc = "poll" /\ (polling = {} \/ Ready # {})
  \/ \E f \in Dirs : pc = f /\ (f \notin polled \/ HasInput(f))
  \/ \E f \in Dirs : pc = Writing(f) /\ (Receiver(f) \in gone \/ Len(flow[f].dst) < Capacity)

\* A direction whose sender has finished is shut down at the other end in a
\* while, unless write_all waits for a reader whose queue is full: the edge of
\* EofIndependentOfStdin's finding, and nothing else holds an end back.
OnlyAFullQueueHoldsTheEnd ==
  \A f \in Dirs : flow[f].closed /\ ~flow[f].shut =>
    \/ RelayMoves
    \/ \E g \in Dirs : /\ pc = Writing(g) /\ Receiver(g) \notin gone
                       /\ Len(flow[g].dst) = Capacity

\* Steps of the ends take no input away from the bridge.
LEMMA EndsKeepInput ==
  ASSUME LoopInv, EndUnchanged,
         \A f \in Dirs : flow'[f].shut = flow[f].shut /\ (HasInput(f) => HasInput(f)')
  PROVE  LoopInv'
BY DEF LoopInv, EndUnchanged

\* Steps of the loop go from one direction to the next.
LEMMA LoopKeepsInput ==
  ASSUME LoopInv, ~aborted, NEW f \in Dirs, UNCHANGED <<polled, aborted>>,
         pc \in {f, Writing(f)}, pc' \in {Writing(f), After(f)},
         pc' = Writing(f) => buf' # <<>>,
         \A g \in Dirs \ {f} : flow'[g] = flow[g] /\ (g \in polling' <=> g \in polling),
         f \notin polling' => flow'[f].shut
  PROVE  LoopInv'
<1>1. pc' # "exited"
  BY DEF Dirs, Writing, After
<1>2. pc' \notin Unserved(f) /\ \A g \in Dirs \ {f} : pc' # Writing(g)
  BY DEF Dirs, Writing, After, Unserved
<1>3. ASSUME NEW g \in Dirs \ {f}
      PROVE  /\ pc' \in Unserved(g) => pc \in Unserved(g)
             /\ HasInput(g)' = HasInput(g)
  BY <1>3 DEF Dirs, Writing, After, Unserved, HasInput
<1> QED
  BY <1>1, <1>2, <1>3 DEF LoopInv

LEMMA LoopInvStep == IInv /\ LoopInv /\ [Next]_vars => LoopInv'
<1> SUFFICES ASSUME IInv, LoopInv, [Next]_vars PROVE LoopInv'
  OBVIOUS
<1>1. TypeOK
  BY DEF IInv
<1>2. CASE UNCHANGED vars
  BY <1>2 DEF vars, LoopInv, HasInput
<1>3. CASE Abort
  <2>1. aborted' /\ \A f \in Dirs : flow'[f] = [flow[f] EXCEPT !.shut = TRUE]
    BY <1>3 DEF Abort
  <2>2. \A f \in Dirs : flow'[f].shut
    BY <1>1, <2>1 DEF TypeOK
  <2> QED
    BY <2>1, <2>2 DEF LoopInv
<1>4. CASE Connect \/ Poll \/ Exit
  <2>1. CASE /\ pc = "connect" /\ pc' = "poll"
             /\ UNCHANGED <<flow, gone, polled, polling, buf, aborted>>
    BY <2>1 DEF LoopInv, HasInput, Unserved, Writing
  <2>2. CASE /\ polled' = Ready /\ pc' = "up"
             /\ UNCHANGED <<flow, gone, polling, buf, aborted>>
    BY <2>2 DEF LoopInv, HasInput, Ready, Writing
  <2>3. CASE Exit
    BY <2>3 DEF Exit, LoopInv, HasInput, Unserved, Writing
  <2> QED
    BY <1>3, <1>4, <2>1, <2>2, <2>3 DEF Connect, Poll
<1>5. ASSUME NEW f \in Dirs, NotReady(f) PROVE LoopInv'
  <2>1. /\ pc = f /\ pc' = After(f) /\ pc' # Writing(f)
        /\ UNCHANGED <<flow, gone, polled, polling, buf, aborted>>
    BY <1>5, AfterDirs DEF NotReady
  <2>2. ~aborted
    BY <2>1 DEF IInv, EndInv, Dirs
  <2> QED
    BY <2>1, <2>2, LoopKeepsInput DEF LoopInv
<1>6. ASSUME NEW f \in Dirs, ReadData(f) PROVE LoopInv'
  <2> DEFINE src == flow[f].src
  <2>1. /\ pc = f /\ pc' = Writing(f) /\ UNCHANGED <<gone, polled, polling, aborted>>
        /\ \A g \in Dirs \ {f} : flow'[g] = flow[g]
        /\ flow'[f].shut = flow[f].shut
    BY <1>1, <1>6 DEF ReadData, TypeOK
  <2>2. buf' # <<>>
    <3>1. PICK n \in 1..Min({BufSize, Len(src)}) : buf' = SubSeq(src, 1, n)
      BY <1>6 DEF ReadData
    <3>2. src \in Seq(1..MaxBytes) /\ Len(src) \in Nat /\ BufSize \in Nat
      BY <1>1, Shape, BridgeConstants
    <3>3. n \in 1..Len(src)
      BY <3>1, <3>2, MinOfTwo
    <3>4. Len(SubSeq(src, 1, n)) = n
      BY <3>2, <3>3, SubSeqProperties
    <3> QED
      BY <3>1, <3>3, <3>4, EmptyBytes
  <2>3. ~aborted
    BY <2>1 DEF IInv, EndInv, Dirs
  <2> QED
    BY <2>1, <2>2, <2>3, LoopKeepsInput DEF LoopInv
<1>7. ASSUME NEW f \in Dirs, ReadEof(f) PROVE LoopInv'
  <2>1. /\ pc = f /\ pc' = After(f) /\ UNCHANGED <<gone, polled, aborted>>
        /\ \A g \in Dirs \ {f} : flow'[g] = flow[g]
        /\ flow'[f].shut /\ polling' = polling \ {f}
    BY <1>1, <1>7 DEF ReadEof, TypeOK
  <2>2. ~aborted /\ pc' # Writing(f)
    BY <2>1, AfterDirs DEF IInv, EndInv, Dirs
  <2> QED
    BY <2>1, <2>2, LoopKeepsInput
<1>8. ASSUME NEW f \in Dirs, WriteSome(f) PROVE LoopInv'
  <2>1. /\ pc = Writing(f) /\ UNCHANGED <<gone, polled, polling, aborted>>
        /\ \A g \in Dirs \ {f} : flow'[g] = flow[g]
        /\ flow'[f].shut = flow[f].shut
    BY <1>1, <1>8 DEF WriteSome, TypeOK
  <2>2. pc' \in {Writing(f), After(f)} /\ (pc' = Writing(f) => buf' # <<>>)
    <3> DEFINE room == Capacity - Len(flow[f].dst)
    <3>1. PICK n \in 1..Min({room, Len(buf)}) :
            /\ buf' = SubSeq(buf, n + 1, Len(buf))
            /\ pc' = IF n = Len(buf) THEN After(f) ELSE pc
      BY <1>8 DEF WriteSome
    <3>2. buf \in Seq(1..MaxBytes) /\ Len(buf) \in Nat /\ room \in Int
      BY <1>1, Shape
    <3> HIDE DEF room
    <3>3. n \in 1..Len(buf)
      BY <3>1, <3>2, MinOfTwo
    <3>4. CASE n = Len(buf)
      BY <3>1, <3>4, AfterDirs
    <3>5. CASE n # Len(buf)
      <4>1. n + 1 \in 1..Len(buf)
        BY <3>2, <3>3, <3>5
      <4>2. Len(SubSeq(buf, n + 1, Len(buf))) = Len(buf) - n
        BY <3>2, <4>1, SubSeqProperties
      <4>3. Len(buf') # 0
        BY <3>1, <3>2, <3>3, <3>5, <4>2
      <4> QED
        BY <2>1, <3>1, <3>5, <4>3, EmptyBytes
    <3> QED
      BY <3>4, <3>5
  <2>3. ~aborted
    BY <2>1 DEF IInv, EndInv, Dirs, Writing
  <2>4. f \notin polling' => flow'[f].shut
    BY <2>1, <2>3 DEF LoopInv
  <2> QED
    BY <2>1, <2>2, <2>3, <2>4, LoopKeepsInput
<1>9. ASSUME NEW f \in Dirs, Send(f) \/ CloseWrite(f) \/ Recv(f) PROVE LoopInv'
  <2>1. EndUnchanged
    BY <1>9 DEF Send, CloseWrite, Recv
  <2>2. ASSUME NEW g \in Dirs
        PROVE  flow'[g].shut = flow[g].shut /\ (HasInput(g) => HasInput(g)')
    <3>1. CASE Send(f)
      <4>1. flow[f].src \in Seq(1..MaxBytes)
        BY <1>1, Shape
      <4>2. flow'[g].shut = flow[g].shut /\ flow'[g].closed = flow[g].closed
        BY <1>1, <3>1 DEF Send, TypeOK
      <4>3. flow'[g].src \in {flow[g].src, Append(flow[f].src, flow[f].sent + 1)}
        BY <1>1, <3>1 DEF Send, TypeOK
      <4>4. Append(flow[f].src, flow[f].sent + 1) # <<>>
        <5>1. flow[f].sent + 1 \in 1..MaxBytes /\ Len(flow[f].src) \in Nat
          <6>1. /\ flow[f].sent \in 0..MaxBytes /\ MaxBytes \in Nat
                /\ Len(flow[f].src) \in 0..MaxBytes /\ flow[f].sent < MaxBytes
            BY <1>1, <3>1, Shape DEF Send
          <6> QED
            BY <6>1
        <5>2. Len(Append(flow[f].src, flow[f].sent + 1)) = Len(flow[f].src) + 1
          BY <4>1, <5>1, OneMore
        <5> QED
          BY <5>1, <5>2, EmptyBytes
      <4> QED
        BY <4>2, <4>3, <4>4 DEF HasInput
    <3>2. CASE CloseWrite(f)
      BY <1>1, <3>2 DEF CloseWrite, TypeOK, HasInput
    <3>3. CASE Recv(f)
      <4>1. /\ flow'[g].shut = flow[g].shut /\ flow'[g].closed = flow[g].closed
            /\ flow'[g].src = flow[g].src
        <5>1. flow[g] \in FlowType
          BY <1>1 DEF TypeOK, FlowType
        <5>2. CASE flow' = [flow EXCEPT ![f].got = Append(@, Head(flow[f].dst)),
                                        ![f].dst = Tail(@)]
          BY <1>1, <5>1, <5>2 DEF TypeOK, FlowType
        <5>3. CASE flow' = [flow EXCEPT ![f].eof = TRUE]
          BY <1>1, <5>1, <5>3 DEF TypeOK, FlowType
        <5> QED
          BY <3>3, <5>2, <5>3 DEF Recv
      <4> QED
        BY <4>1 DEF HasInput
    <3> QED
      BY <1>9, <3>1, <3>2, <3>3
  <2> QED
    BY <2>1, <2>2, EndsKeepInput
<1>10. ASSUME NEW e \in {"client", "target"}, EndClose(e) PROVE LoopInv'
  <2>1. EndUnchanged
    BY <1>10 DEF EndClose
  <2>2. ASSUME NEW g \in Dirs
        PROVE  flow'[g].shut = flow[g].shut /\ (HasInput(g) => HasInput(g)')
    <3>1. flow[g] \in FlowType
      BY <1>1 DEF TypeOK, FlowType
    <3>2. CASE Sender(g) = e
      <4>1. PICK lost \in BOOLEAN :
              flow'[g] = [flow[g] EXCEPT !.closed = TRUE, !.lost = lost,
                                         !.src = IF lost THEN <<>> ELSE @]
        BY <1>10, <3>2 DEF EndClose
      <4>2. flow'[g].closed /\ flow'[g].shut = flow[g].shut
        BY <3>1, <4>1 DEF FlowType
      <4> QED
        BY <4>2 DEF HasInput
    <3>3. CASE Sender(g) # e
      <4>1. flow'[g] = [flow[g] EXCEPT !.dst = <<>>]
        BY <1>10, <3>3 DEF EndClose
      <4>2. /\ flow'[g].closed = flow[g].closed /\ flow'[g].shut = flow[g].shut
            /\ flow'[g].src = flow[g].src
        BY <3>1, <4>1 DEF FlowType
      <4> QED
        BY <4>2 DEF HasInput
    <3> QED
      BY <3>2, <3>3
  <2> QED
    BY <2>1, <2>2, EndsKeepInput
<1> QED
  BY <1>2, <1>3, <1>4, <1>5, <1>6, <1>7, <1>8, <1>9, <1>10
     DEF Next, BridgeStep, WriteFails

\* What poll has reported holds until it has been acted upon.
LEMMA LoopInvariance == Spec => []LoopInv
<1>1. Init => LoopInv
  BY DEF Init, LoopInv, Unserved, Writing
<1> QED
  BY <1>1, LoopInvStep, Invariance, PTL DEF Spec

\* One thread, two directions and blocking reads: poll keeps them apart
\* (bridge.c:110-163).
THEOREM ReadsDoNotBlock == Spec => []ReadNeverBlocks
<1>1. IInv /\ LoopInv => ReadNeverBlocks
  BY DEF IInv, EndInv, LoopInv, ReadNeverBlocks, Dirs, Unserved
<1> QED
  BY <1>1, Invariance, LoopInvariance, PTL

\* The end of a stream is held back by a peer that does not read, in either
\* direction, and by nothing else (bridge.c:39-51, 106-163).
THEOREM EndIsPassedOn == Spec => []OnlyAFullQueueHoldsTheEnd
<1>1. IInv /\ LoopInv => OnlyAFullQueueHoldsTheEnd
  <2> SUFFICES ASSUME IInv, LoopInv, NEW f \in Dirs, flow[f].closed, ~flow[f].shut
               PROVE  \/ RelayMoves
                      \/ \E g \in Dirs : /\ pc = Writing(g) /\ Receiver(g) \notin gone
                                         /\ Len(flow[g].dst) = Capacity
    BY DEF OnlyAFullQueueHoldsTheEnd
  <2>1. ~aborted /\ f \in polling /\ pc # "exited"
    BY DEF LoopInv
  <2>2. pc \in {"connect", "poll", "exited"} \cup Dirs \cup {Writing(g) : g \in Dirs}
    BY DEF IInv, TypeOK
  <2>3. CASE pc = "connect"
    BY <2>3 DEF RelayMoves
  <2>4. CASE pc = "poll"
    BY <2>1, <2>4 DEF RelayMoves, Ready
  <2>5. ASSUME NEW g \in Dirs, pc = g PROVE RelayMoves
    <3>1. g \in polled => HasInput(g)
      BY <2>1, <2>5 DEF LoopInv, Unserved, Dirs
    <3> QED
      BY <2>5, <3>1 DEF RelayMoves
  <2>6. ASSUME NEW g \in Dirs, pc = Writing(g)
        PROVE  RelayMoves \/ (Receiver(g) \notin gone /\ Len(flow[g].dst) = Capacity)
    <3>1. /\ Len(flow[g].dst) \in Int /\ Capacity \in Int
          /\ Len(flow[g].dst) <= Capacity
      BY Shape DEF IInv
    <3>2. Len(flow[g].dst) < Capacity \/ Len(flow[g].dst) = Capacity
      BY <3>1
    <3> QED
      BY <2>6, <3>2 DEF RelayMoves
  <2> QED
    BY <2>1, <2>2, <2>3, <2>4, <2>5, <2>6
<1> QED
  BY <1>1, Invariance, LoopInvariance, PTL
=============================================================================
