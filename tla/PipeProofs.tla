----------------------------- MODULE PipeProofs -----------------------------
(***************************************************************************)
(* What a Pipe promises to the one who reads from it.  Bridge and Proxy    *)
(* implement Pipe, so it holds of their streams.                           *)
(***************************************************************************)
EXTENDS Pipe, SequenceTheorems, TLAPS

\* The bytes received are the first ones sent, in order, each once.
InOrder == \A i \in 1..Len(got) : got[i] = i

\* A receiver that has seen the end of a stream that did not break has all.
WholeAtEnd == eof /\ ~broken => closed /\ Len(got) = sent

PipeInv ==
  /\ sent \in Nat /\ got \in Seq(Nat) /\ Len(got) <= sent
  /\ broken \in BOOLEAN /\ closed \in BOOLEAN
  /\ InOrder /\ WholeAtEnd

LEMMA InitPipe == Init => PipeInv
<1> SUFFICES ASSUME Init PROVE PipeInv
  OBVIOUS
<1>1. got \in Seq(Nat) /\ Len(got) = 0 /\ sent = 0
  BY EmptySeq DEF Init
<1>2. InOrder
  BY <1>1 DEF InOrder
<1>3. ~eof /\ broken \in BOOLEAN /\ closed \in BOOLEAN
  BY DEF Init
<1> QED
  BY <1>1, <1>2, <1>3 DEF PipeInv, WholeAtEnd

LEMMA StepPipe == PipeInv /\ [Next]_vars => PipeInv'
<1> SUFFICES ASSUME PipeInv, [Next]_vars PROVE PipeInv'
  OBVIOUS
<1>1. Len(got) \in Nat
  BY LenProperties DEF PipeInv
<1>2. CASE UNCHANGED vars
  BY <1>2 DEF vars, PipeInv, InOrder, WholeAtEnd
<1>3. CASE Send
  BY <1>1, <1>3 DEF Send, PipeInv, InOrder, WholeAtEnd
<1>4. CASE Close
  BY <1>4 DEF Close, PipeInv, InOrder, WholeAtEnd
<1>5. CASE Deliver
  <2> DEFINE all == Append(got, Len(got) + 1)
  <2>1. /\ got \in Seq(Nat) /\ Len(got) + 1 \in Nat /\ ~eof /\ Len(got) < sent
        /\ got' = all /\ UNCHANGED <<sent, closed, eof, broken>>
    BY <1>1, <1>5 DEF Deliver, PipeInv
  <2>2. /\ all \in Seq(Nat) /\ Len(all) = Len(got) + 1
        /\ \A i \in 1..Len(got) : all[i] = got[i]
        /\ all[Len(got) + 1] = Len(got) + 1
    BY <2>1, AppendProperties
  <2> HIDE DEF all
  <2>3. \A i \in 1..Len(all) : all[i] = i
    BY <1>1, <2>2 DEF PipeInv, InOrder
  <2>4. Len(all) <= sent
    BY <1>1, <2>1, <2>2 DEF PipeInv
  <2> QED
    BY <2>1, <2>2, <2>3, <2>4 DEF PipeInv, InOrder, WholeAtEnd
<1>6. CASE End
  BY <1>6 DEF End, PipeInv, InOrder, WholeAtEnd
<1>7. CASE Break
  BY <1>7 DEF Break, PipeInv, InOrder, WholeAtEnd
<1> QED
  BY <1>2, <1>3, <1>4, <1>5, <1>6, <1>7 DEF Next

\* A Pipe delivers what was sent in order, without loss or repetition, and its
\* end means that everything has been delivered, unless it broke: what the
\* callers of io.Copy take for granted (conn.go:36-45, bridge.c:110-163).
THEOREM Reliable == Spec => [](InOrder /\ WholeAtEnd)
<1>1. Init => PipeInv
  BY InitPipe
<1>2. PipeInv /\ [Next]_vars => PipeInv'
  BY StepPipe
<1>3. PipeInv => InOrder /\ WholeAtEnd
  BY DEF PipeInv
<1> QED
  BY <1>1, <1>2, <1>3, PTL DEF Spec

\* Nothing is delivered after the end, and nothing sent is taken back.
Settled == [][/\ eof => UNCHANGED got
              /\ Len(got') >= Len(got) /\ sent' >= sent
              /\ eof /\ ~broken => UNCHANGED sent]_vars

\* The end of a Pipe is final: a reader that stops there misses nothing, and
\* what it has is never taken back (conn.go:36-45).
THEOREM EndIsFinal == Spec => Settled
<1>1. Init => PipeInv
  BY InitPipe
<1>2. PipeInv /\ [Next]_vars => PipeInv'
  BY StepPipe
<1>3. PipeInv /\ [Next]_vars =>
        [/\ eof => UNCHANGED got
         /\ Len(got') >= Len(got) /\ sent' >= sent
         /\ eof /\ ~broken => UNCHANGED sent]_vars
  <2> SUFFICES ASSUME PipeInv, Next
               PROVE  /\ eof => UNCHANGED got
                      /\ Len(got') >= Len(got) /\ sent' >= sent
                      /\ eof /\ ~broken => UNCHANGED sent
    OBVIOUS
  <2>1. Len(got) \in Nat /\ sent \in Nat
    BY LenProperties DEF PipeInv
  <2>2. CASE Deliver
    <3>1. got \in Seq(Nat) /\ Len(got) + 1 \in Nat
      BY <2>1 DEF PipeInv
    <3>2. Len(Append(got, Len(got) + 1)) = Len(got) + 1
      BY <3>1, AppendProperties
    <3> QED
      BY <2>1, <2>2, <3>2 DEF Deliver
  <2>3. CASE Send
    BY <2>1, <2>3 DEF Send, PipeInv, WholeAtEnd
  <2>4. CASE Close \/ End \/ Break
    <3>1. got' = got /\ sent' = sent
      BY <2>4 DEF Close, End, Break
    <3> QED
      BY <2>1, <3>1
  <2> QED
    BY <2>2, <2>3, <2>4 DEF Next
<1> QED
  BY <1>1, <1>2, <1>3, PTL DEF Spec, Settled
=============================================================================
