--------------------------- MODULE IpcRingProofs ---------------------------
(***************************************************************************)
(* For every depth and every set of messages: the IPC ring keeps its type, *)
(* its indices never drift apart, and it implements the bounded FIFO.      *)
(***************************************************************************)
EXTENDS IpcRing, SequenceTheorems, TLAPS

\* Index arithmetic modulo the array size, for the sums the ring forms.
LEMMA ModSmall == \A a \in Index : a % Depth = a
BY DepthAssumption DEF Index

\* An index that has run off the end of the array wraps around once.
LEMMA ModLarge == \A a \in Depth .. (2 * Depth - 1) : a % Depth = a - Depth
BY DepthAssumption

\* A remainder is an index.
LEMMA ModIndex == \A a \in Nat : a % Depth \in Index
BY DepthAssumption DEF Index

\* Adding one step after reduction is the same as reducing after the step.
LEMMA ModStep ==
    ASSUME NEW h \in Index, NEW k \in 0 .. Depth
    PROVE  /\ (((h + k) % Depth) + 1) % Depth = (h + k + 1) % Depth
           /\ (((h + 1) % Depth) + k) % Depth = (h + k + 1) % Depth
<1>1. Depth \in Nat /\ Depth > 0
  BY DepthAssumption
<1>2. \A a \in Nat : a < Depth => a % Depth = a
  BY <1>1
<1>3. \A a \in Nat : Depth <= a /\ a < 2 * Depth => a % Depth = a - Depth
  BY <1>1
<1>4. (2 * Depth) % Depth = 0
  BY <1>1
<1>5. h \in Nat /\ h < Depth /\ k \in Nat /\ k <= Depth
  BY <1>1 DEF Index
<1>6. CASE h + 1 < Depth
  BY <1>1, <1>2, <1>3, <1>4, <1>5, <1>6
<1>7. CASE h + 1 = Depth
  BY <1>1, <1>2, <1>3, <1>4, <1>5, <1>7
<1> QED
  BY <1>1, <1>5, <1>6, <1>7

\* Two different places of the window are two different places of the array.
LEMMA WindowInjective ==
    ASSUME NEW h \in Index, NEW i \in 0 .. Depth, NEW j \in 0 .. Depth,
           i < j, j - i < Depth
    PROVE  (h + i) % Depth # (h + j) % Depth
<1>1. Depth \in Nat /\ Depth > 0
  BY DepthAssumption
<1>2. \A a \in Nat : a < Depth => a % Depth = a
  BY <1>1
<1>3. \A a \in Nat : Depth <= a /\ a < 2 * Depth => a % Depth = a - Depth
  BY <1>1
<1>4. h + j < 2 * Depth
  BY <1>1 DEF Index
<1> QED
  BY <1>1, <1>2, <1>3, <1>4 DEF Index

-----------------------------------------------------------------------------
\* The inductive invariant: the types and the relation between the indices.
Inv == TypeOK /\ TailIsHeadPlusLen

\* The empty ring satisfies the invariant.
LEMMA InitInv == Init => Inv
BY DepthAssumption, ZeroAssumption, ModSmall
   DEF Init, Inv, TypeOK, TailIsHeadPlusLen, Index, Answer

\* Every operation of the ring keeps it.
LEMMA NextInv == Inv /\ [Next]_vars => Inv'
<1> SUFFICES ASSUME Inv, [Next]_vars PROVE Inv'
  OBVIOUS
<1> USE DepthAssumption DEF Inv
<1>0. /\ Depth \in Nat /\ Depth > 0
      /\ head \in Nat /\ head < Depth
      /\ tail \in Nat /\ tail < Depth
      /\ len \in Nat /\ len <= Depth
  BY DEF TypeOK, Index
<1>1. ASSUME NEW m \in Msg, Enqueue(m) PROVE Inv'
  <2>1. out' \in Answer
    BY <1>1 DEF Enqueue, Answer
  <2>2. CASE len = Depth
    BY <1>1, <2>1, <2>2 DEF Enqueue, TypeOK, TailIsHeadPlusLen
  <2>3. CASE len # Depth
    <3>1. /\ buf' = [buf EXCEPT ![tail] = m]
          /\ tail' = (tail + 1) % Depth
          /\ len' = len + 1
          /\ head' = head
      BY <1>1, <2>3 DEF Enqueue
    <3>2. buf' \in [Index -> Msg]
      BY <3>1 DEF TypeOK
    <3>3. tail' \in Index
      BY <1>0, <3>1, ModIndex
    <3>4. len' \in 0 .. Depth
      BY <1>0, <2>3, <3>1
    <3>5. head + len' = head + len + 1
      BY <1>0, <3>1
    <3>6. TailIsHeadPlusLen'
      BY <3>1, <3>5, ModStep DEF TypeOK, TailIsHeadPlusLen
    <3> QED BY <2>1, <3>1, <3>2, <3>3, <3>4, <3>6 DEF TypeOK
  <2> QED BY <2>2, <2>3
<1>2. CASE Dequeue
  <2>1. CASE len = 0
    <3>1. out' \in Answer
      BY <1>2, <2>1 DEF Dequeue, Answer
    <3> QED BY <1>2, <2>1, <3>1 DEF Dequeue, TypeOK, TailIsHeadPlusLen
  <2>2. CASE len # 0
    <3>1. /\ out' = [op |-> "delivered", msg |-> buf[head]]
          /\ head' = (head + 1) % Depth
          /\ len' = len - 1
          /\ buf' = buf /\ tail' = tail
      BY <1>2, <2>2 DEF Dequeue
    <3>2. buf[head] \in Msg
      BY DEF TypeOK
    <3>3. out' \in Answer
      BY <3>1, <3>2 DEF Answer
    <3>4. head' \in Index
      BY <1>0, <3>1, ModIndex
    <3>5. len' \in 0 .. Depth /\ head + len' + 1 = head + len
      BY <1>0, <2>2, <3>1
    <3>6. TailIsHeadPlusLen'
      BY <3>1, <3>5, ModStep DEF TypeOK, TailIsHeadPlusLen
    <3> QED BY <3>1, <3>3, <3>4, <3>5, <3>6 DEF TypeOK
  <2> QED BY <2>1, <2>2
<1>3. CASE Clear
  <2>1. out' \in Answer /\ 0 \in Index
    BY <1>0, <1>3 DEF Clear, Answer, Index
  <2>2. 0 % Depth = 0
    BY <2>1, ModSmall
  <2> QED BY <1>0, <1>3, <2>1, <2>2 DEF Clear, TypeOK, TailIsHeadPlusLen
<1>4. CASE UNCHANGED vars
  BY <1>4 DEF vars, TypeOK, TailIsHeadPlusLen
<1> QED
  BY <1>1, <1>2, <1>3, <1>4 DEF Next

\* Every access of enqueue and dequeue is inside the array, in every
\* reachable state, whatever IPC_QUEUE_DEPTH is.
THEOREM RingTypeCorrect == Spec => []TypeOK
<1>1. Inv => TypeOK
  BY DEF Inv
<1> QED
  BY <1>1, InitInv, NextInv, PTL DEF Spec

\* The read index, the write index and the length never drift apart.
THEOREM RingIndicesAgree == Spec => []TailIsHeadPlusLen
<1>1. Inv => TailIsHeadPlusLen
  BY DEF Inv
<1> QED
  BY <1>1, InitInv, NextInv, PTL DEF Spec

-----------------------------------------------------------------------------
\* A function on 1 .. n is a sequence of length n.
LEMMA FunctionIsSeq ==
    ASSUME NEW n \in Nat, NEW f \in [1 .. n -> Msg]
    PROVE  f \in Seq(Msg) /\ Len(f) = n
<1>1. f \in Seq(Msg)
  BY SeqDef
<1> QED
  BY <1>1, LenProperties

\* The window of the ring read as a sequence.
LEMMA ContentsSeq ==
    ASSUME Inv
    PROVE  /\ Contents \in Seq(Msg)
           /\ Len(Contents) = len
           /\ \A i \in 1 .. len : Contents[i] = buf[(head + i - 1) % Depth]
<1>1. len \in Nat /\ head \in Nat
  BY DepthAssumption DEF Inv, TypeOK, Index
<1>2. \A i \in 1 .. len : buf[(head + i - 1) % Depth] \in Msg
  <2> TAKE i \in 1 .. len
  <2>1. head + i - 1 \in Nat
    BY <1>1
  <2> QED BY <2>1, ModIndex DEF Inv, TypeOK
<1>3. Contents \in [1 .. len -> Msg]
  BY <1>2 DEF Contents
<1>4. \A i \in 1 .. len : Contents[i] = buf[(head + i - 1) % Depth]
  BY DEF Contents
<1> QED
  BY <1>1, <1>3, <1>4, FunctionIsSeq

\* A ring of length 0 holds the empty sequence.
LEMMA EmptyContents == len = 0 => Contents = << >>
BY DEF Contents

\* Storing a message at the write index appends it to the window: no pending
\* message is overwritten.
LEMMA EnqueueAppends ==
    ASSUME Inv, NEW m \in Msg, Enqueue(m), len # Depth
    PROVE  Contents' = Append(Contents, m)
<1>1. /\ Depth \in Nat /\ Depth > 0
      /\ head \in Index /\ tail \in Index
      /\ len \in Nat /\ len < Depth
      /\ tail = (head + len) % Depth
      /\ buf \in [Index -> Msg]
  BY DepthAssumption DEF Inv, TypeOK, TailIsHeadPlusLen
<1>2. /\ buf' = [buf EXCEPT ![tail] = m]
      /\ len' = len + 1
      /\ head' = head
  BY DEF Enqueue
<1>3. Contents' = [i \in 1 .. len + 1 |-> buf'[(head + i - 1) % Depth]]
  BY <1>2 DEF Contents
<1>4. Append(Contents, m) =
        [i \in 1 .. len + 1 |-> IF i <= len THEN Contents[i] ELSE m]
  <2> DEFINE s == Append(Contents, m)
  <2>1. /\ s \in Seq(Msg) /\ Len(s) = len + 1
        /\ \A i \in 1 .. len : s[i] = Contents[i]
        /\ s[len + 1] = m
    BY ContentsSeq, AppendProperties
  <2>2. s \in [1 .. len + 1 -> Msg]
    BY <2>1, LenProperties
  <2>3. \A i \in 1 .. len + 1 : s[i] = IF i <= len THEN Contents[i] ELSE m
    BY <1>1, <2>1
  <2> HIDE DEF s
  <2>4. s = [i \in 1 .. len + 1 |-> IF i <= len THEN Contents[i] ELSE m]
    BY <2>2, <2>3
  <2> QED BY <2>4 DEF s
<1>5. ASSUME NEW i \in 1 .. len + 1
      PROVE  buf'[(head + i - 1) % Depth] = IF i <= len THEN Contents[i] ELSE m
  <2>1. CASE i <= len
    <3>1. /\ i - 1 \in 0 .. Depth /\ len \in 0 .. Depth
          /\ i - 1 < len /\ len - (i - 1) < Depth
          /\ head + (i - 1) = head + i - 1
      BY <1>1, <2>1 DEF Index
    <3>2. (head + i - 1) % Depth # tail
      BY <1>1, <3>1, WindowInjective
    <3>3. Contents[i] = buf[(head + i - 1) % Depth]
      BY <1>1, <2>1, ContentsSeq
    <3>4. (head + i - 1) % Depth \in Index
      BY <1>1, <3>1, ModIndex DEF Index
    <3> QED BY <1>1, <1>2, <2>1, <3>2, <3>3, <3>4
  <2>2. CASE i = len + 1
    <3>1. head + i - 1 = head + len
      BY <1>1, <2>2 DEF Index
    <3> QED BY <1>1, <1>2, <2>2, <3>1
  <2> QED BY <1>1, <2>1, <2>2
<1> QED
  BY <1>3, <1>4, <1>5

\* Advancing the read index removes the oldest message and no other.
LEMMA DequeueTakesHead ==
    ASSUME Inv, Dequeue, len # 0
    PROVE  /\ Contents # << >>
           /\ buf[head] = Head(Contents)
           /\ Contents' = Tail(Contents)
<1>1. /\ Depth \in Nat /\ Depth > 0
      /\ head \in Index /\ head \in Nat
      /\ len \in Nat /\ len > 0 /\ len <= Depth
  BY DepthAssumption DEF Inv, TypeOK, Index
<1>2. /\ head' = (head + 1) % Depth
      /\ len' = len - 1
      /\ buf' = buf
  BY DEF Dequeue
<1>3. Contents # << >> /\ Head(Contents) = Contents[1]
  BY <1>1, ContentsSeq
<1>4. Contents[1] = buf[head]
  <2>1. head + 1 - 1 = head /\ 1 \in 1 .. len
    BY <1>1
  <2> QED BY <1>1, <2>1, ContentsSeq, ModSmall
<1>5. Tail(Contents) = [i \in 1 .. len - 1 |-> Contents[i + 1]]
  <2> DEFINE s == Tail(Contents)
  <2>1. /\ s \in Seq(Msg) /\ Len(s) = len - 1
        /\ \A i \in 1 .. len - 1 : s[i] = Contents[i + 1]
    BY <1>3, ContentsSeq, HeadTailProperties
  <2>2. s \in [1 .. len - 1 -> Msg]
    BY <2>1, LenProperties
  <2> HIDE DEF s
  <2>3. s = [i \in 1 .. len - 1 |-> Contents[i + 1]]
    BY <2>1, <2>2
  <2> QED BY <2>3 DEF s
<1>6. Contents' = [i \in 1 .. len - 1 |-> buf[(((head + 1) % Depth) + i - 1) % Depth]]
  BY <1>2 DEF Contents
<1>7. ASSUME NEW i \in 1 .. len - 1
      PROVE  buf[(((head + 1) % Depth) + i - 1) % Depth] = Contents[i + 1]
  <2>1. /\ i - 1 \in 0 .. Depth
        /\ i + 1 \in 1 .. len
        /\ head + (i - 1) + 1 = head + (i + 1) - 1
    BY <1>1
  <2>2. ((head + 1) % Depth) + i - 1 = ((head + 1) % Depth) + (i - 1)
    BY <1>1, ModIndex DEF Index
  <2>3. (((head + 1) % Depth) + (i - 1)) % Depth = (head + (i - 1) + 1) % Depth
    BY <1>1, <2>1, ModStep
  <2> QED BY <1>1, <2>1, <2>2, <2>3, ContentsSeq
<1> QED
  BY <1>3, <1>4, <1>5, <1>6, <1>7

\* The empty ring is the empty queue.
LEMMA InitRefines == Init => Fifo!Init
BY EmptyContents DEF Init, Fifo!Init

\* Every operation of the ring is one of the queue.
LEMMA StepRefines == Inv /\ [Next]_vars => [Fifo!Next]_(Fifo!vars)
<1> SUFFICES ASSUME Inv, [Next]_vars PROVE [Fifo!Next]_(Fifo!vars)
  OBVIOUS
<1>0. Len(Contents) = len /\ len \in 0 .. Depth /\ Depth \in Nat
  BY ContentsSeq, DepthAssumption DEF Inv, TypeOK
<1>1. ASSUME NEW m \in Msg, Enqueue(m) PROVE Fifo!Next
  <2>1. CASE len = Depth
    <3>1. Contents' = Contents
      BY <1>1, <2>1 DEF Enqueue, Contents
    <3>2. Fifo!Enqueue(m)
      BY <1>0, <1>1, <2>1, <3>1 DEF Enqueue, Fifo!Enqueue
    <3> QED BY <3>2 DEF Fifo!Next
  <2>2. CASE len # Depth
    <3>1. Fifo!Enqueue(m)
      BY <1>0, <1>1, <2>2, EnqueueAppends DEF Enqueue, Fifo!Enqueue
    <3> QED BY <3>1 DEF Fifo!Next
  <2> QED BY <2>1, <2>2
<1>2. CASE Dequeue
  <2>1. CASE len = 0
    <3>1. Contents' = Contents /\ Contents = << >>
      BY <1>2, <2>1, EmptyContents DEF Dequeue, Contents
    <3> QED BY <1>2, <2>1, <3>1 DEF Dequeue, Fifo!Dequeue, Fifo!Next
  <2>2. CASE len # 0
    BY <1>2, <2>2, DequeueTakesHead DEF Dequeue, Fifo!Dequeue, Fifo!Next
  <2> QED BY <2>1, <2>2
<1>3. CASE Clear
  <2>1. Contents' = << >>
    BY <1>3 DEF Clear, Contents
  <2> QED BY <1>3, <2>1 DEF Clear, Fifo!Clear, Fifo!Next
<1>4. CASE UNCHANGED vars
  BY <1>4 DEF vars, Fifo!vars, Contents
<1> QED
  BY <1>1, <1>2, <1>3, <1>4 DEF Next

\* The ring buffer implements the bounded FIFO, for every depth: no message is
\* lost, duplicated, reordered or resurrected by wrap-around or by ipc_clear.
THEOREM RingImplementsFifo == Spec => RingIsFifo
<1>1. Spec => []Inv
  BY InitInv, NextInv, PTL DEF Spec
<1> QED
  BY <1>1, InitRefines, StepRefines, PTL DEF Spec, RingIsFifo, Fifo!Spec
=============================================================================
