-------------------------- MODULE Pms5003UartProofs --------------------------
(***************************************************************************)
(* Proofs about Pms5003Uart, for any frame, any buffer and any stream.     *)
(***************************************************************************)
EXTENDS Pms5003Uart, FiniteSetTheorems, TLAPS

\* Between the flush and the next read the buffer holds what was sent since the
\* flush, byte for byte, until it is full.
Gapless ==
  /\ opened + Len(buffer) <= sent
  /\ Len(buffer) < BufferSize => sent = opened + Len(buffer)
  /\ \A i \in 1..Len(buffer) : buffer[i] = opened + i - 1

\* data_size tells whether sensor_data was read in this period, and from where.
BufferInv ==
  /\ opened <= sent /\ period <= opened
  /\ step # "flush" => Gapless
  /\ step = "read" => Len(buffer) >= FrameSize
  /\ step = "flush" /\ size >= FrameSize =>
       got = BytesFrom(opened) /\ opened + FrameSize <= sent
  /\ step = "validate" => got = BytesFrom(period) /\ period + FrameSize <= opened

\* What was posted had been sent before the buffer was last opened.
ReportInv ==
  /\ step # "validate" => reported <= opened
  /\ step = "validate" => reported <= period

IInv == TypeOK /\ BufferInv /\ ReportInv

LEMMA InitIInv == Init => IInv
<1> SUFFICES ASSUME Init PROVE IInv
  OBVIOUS
<1>1. sent \in Nat
  BY FrameSizeAssumption DEF Init
<1>2. <<>> \in Seq(Nat) /\ Len(<<>>) = 0
  OBVIOUS
<1> QED
  BY <1>1, <1>2, FrameSizeAssumption, BufferSizeAssumption
  DEF Init, IInv, TypeOK, BufferInv, Gapless, ReportInv

\* A byte that arrives goes to the end of the buffer or nowhere.
LEMMA ReceiveStep ==
  ASSUME IInv, NEW bad \in BOOLEAN, Receive(bad)
  PROVE  IInv'
<1> USE FrameSizeAssumption, BufferSizeAssumption DEF IInv, TypeOK, Receive, history
<1>1. buffer' \in Seq(Nat) /\ Len(buffer') <= BufferSize
  BY DEF Receive
<1>2. TypeOK'
  BY <1>1
<1>3. ASSUME Gapless PROVE Gapless'
  <2>1. CASE Len(buffer) < BufferSize
    <3>1. buffer' = Append(buffer, sent) /\ sent = opened + Len(buffer)
      BY <1>3, <2>1 DEF Gapless
    <3>2. Len(buffer') = Len(buffer) + 1
      BY <3>1
    <3>3. \A i \in 1..Len(buffer') : buffer'[i] = opened + i - 1
      <4> SUFFICES ASSUME NEW i \in 1..(Len(buffer) + 1)
                   PROVE  Append(buffer, sent)[i] = opened + i - 1
        BY <3>1, <3>2
      <4>1. CASE i = Len(buffer) + 1
        BY <3>1, <4>1
      <4>2. CASE i # Len(buffer) + 1
        <5>1. i \in 1..Len(buffer)
          BY <4>2
        <5>2. Append(buffer, sent)[i] = buffer[i]
          BY <5>1
        <5> QED
          BY <1>3, <5>1, <5>2 DEF Gapless
      <4> QED
        BY <4>1, <4>2
    <3> QED
      BY <3>1, <3>2, <3>3 DEF Gapless
  <2>2. CASE ~(Len(buffer) < BufferSize)
    BY <1>3, <2>2 DEF Gapless
  <2> QED
    BY <2>1, <2>2
<1>4. step = "read" => Len(buffer') >= FrameSize
  BY DEF BufferInv
<1>5. BufferInv'
  BY <1>3, <1>4 DEF BufferInv
<1> QED
  BY <1>2, <1>5 DEF ReportInv

\* The bytes read are the first since the flush.
LEMMA ReadStep ==
  ASSUME IInv, ReadBytes
  PROVE  IInv'
<1> USE FrameSizeAssumption, BufferSizeAssumption
    DEF IInv, TypeOK, ReadBytes, Take, sensor, history
<1>1. Len(buffer) >= FrameSize /\ Gapless
  BY DEF BufferInv
<1>2. /\ got' \in Seq(Nat) /\ Len(got') = FrameSize
      /\ \A i \in 1..FrameSize : got'[i] = buffer[i]
  BY <1>1
<1>3. /\ buffer' \in Seq(Nat)
      /\ Len(buffer') = Len(buffer) - FrameSize
  BY <1>1
<1>4. got' = BytesFrom(opened)
  BY <1>1, <1>2 DEF Gapless, BytesFrom
<1>5. got' \in [1..FrameSize -> Nat]
  <2>1. \A i \in 1..FrameSize : opened + i - 1 \in Nat
    OBVIOUS
  <2> HIDE DEF ReadBytes, Take
  <2> QED
    BY <1>4, <2>1 DEF BytesFrom
<1>6. opened + FrameSize <= sent
  BY <1>1 DEF Gapless
<1>7. size' = FrameSize /\ step' = "flush" /\ UNCHANGED <<sent, altered, opened, period, reported, posts>>
  BY <1>2
<1>8. TypeOK'
  BY <1>3, <1>5, <1>7
<1>9. BytesFrom(opened)' = BytesFrom(opened)
  BY <1>7 DEF BytesFrom
<1>10. BufferInv'
  BY <1>4, <1>6, <1>7, <1>9 DEF BufferInv
<1> QED
  BY <1>7, <1>8, <1>10 DEF ReportInv

LEMMA StepIInv == IInv /\ [Next]_vars => IInv'
<1> SUFFICES ASSUME IInv, [Next]_vars PROVE IInv'
  OBVIOUS
<1> USE FrameSizeAssumption, BufferSizeAssumption
    DEF IInv, TypeOK, BufferInv, ReportInv, sensor, history
<1>1. ASSUME NEW bad \in BOOLEAN, Receive(bad) PROVE IInv'
  BY <1>1, ReceiveStep
<1>2. CASE GetLength
  BY <1>2 DEF GetLength, Gapless, BytesFrom
<1>3. CASE ReadBytes
  BY <1>3, ReadStep
<1>4. CASE Flush
  <2>1. buffer' = <<>> /\ <<>> \in Seq(Nat) /\ Len(<<>>) = 0
    BY <1>4 DEF Flush
  <2>2. Gapless'
    BY <1>4, <2>1 DEF Flush, Gapless
  <2>3. BytesFrom(period)' = BytesFrom(opened)
    BY <1>4 DEF Flush, BytesFrom
  <2> QED
    BY <1>4, <2>1, <2>2, <2>3 DEF Flush
<1>5. CASE Validate
  <2>1. PICK valid \in BOOLEAN : PostIf(valid)
    BY <1>5 DEF Validate
  <2>2. got[FrameSize] + 1 = period + FrameSize
    BY <1>5 DEF Validate, BytesFrom
  <2>3. /\ posts' \in Nat /\ reported' \in {reported, period + FrameSize}
    BY <2>1, <2>2 DEF PostIf
  <2>4. Gapless'
    BY <1>5 DEF Validate, Gapless
  <2> QED
    BY <1>5, <2>3, <2>4 DEF Validate
<1>6. CASE Wake
  BY <1>6 DEF Wake, Gapless, BytesFrom
<1>7. CASE UNCHANGED vars
  BY <1>7 DEF vars, Gapless, BytesFrom
<1> QED
  BY <1>1, <1>2, <1>3, <1>4, <1>5, <1>6, <1>7 DEF Next

\* The invariant that the theorems rest on.
THEOREM Invariance == Spec => []IInv
BY InitIInv, StepIInv, PTL DEF Spec

\* Only Validate posts, and it posts what was read after the flush before the
\* last.
LEMMA PostsAre ==
  ASSUME IInv, [Next]_vars, posts' # posts
  PROVE  got = BytesFrom(period) /\ reported <= period
<1>1. Validate
  BY DEF Next, vars, history, Receive, GetLength, ReadBytes, Take, Flush, Wake
<1> QED
  BY <1>1 DEF IInv, BufferInv, ReportInv, Validate

\* The variables keep their types (pms5003.c).
THEOREM TypeCorrect == Spec => []TypeOK
<1>1. IInv => TypeOK
  BY DEF IInv
<1> QED
  BY <1>1, Invariance, PTL

\* No byte is posted twice (read_data_pms5003_uart, vTaskPms5003).
THEOREM NoByteIsPostedTwice == Spec => NoByteTwice
<1>1. IInv /\ [Next]_vars => (posts' # posts => \A i \in 1..FrameSize : got[i] >= reported)
  <2> SUFFICES ASSUME IInv, [Next]_vars, posts' # posts, NEW i \in 1..FrameSize
               PROVE  got[i] >= reported
    OBVIOUS
  <2>1. got[i] = period + i - 1
    BY PostsAre DEF BytesFrom
  <2> QED
    BY <2>1, PostsAre, FrameSizeAssumption DEF IInv, TypeOK
<1> QED
  BY <1>1, Invariance, PTL DEF Spec, NoByteTwice

\* What is posted is the oldest of its period (read_data_pms5003_uart).
THEOREM ReportsAreOldest == Spec => ReportIsOldest
<1>1. IInv /\ [Next]_vars => (posts' # posts => got = BytesFrom(period))
  BY PostsAre
<1> QED
  BY <1>1, Invariance, PTL DEF Spec, ReportIsOldest

\* A frame that is whole and unaltered when its period is read is posted
\* (read_data_pms5003_uart, pms5003_validate_data).
THEOREM OnlyBrokenAreSkipped == Spec => SkipsOnlyBroken
<1> DEFINE Broken == ~Boundary(period) \/ FrameAt(period) \intersect altered # {}
<1>1. IInv /\ [Next]_vars =>
        (step = "validate" /\ step' # "validate" /\ posts' = posts => Broken)
  <2> SUFFICES ASSUME IInv, [Next]_vars, step = "validate", step' # "validate",
                      posts' = posts, Boundary(period),
                      FrameAt(period) \intersect altered = {}
               PROVE  FALSE
    BY DEF Broken
  <2>1. Validate
    BY DEF Next, vars, history, Receive, GetLength, ReadBytes, Take, Flush, Wake
  <2>2. got = BytesFrom(period) /\ period \in Nat /\ posts \in Nat
    BY DEF IInv, BufferInv, TypeOK
  <2>3. got[1] = period
    BY <2>2, FrameSizeAssumption DEF BytesFrom
  <2>4. IsFrame(got)
    BY <2>2, <2>3 DEF IsFrame
  <2>5. {i \in 1..FrameSize : got[i] \in altered} = {}
    <3>1. ASSUME NEW i \in 1..FrameSize PROVE got[i] \notin altered
      <4>1. got[i] \in FrameAt(period)
        BY <2>2, FrameSizeAssumption DEF BytesFrom, FrameAt
      <4> QED
        BY <4>1
    <3> QED
      BY <3>1
  <2>6. Touched(got) = 0
    BY <2>5, FS_EmptySet DEF Touched
  <2>7. PICK valid \in BOOLEAN : Verdict(valid) /\ PostIf(valid)
    BY <2>1 DEF Validate
  <2>8. valid
    BY <2>4, <2>6, <2>7 DEF Verdict
  <2> QED
    BY <2>2, <2>7, <2>8 DEF PostIf
<1> QED
  BY <1>1, Invariance, PTL DEF Spec, SkipsOnlyBroken
=============================================================================
