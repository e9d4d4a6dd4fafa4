----------------------------- MODULE Pms5003Uart -----------------------------
(***************************************************************************)
(* How the ESP32 takes frames off the serial line of the PMS5003:          *)
(* src/esp-device/main/c/pms5003.c, called from vTaskPms5003.  The sensor  *)
(* sends frames of FrameSize bytes without being asked.  The interrupt     *)
(* handler of the UART driver buffers them, while the task goes through    *)
(* read_data_pms5003_uart, and drops what does not fit.                    *)
(*                                                                         *)
(* The bytes of the stream are numbered from 0 and stand for their values: *)
(* frame k is made of the FrameSize bytes from k * FrameSize on.            *)
(***************************************************************************)
EXTENDS Integers, Sequences, FiniteSets

CONSTANTS FrameSize,   \* sizeof(pms5003_sensor_data)
          BufferSize,  \* PMS5003_UART_BUFFER_SIZE
          MaxSent,     \* bound: bytes that the sensor sends
          MaxAltered   \* bound: bytes that the line alters

ASSUME FrameSizeAssumption == FrameSize \in Nat \ {0}
ASSUME BufferSizeAssumption == BufferSize \in Nat
ASSUME MaxSentAssumption == MaxSent \in Nat
ASSUME MaxAlteredAssumption == MaxAltered \in Nat

VARIABLES
  sent,      \* bytes sent so far
  altered,   \* those of them that the line altered
  buffer,    \* the driver's receive buffer
  step,      \* the next step of the task
  size,      \* data_size of vTaskPms5003
  got,       \* sensor_data; empty until something is read into it
  opened,    \* history: the first byte sent after the last uart_flush
  period,    \* history: the first byte sent after the uart_flush before it
  reported,  \* history: the first byte after those posted last, 0 if none were
  posts      \* history: frames posted so far

vars == <<sent, altered, buffer, step, size, got, opened, period, reported, posts>>
sensor == <<sent, altered>>
history == <<opened, period, reported, posts>>

Boundary(n) == \E k \in 0..n : n = k * FrameSize
FrameAt(n) == n..(n + FrameSize - 1)

\* As many bytes as a frame has, from byte n on and none missing.
BytesFrom(n) == [i \in 1..FrameSize |-> n + i - 1]

\* The driver is installed at any point of the stream.
Init ==
  /\ sent \in 0..(FrameSize - 1)
  /\ altered = {}
  /\ buffer = <<>>
  /\ step = "length"
  /\ size = 0
  /\ got = <<>>
  /\ opened = sent
  /\ period = sent
  /\ reported = 0
  /\ posts = 0

\* A byte arrives.  A full buffer keeps what it has.
Receive(bad) ==
  /\ sent < MaxSent
  /\ bad => Cardinality(altered) < MaxAltered
  /\ sent' = sent + 1
  /\ altered' = IF bad THEN altered \union {sent} ELSE altered
  /\ buffer' = IF Len(buffer) < BufferSize THEN Append(buffer, sent) ELSE buffer
  /\ UNCHANGED <<step, size, got, history>>

\* uart_get_buffered_data_len
GetLength ==
  /\ step = "length"
  /\ size' = Len(buffer)
  /\ step' = IF Len(buffer) >= FrameSize THEN "read" ELSE "flush"
  /\ UNCHANGED <<sensor, buffer, got, history>>

Take(bytes, rest) ==
  /\ step = "read"
  /\ got' = bytes
  /\ size' = Len(bytes)
  /\ buffer' = rest
  /\ step' = "flush"
  /\ UNCHANGED <<sensor, history>>

\* Mutants: as much is asked for as is buffered, and written past the end of
\* sensor_data; what is buffered beyond a frame is thrown away before the read.
MutReadAll == Take(buffer, <<>>)

MutReadBytes ==
  Take(SubSeq(buffer, Len(buffer) - FrameSize + 1, Len(buffer)), <<>>)

\* uart_read_bytes finds the bytes it wants buffered: only this task takes any.
ReadBytes ==
  Take(SubSeq(buffer, 1, FrameSize), SubSeq(buffer, FrameSize + 1, Len(buffer)))

\* Mutants: the caller does not look at data_size; nothing is discarded.
MutFlushUnsized ==
  /\ step = "flush"
  /\ buffer' = <<>>
  /\ opened' = sent
  /\ period' = opened
  /\ step' = IF got # <<>> THEN "validate" ELSE "delay"
  /\ UNCHANGED <<sensor, size, got, reported, posts>>

MutFlushNothing ==
  /\ step = "flush"
  /\ opened' = sent
  /\ period' = opened
  /\ step' = IF size >= FrameSize THEN "validate" ELSE "delay"
  /\ UNCHANGED <<sensor, buffer, size, got, reported, posts>>

\* uart_flush, and the check of data_size in vTaskPms5003.
Flush ==
  /\ step = "flush"
  /\ buffer' = <<>>
  /\ opened' = sent
  /\ period' = opened
  /\ step' = IF size >= FrameSize THEN "validate" ELSE "delay"
  /\ UNCHANGED <<sensor, size, got, reported, posts>>

\* What pms5003_validate_data may say of the bytes read.  Those of a frame are
\* valid as they were sent, and not with one of them altered (AlteredByteIsFound of
\* CodecsProofs).  Several altered bytes may make up for each other, and bytes that
\* are parts of two frames may hold the header's two and agree with the sum.
IsFrame(bytes) == Boundary(bytes[1]) /\ bytes = BytesFrom(bytes[1])
Touched(bytes) == Cardinality({i \in 1..FrameSize : bytes[i] \in altered})

Verdict(valid) ==
  IsFrame(got) => /\ Touched(got) = 0 => valid
                  /\ Touched(got) = 1 => ~valid

\* vTaskPms5003 posts a frame that validates, stamped with the present time, and
\* skips another one.
PostIf(valid) ==
  IF valid
    THEN reported' = got[FrameSize] + 1 /\ posts' = posts + 1
    ELSE UNCHANGED <<reported, posts>>

Validate ==
  /\ step = "validate"
  /\ \E valid \in BOOLEAN : Verdict(valid) /\ PostIf(valid)
  /\ step' = "delay"
  /\ UNCHANGED <<sensor, buffer, size, got, opened, period>>

Wake ==
  /\ step = "delay"
  /\ step' = "length"
  /\ UNCHANGED <<sensor, buffer, size, got, history>>

Next ==
  \/ \E bad \in BOOLEAN : Receive(bad)
  \/ GetLength \/ ReadBytes \/ Flush \/ Validate \/ Wake

Spec == Init /\ [][Next]_vars

-----------------------------------------------------------------------------
TypeOK ==
  /\ sent \in Nat
  /\ altered \subseteq 0..(sent - 1)
  /\ buffer \in Seq(Nat) /\ Len(buffer) <= BufferSize
  /\ step \in {"length", "read", "flush", "validate", "delay"}
  /\ size \in Nat
  /\ got = <<>> \/ got \in [1..FrameSize -> Nat]
  /\ opened \in Nat
  /\ period \in Nat
  /\ reported \in Nat
  /\ posts \in Nat

\* No byte is posted twice, and the frames are posted in the order in which
\* they were sent (read_data_pms5003_uart, vTaskPms5003).
NoByteTwice ==
  [][posts' # posts => \A i \in 1..FrameSize : got[i] >= reported]_vars

\* What is posted is the oldest of its period, not the newest: the bytes right
\* after the flush before the last, none of them missing, whatever came in since
\* and however full the buffer was (read_data_pms5003_uart).
ReportIsOldest == [][posts' # posts => got = BytesFrom(period)]_vars

\* A period that was read costs its measurement only if a flush had cut the frame
\* that it begins with, or the line altered that frame (read_data_pms5003_uart,
\* pms5003_validate_data).
SkipsOnlyBroken ==
  [][ step = "validate" /\ step' # "validate" /\ posts' = posts =>
        ~Boundary(period) \/ FrameAt(period) \intersect altered # {} ]_vars
=============================================================================
