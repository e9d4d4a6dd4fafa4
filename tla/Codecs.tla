------------------------------- MODULE Codecs -------------------------------
(***************************************************************************)
(* The pure algorithms between the parts of the station: how the C server  *)
(* reads a form and a query (src/server), base64 (src/common), and what    *)
(* becomes of a frame on its way into a row (src/esp-device, then          *)
(* src/go-server and src/db).  Each is given as the code computes it and,  *)
(* for the first three, as it is defined without loops (Ref...).           *)
(*                                                                         *)
(* Texts are sequences of tokens: single characters where the algorithm    *)
(* looks at them, and words that it never takes apart at any other place   *)
(* than the end of a token.                                                *)
(***************************************************************************)
EXTENDS Integers, Sequences, FiniteSets, SequencesExt

CONSTANT BufferSize  \* PARSE_BUFFER_SIZE, in tokens

Positions(text, token) == {i \in DOMAIN text : text[i] = token}

\* The positions no later than i.
UpTo(S, i) == {j \in S : j <= i}

\* The k-th of a set of numbers, the smallest first.
Nth(S, k) == CHOOSE i \in S : Cardinality(UpTo(S, i)) = k

\* The tokens at some of the positions of a text.
Chosen(text, S) == [k \in 1..Cardinality(S) |-> text[Nth(S, k)]]

\* Where part k of a text ends: before its k-th separator, the last at its end.
Cut(text, sep, k) ==
  IF k = 0 THEN 0
  ELSE IF k > Cardinality(Positions(text, sep)) THEN Len(text) + 1
  ELSE Nth(Positions(text, sep), k)

\* The parts of a text between separators, empty ones included.
Split(text, sep) ==
  [k \in 1..(Cardinality(Positions(text, sep)) + 1) |->
     SubSeq(text, Cut(text, sep, k - 1) + 1, Cut(text, sep, k) - 1)]

-----------------------------------------------------------------------------
(***************************************************************************)
(* parseInsertPMS5003Body: five parameters, each a number or a text.       *)
(***************************************************************************)

Fields ==
  << [name |-> <<"device_", "timestamp">>, type |-> "uint64"],
     [name |-> <<"device_", "name">>, type |-> "text"],
     [name |-> <<"pm", "1", "0", "_standard">>, type |-> "uint16"],
     [name |-> <<"pm", "2", "5", "_standard">>, type |-> "uint16"],
     [name |-> <<"pm", "1", "0", "0", "_standard">>, type |-> "uint16"] >>

\* The fields a received name may stand for: strncmp looks at no more characters
\* than were received.
FieldsOf(name) == {f \in DOMAIN Fields : IsPrefix(name, Fields[f].name)}

Digits == <<"0", "1", "2", "3", "4", "5", "6", "7", "8", "9">>

\* How many characters after these are of a kind, one after the other.
Run(value, kind, from) ==
  Cardinality({n \in (from + 1)..Len(value) : \A i \in (from + 1)..n : value[i] \in kind})

\* strtol takes blanks and a sign before the digits.
Before(value) ==
  LET blanks == Run(value, {" "}, 0)
  IN IF blanks < Len(value) /\ value[blanks + 1] \in {"+", "-"} THEN blanks + 1 ELSE blanks

\* How much of a value it takes: nothing if there is no digit.
Taken(value) ==
  LET digits == Run(value, ToSet(Digits), Before(value))
  IN IF digits = 0 THEN 0 ELSE Before(value) + digits

\* And what it makes of it.
Number(value) ==
  LET from == Before(value)
      read[n \in from..Taken(value)] ==
        IF n = from THEN 0
        ELSE 10 * read[n - 1] + (CHOOSE d \in 0..9 : Digits[d + 1] = value[n])
  IN IF Taken(value) = 0 THEN 0
     ELSE IF from > 0 /\ value[from] = "-" THEN -read[Taken(value)] ELSE read[Taken(value)]

\* What is stored for a value; the numbers here fit into 64 bits, where a negative
\* one stands for itself plus 2^64.
Converted(f, value) ==
  IF Fields[f].type = "text" THEN value
  ELSE IF Fields[f].type = "uint16" THEN Number(value) % 2^16 ELSE Number(value)

Unset == [f \in DOMAIN Fields |-> {}]

\* What ends a string.
Nul == "NUL"

\* A cell of a buffer is written, the first cell that was not yet among them.
Put(buffer, i, cell) ==
  IF i <= Len(buffer) THEN [buffer EXCEPT ![i] = cell] ELSE Append(buffer, cell)

StartOfBody ==
  [name |-> <<>>,     \* currentParamNameBuffer
   buffer |-> <<>>,   \* currentParamBuffer, as far as it was ever written
   size |-> 0,        \* currentParamSize: the cells of this parameter
   inName |-> TRUE,
   fields |-> Unset,  \* what the caller's variables have been set to
   error |-> {},      \* the cell of buffer that errorBuffer points to, after a number
   found |-> 0, failed |-> FALSE]

\* The value as it stands in the buffer.
Current(st) == SubSeq(st.buffer, 1, st.size)

\* The end of a parameter.  Its value stays in the buffer, and the next one is
\* written over it, wherever errorBuffer points.
EndParam(st) ==
  LET buffer == Put(st.buffer, st.size + 1, Nul)
      f == Min(FieldsOf(st.name))
  IN IF FieldsOf(st.name) = {} THEN [st EXCEPT !.buffer = buffer, !.failed = TRUE]
     ELSE [name |-> <<>>, buffer |-> buffer, size |-> 0, inName |-> TRUE,
           fields |-> [st.fields EXCEPT ![f] = {Converted(f, Current(st))}],
           error |-> IF Fields[f].type = "text" THEN st.error ELSE {Taken(Current(st)) + 1},
           found |-> st.found + 1, failed |-> FALSE]

\* A character of a name or of a value.
Copied(st, t) ==
  IF st.inName THEN [st EXCEPT !.name = Append(@, t)]
  ELSE [st EXCEPT !.buffer = Put(@, st.size + 1, t), !.size = @ + 1]

\* Mutant: only the first = is dropped.
MutReadToken(st, t) ==
  IF st.failed THEN st
  ELSE IF t = "&" THEN EndParam(st)
  ELSE IF t = "=" /\ st.inName THEN [st EXCEPT !.inName = FALSE]
  ELSE Copied(st, t)

ReadToken(st, t) ==
  IF st.failed THEN st
  ELSE IF t = "&" THEN EndParam(st)
  ELSE IF t = "=" THEN [st EXCEPT !.inName = FALSE]
  ELSE Copied(st, t)

\* An empty string at errorBuffer is success.  Where no number was read it is not
\* initialised, and nobody can tell.
StatusOf(complete, left) ==
  IF ~complete THEN {1} ELSE IF left = {} THEN {0, 1} ELSE IF left = {FALSE} THEN {0} ELSE {1}

\* The body as far as it is read, a token at a time.
Reading(text) ==
  LET after[k \in 0..Len(text)] ==
        IF k = 0 THEN StartOfBody ELSE ReadToken(after[k - 1], text[k])
  IN after

\* The values it may return, and the fields it sets.  The end of the body ends a
\* parameter as a separator does.
ParseBody(body) ==
  LET st == Reading(Append(body, "&"))[Len(body) + 1]
  IN IF Len(body) >= BufferSize THEN [status |-> {1}, fields |-> Unset]
     ELSE [status |-> StatusOf(~st.failed /\ st.found = Len(Fields),
                               {st.buffer[e] # Nul : e \in st.error}),
           fields |-> st.fields]

\* The parts of a parameter, and the first field that its name begins, if any.
NameOf(param) == SubSeq(param, 1, Cut(param, "=", 1) - 1)

ValueOf(param) ==
  Chosen(param, {i \in DOMAIN param : i > Cut(param, "=", 1) /\ param[i] # "="})

FieldOf(param) == {f \in FieldsOf(NameOf(param)) : \A g \in FieldsOf(NameOf(param)) : f <= g}

\* The last of some parameters, if there are any.
Latest(ks) == {k \in ks : \A j \in ks : j <= k}

\* The same from the parameters of the body: each stands for the first field that
\* its name begins, up to one that stands for none; the last of a field counts.  Of
\* the text after the last number there is something left if the last value that
\* reaches so far goes on: the number's own, or that of a text after it.
RefParseBody(body) ==
  LET params == Split(body, "&")
      read == {k \in DOMAIN params : \A j \in 1..k : FieldOf(params[j]) # {}}
      Of(f) == {k \in read : f \in FieldOf(params[k])}
      numbers == {k \in read : \A f \in FieldOf(params[k]) : Fields[f].type # "text"}
      Size(k) == Len(ValueOf(params[k]))
      Reaching(l) == {k \in read : k >= l /\ Size(k) >= Taken(ValueOf(params[l]))}
      GoesOn(l) == \E k \in Latest(Reaching(l)) : Size(k) > Taken(ValueOf(params[l]))
  IN IF Len(body) >= BufferSize THEN [status |-> {1}, fields |-> Unset]
     ELSE [status |-> StatusOf(read = DOMAIN params /\ Cardinality(read) = Len(Fields),
                               {GoesOn(l) : l \in Latest(numbers)}),
           fields |-> [f \in DOMAIN Fields |->
                         {Converted(f, ValueOf(params[k])) : k \in Latest(Of(f))}]]

-----------------------------------------------------------------------------
(***************************************************************************)
(* extract_query_param.  A parameter that is the name and nothing more has *)
(* it copy -1 bytes, which ends the process.                               *)
(***************************************************************************)

Found(value) == [result |-> "found", value |-> value]
Missing == [result |-> "missing", value |-> <<>>]
Crashes == [result |-> "crashes", value |-> <<>>]

\* Mutant: a second ? starts a parameter.
MutStartsAt(endpoint, name, seen, i) ==
  /\ endpoint[i] = (IF seen THEN "&" ELSE "?") \/ endpoint[i] = "?"
  /\ IsPrefix(name, SubSeq(endpoint, i + 1, Len(endpoint)))

\* Whether what follows token i is the parameter: the = is not looked at.
StartsAt(endpoint, name, seen, i) ==
  /\ endpoint[i] = IF seen THEN "&" ELSE "?"
  /\ IsPrefix(name, SubSeq(endpoint, i + 1, Len(endpoint)))

\* What token i changes: the search for the name, then for the end of the parameter.
LookAt(endpoint, name, st, i) ==
  IF st.done THEN st
  ELSE IF st.start > 0
    THEN IF endpoint[i] = "&" THEN [st EXCEPT !.done = TRUE]
         ELSE [st EXCEPT !.len = @ + 1]
  ELSE [st EXCEPT !.start = IF StartsAt(endpoint, name, st.seen, i) THEN i + 1 ELSE 0,
                  !.seen = @ \/ endpoint[i] = "?"]

StartOfSearch == [start |-> 0, len |-> 0, seen |-> FALSE, done |-> FALSE]

\* The endpoint as far as it is searched, a token at a time.
Search(endpoint, name) ==
  LET after[i \in 0..Len(endpoint)] ==
        IF i = 0 THEN StartOfSearch ELSE LookAt(endpoint, name, after[i - 1], i)
  IN after

ExtractParam(endpoint, name) ==
  LET end == Search(endpoint, name)[Len(endpoint)]
      from == end.start + Len(name) + 1
      size == end.len - (Len(name) + 1)
  IN IF end.start = 0 \/ end.len = 0 THEN Missing
     ELSE IF size < 0 THEN Crashes
     ELSE Found(SubSeq(endpoint, from, from + size - 1))

\* The same from the parameters after the first ?: the first that begins with the
\* name, less one more token.
RefExtractParam(endpoint, name) ==
  IF Positions(endpoint, "?") = {} THEN Missing
  ELSE LET query == SubSeq(endpoint, Min(Positions(endpoint, "?")) + 1, Len(endpoint))
           params == Split(query, "&")
           hits == {k \in DOMAIN params : IsPrefix(name, params[k])}
       IN IF hits = {} THEN Missing
          ELSE LET p == params[Min(hits)]
               IN IF p = name THEN Crashes ELSE Found(SubSeq(p, Len(name) + 2, Len(p)))

-----------------------------------------------------------------------------
(***************************************************************************)
(* base64_encode and base64_decode, bit by bit.  A character is its index  *)
(* in the alphabet, the pad the next number, any other character a larger  *)
(* one; bytes are not 0, which would end the string.                       *)
(***************************************************************************)

Pad == 64

\* Mutant: from the lowest bit.
MutBitOf(x, width, n) == (x \div 2^n) % 2

\* Bit n of x, from the highest.
BitOf(x, width, n) == (x \div 2^(width - 1 - n)) % 2

\* What bit k of the bytes adds to the characters before.
EncodeBit(bytes, st, k) ==
  LET n == k - 1
      full == st.count = 6
      count == IF full THEN 0 ELSE st.count
      index == IF full THEN 0 ELSE st.index
  IN [out |-> IF full THEN Append(st.out, st.index) ELSE st.out,
      index |-> index + BitOf(bytes[n \div 8 + 1], 8, n % 8) * 2^(5 - count),
      count |-> count + 1]

\* What the bits make, one after the other.
Encoding(bytes) ==
  LET after[k \in 0..(8 * Len(bytes))] ==
        IF k = 0 THEN [out |-> <<>>, index |-> 0, count |-> 0]
        ELSE EncodeBit(bytes, after[k - 1], k)
  IN after

Encode(bytes) ==
  LET end == Encoding(bytes)[8 * Len(bytes)]
      chars == IF end.count = 0 THEN end.out ELSE Append(end.out, end.index)
  IN chars \o [k \in 1..(3 - ((Len(chars) + 3) % 4)) |-> Pad]

\* As RFC 4648 has it: three bytes are four digits of base 64.
RefEncode(bytes) ==
  LET n == Len(bytes)
      At(i) == IF i <= n THEN bytes[i] ELSE 0
      Word(g) == At(3*g + 1) * 2^16 + At(3*g + 2) * 2^8 + At(3*g + 3)
  IN [j \in 1..(4 * ((n + 2) \div 3)) |->
        LET g == (j - 1) \div 4
            digit == (j - 1) % 4
        IN IF 3*g + digit > n THEN Pad ELSE (Word(g) \div 64^(3 - digit)) % 64]

\* What bit k of the digits adds to the bytes before.
DecodeBit(data, st, k) ==
  LET n == k - 1
      byte == st.byte + BitOf(data[n \div 6 + 1], 6, n % 6) * 2^(7 - (n % 8))
  IN IF k % 8 = 0 THEN [out |-> Append(st.out, byte), byte |-> 0]
     ELSE [st EXCEPT !.byte = byte]

Decoding(data) ==
  LET after[k \in 0..(6 * Len(data))] ==
        IF k = 0 THEN [out |-> <<>>, byte |-> 0] ELSE DecodeBit(data, after[k - 1], k)
  IN after

\* The characters that are none of the alphabet.
Stops(chars) == {i \in DOMAIN chars : chars[i] >= Pad}

\* The bytes allocated and those written, up to the first of these; -1 is returned
\* unless it is the pad, and nothing in particular otherwise.
Decode(chars) ==
  LET pads == Cardinality(Positions(chars, Pad))
      data == IF Stops(chars) = {} THEN chars ELSE SubSeq(chars, 1, Min(Stops(chars)) - 1)
  IN [size |-> 3 * (((Len(chars) - pads) * 8) \div 24),
      bytes |-> Decoding(data)[6 * Len(data)].out,
      refused |-> Stops(chars) # {} /\ chars[Min(Stops(chars))] # Pad]

-----------------------------------------------------------------------------
(***************************************************************************)
(* From a frame to a row.  The device takes three measurements of a frame  *)
(* that validates and sends them as JSON; the server decodes them into     *)
(* int16 and refuses with 400 what is larger, and with 400 or the          *)
(* database's error a name with more characters than DEVICE_NAME has.      *)
(***************************************************************************)
NameSize == 20
FrameSize == 32  \* sizeof(pms5003_sensor_data)
FirstChar == 66
SecondChar == 77

Byte == 0..255

TransformBytes(high, low) == (low + high * 256) % 2^16

\* A byte more in the checksum of 16 bits.
Added(sum, byte) == (sum + byte) % 2^16

\* The checksum as far as it is summed up.
Checksum(frame) ==
  LET after[k \in 0..(FrameSize - 2)] ==
        IF k = 0 THEN 0 ELSE Added(after[k - 1], frame[k])
  IN after

\* pms5003_validate_data, which is 0 of a valid frame.
ValidateData(frame) ==
  IF frame[1] # FirstChar \/ frame[2] # SecondChar THEN -1
  ELSE Checksum(frame)[FrameSize - 2] - TransformBytes(frame[31], frame[32])

\* The two bytes of a measurement, after those of the header and the length.
High(frame, m) == frame[2*m + 3]
Low(frame, m) == frame[2*m + 4]

\* Mutant: the bytes in the other order.
MutMeasurement(frame) ==
  [m \in 1..3 |-> TransformBytes(Low(frame, m), High(frame, m))]

Measurement(frame) ==
  [m \in 1..3 |-> TransformBytes(High(frame, m), Low(frame, m))]

\* The bytes that follow the name in memory: the numbers, low bytes first.
Following(frame, i) ==
  IF i % 2 = 1 THEN Measurement(frame)[(i + 1) \div 2] % 256
  ELSE Measurement(frame)[i \div 2] \div 256

\* A name of NameSize characters has no terminator, so that %s prints what follows,
\* up to a zero.  The column drops spaces after its 20 characters, and takes no
\* other.  (A few texts of six bytes would be JSON that is accepted; no measurement
\* has them.  After the numbers comes padding, taken to be 0.)
Overrun(length, frame) ==
  /\ length = NameSize
  /\ \E i \in 1..6 : /\ Following(frame, i) \notin {0, 32}
                     /\ \A j \in 1..(i - 1) : Following(frame, j) # 0

DecodedAsInt16(value) == value < 2^15

Accepted(length, frame) ==
  /\ ~Overrun(length, frame)
  /\ \A m \in 1..3 : DecodedAsInt16(Measurement(frame)[m])

\* A row tells what the sensor measured; a frame that leads to none had a value the
\* table has no room for, or a name without room for its end.
RowIsMeasured(length, frame) ==
  IF Accepted(length, frame)
  THEN \A m \in 1..3 : Measurement(frame)[m] = 256 * High(frame, m) + Low(frame, m)
  ELSE \/ \E m \in 1..3 : High(frame, m) >= 128
       \/ length = NameSize /\ Low(frame, 1) # 0
=============================================================================
