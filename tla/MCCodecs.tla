------------------------------ MODULE MCCodecs ------------------------------
(***************************************************************************)
(* Bounded inputs for Codecs: an input of one of four kinds grows piece by *)
(* piece, and every algorithm is compared with its definition on each.     *)
(***************************************************************************)
EXTENDS Codecs

CONSTANTS MaxParams,    \* bound: pieces of a body
          MaxEndpoint,  \* bound: tokens of an endpoint
          MaxBytes      \* bound: bytes to encode

Param(f, value) == Fields[f].name \o <<"=">> \o value

\* The five parameters as they should be, with a negative and a wide number among
\* them; and a number with more after it, a prefix of two names, no name, no value,
\* another name, a longer value with two =.
Pieces ==
  {Param(1, <<"7">>), Param(2, <<"x">>), Param(3, <<"7">>), Param(4, <<"-", "7">>),
   Param(5, <<"6", "5", "5", "4", "3">>), Param(1, <<"7", "x">>),
   <<"pm", "1", "0", "=", "x">>, <<"=", "7">>, <<"device_", "name">>,
   <<"other", "=", "7">>, Param(2, <<"x", "=", "x">>)}

Name == <<"t", "F">>
EndpointTokens == {"t", "F", "x", "?", "&", "="}
SomeBytes == {1, 77, 128, 255}
FrameBytes == {0, 1, 32, 127, 128, 255}

\* A frame as the sensor sends it: the header, the number of bytes to follow, three
\* measurements, zeros for the others, and the sum of all these bytes.
Framed(bytes) ==
  LET At(i) == IF i <= Len(bytes) THEN bytes[i] ELSE 0
      sum == FirstChar + SecondChar + 28 + At(1) + At(2) + At(3) + At(4) + At(5) + At(6)
  IN <<FirstChar, SecondChar, 0, 28, At(1), At(2), At(3), At(4), At(5), At(6)>>
       \o [i \in 1..20 |-> 0] \o <<sum \div 256, sum % 256>>

VARIABLES kind, input
vars == <<kind, input>>

Init == kind \in {"body", "endpoint", "bytes", "frame"} /\ input = <<>>

GrowBody ==
  /\ kind = "body"
  /\ Cardinality(Positions(input, "&")) < MaxParams - 1
  /\ \E p \in Pieces : input' = IF input = <<>> THEN p ELSE input \o <<"&">> \o p
  /\ UNCHANGED kind

Grow(k, tokens, max) ==
  /\ kind = k
  /\ Len(input) < max
  /\ \E t \in tokens : input' = Append(input, t)
  /\ UNCHANGED kind

\* A measurement is two bytes.
GrowFrame ==
  /\ kind = "frame"
  /\ Len(input) < 6
  /\ \E high, low \in FrameBytes : input' = input \o <<high, low>>
  /\ UNCHANGED kind

Next ==
  \/ GrowBody
  \/ Grow("endpoint", EndpointTokens, MaxEndpoint)
  \/ Grow("bytes", SomeBytes, MaxBytes)
  \/ GrowFrame

Spec == Init /\ [][Next]_vars

-----------------------------------------------------------------------------
\* parseInsertPMS5003Body makes of a body what its parameters say one by one.  So
\* a body is accepted only if it has five known parameters, but not each once, and
\* the trailing characters of any number but the last are ignored.  Those of the
\* last are what a later text has left of them: errorBuffer points into the buffer
\* that the text is written to (_parse.c).
BodyAsItsParams == kind = "body" => ParseBody(input) = RefParseBody(input)

\* extract_query_param finds the first parameter that begins with the name, and
\* ends the process if that is all there is of it (_utils.c).
ParamAsInQuery ==
  kind = "endpoint" => ExtractParam(input, Name) = RefExtractParam(input, Name)

\* base64_encode is that of RFC 4648, and base64_decode undoes it, refuses none of
\* it, and stays within what it allocates unless it is a single byte (common).
Base64RoundTrip ==
  kind = "bytes" =>
    /\ Encode(input) = RefEncode(input)
    /\ Decode(Encode(input)).bytes = input
    /\ Decode(Encode(input)).size >= Len(input) \/ Len(input) = 1
    /\ ~Decode(Encode(input)).refused

\* A frame of the sensor's validates, unless one of its bytes was altered.  No width
\* between the sensor and the table changes a value: it is stored as it was measured,
\* or refused for one of two reasons (pms5003.c, utils.c, dto.h, main.go).
StoredAsMeasured ==
  kind = "frame" =>
    LET frame == Framed(input)
    IN /\ ValidateData(frame) = 0
       /\ Len(input) = 2 =>
            \A i \in 1..FrameSize : \A byte \in FrameBytes \ {frame[i]} :
              ValidateData([frame EXCEPT ![i] = byte]) # 0
       /\ \A length \in {NameSize - 1, NameSize} : RowIsMeasured(length, frame)
=============================================================================
