-------------------------------- MODULE RespCodec --------------------------------
(***************************************************************************)
(* The RESP decoder and one step of the encoder                            *)
(* (mini_redis/lib/mini_redis.ml).  Of what int_of_string takes, only      *)
(* decimal numbers are modelled, which is what string_of_int makes.        *)
(***************************************************************************)
EXTENDS Resp, SequencesExt

Digit == <<"0", "1", "2", "3", "4", "5", "6", "7", "8", "9">>
DigitOf(d) == CHOOSE n \in 0 .. 9 : Digit[n + 1] = d

(* The decimal digits of n: left[i] is what is left of it without the last  *)
(* i of them.                                                               *)
Numeral(n) ==
    LET left[i \in 0 .. (n + 1)] == IF i = 0 THEN n ELSE left[i - 1] \div 10
        width == Min({i \in 1 .. (n + 1) : left[i] = 0})
    IN  [i \in 1 .. width |-> Digit[(left[width - i] % 10) + 1]]

string_of_int(i) == IF i < 0 THEN <<"-">> \o Numeral(-i) ELSE Numeral(i)

IsNumeral(s) == s # <<>> /\ \A i \in 1 .. Len(s) : s[i] \in Range(Digit)

Decimal(s) ==
    LET value[i \in 0 .. Len(s)] == IF i = 0 THEN 0 ELSE 10 * value[i - 1] + DigitOf(s[i])
    IN  value[Len(s)]

IsNumber(s) == IsNumeral(s) \/ (s # <<>> /\ s[1] = "-" /\ IsNumeral(Tail(s)))
int_of_string(s) == IF s[1] = "-" THEN -Decimal(Tail(s)) ELSE Decimal(s)

(* The position of the first CR if LF follows it, and 0 otherwise.          *)
find_crlf(bytes) ==
    LET i == SelectInSeq(bytes, LAMBDA b : b = "CR")
    IN  IF 0 < i /\ i < Len(bytes) /\ bytes[i + 1] = "LF" THEN i ELSE 0

Content(bytes) == SubSeq(bytes, 2, find_crlf(bytes) - 1)
Rest(bytes) == SubSeq(bytes, find_crlf(bytes) + 2, Len(bytes))

(* The content of a bulk string and what follows it.  String.sub raises on  *)
(* a negative length.                                                       *)
BulkContent(bytes, len) ==
    LET start == find_crlf(bytes) + 1
        total == start + len + 2
    IN  IF Len(bytes) < total THEN Error("Incomplete")
        ELSE IF len < 0 THEN Error("Invalid_argument")
        ELSE Ok(BulkString(SubSeq(bytes, start + 1, start + len)),
                SubSeq(bytes, total + 1, Len(bytes)))

(* After k elements: those elements and the rest, or the first error.       *)
(* Element is decode.  The code counts a negative number down until the     *)
(* bytes are used up, which they are when each has been an element.         *)
decode_array_elements(count, bytes, Element) ==
    LET size == IF count < 0 THEN Len(bytes) + 1 ELSE count
        after[k \in 0 .. size] ==
            IF k = 0 THEN Ok(<<>>, bytes)
            ELSE LET before == after[k - 1]
                 IN  IF ~before.ok THEN before
                     ELSE LET d == Element[before.rest]
                          IN  IF d.ok THEN Ok(Append(before.value, d.value), d.rest) ELSE d
        all == after[size]
    IN  IF all.ok THEN Ok(Array(all.value), all.rest) ELSE all

(* The body of decode, which decodes the elements of an array with Element. *)
decode_with(bytes, Element) ==
    IF bytes = <<>> THEN Error("Empty buffer")
    ELSE IF bytes[1] \notin {"+", "-", ":", "$", "*"} THEN Error("Invalid RESP type")
    ELSE IF find_crlf(bytes) = 0 THEN Error("Incomplete")
    ELSE IF bytes[1] = "+" THEN Ok(SimpleString(Content(bytes)), Rest(bytes))
    ELSE IF bytes[1] = "-" THEN Ok(ErrorString(Content(bytes)), Rest(bytes))
    ELSE IF ~IsNumber(Content(bytes)) THEN Error("Invalid integer format")
    ELSE LET n == int_of_string(Content(bytes))
         IN  IF bytes[1] = ":" THEN Ok(Integer(n), Rest(bytes))
             ELSE IF bytes[1] = "$"
             THEN IF n = -1 THEN Ok(NullBulk, Rest(bytes)) ELSE BulkContent(bytes, n)
             ELSE IF n = -1 THEN Ok(NullArray, Rest(bytes))
             ELSE decode_array_elements(n, Rest(bytes), Element)

(* decode calls itself on the elements of an array, which are shorter than  *)
(* the array: upto[n] is decode on n bytes at most.                         *)
decode(bytes) ==
    LET upto[n \in 0 .. Len(bytes)] ==
            [b \in Seq(Byte) |-> IF n = 0 THEN Error("Empty buffer") ELSE decode_with(b, upto[n - 1])]
    IN  upto[Len(bytes)][bytes]

(* The encoding of r, given those of the elements if it is an array.        *)
Encoded(r, elements) ==
    CASE r.type = "Simple"    -> <<"+">> \o r.value \o CRLF
      [] r.type = "Error"     -> <<"-">> \o r.value \o CRLF
      [] r.type = "Integer"   -> <<":">> \o string_of_int(r.value) \o CRLF
      [] r.type = "NullBulk"  -> <<"$", "-", "1">> \o CRLF
      [] r.type = "Bulk"      -> <<"$">> \o string_of_int(Len(r.value)) \o CRLF \o r.value \o CRLF
      [] r.type = "NullArray" -> <<"*", "-", "1">> \o CRLF
      [] r.type = "Array"     -> <<"*">> \o string_of_int(Len(r.value)) \o CRLF \o FlattenSeq(elements)

-------------------------------------------------------------------------------
(* The values that can be sent: lines hold no CR, and the elements of an    *)
(* array can be sent again.                                                 *)
NoBreak(line) == \A i \in 1 .. Len(line) : line[i] # "CR"

Plain(r) ==
    \/ r.type \in {"Simple", "Error"} /\ r.value \in Seq(Byte) /\ NoBreak(r.value)
    \/ r.type = "Integer" /\ r.value \in Int
    \/ r.type = "Bulk" /\ r.value \in Seq(Byte)
    \/ r.type \in {"NullBulk", "NullArray"} /\ r.value = <<>>

Transmissible(V) ==
    \A r \in V : /\ r = [type |-> r.type, value |-> r.value]
                 /\ Plain(r) \/ (r.type = "Array" /\ r.value \in Seq(V))
===============================================================================
