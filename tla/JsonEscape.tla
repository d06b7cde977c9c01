----------------------------- MODULE JsonEscape -----------------------------
(***************************************************************************)
(* JsonEscape.cpp: what appendJsonEscaped makes of any string of bytes,    *)
(* and a reader of JSON that takes it back to code points.                 *)
(***************************************************************************)
EXTENDS Integers, Sequences

CONSTANTS
  SomeBytes,  \* the bytes texts are made of
  MaxLength   \* bound: the length of a text

ASSUME EscapeConstants == SomeBytes \subseteq 0 .. 255 /\ MaxLength \in Nat

VARIABLES in, out  \* the argument and what is appended for it

(* Line feed, carriage return, tab, backspace and form feed by the letter  *)
(* of their escapes, and the quote and the backslash by themselves.        *)
Letter == [b \in {8, 9, 10, 12, 13, 34, 92} |->
             CASE b = 8 -> 98 [] b = 9 -> 116 [] b = 10 -> 110 [] b = 12 -> 102
               [] b = 13 -> 114 [] OTHER -> b]

UnicodeEscape(unit) ==
  LET Hex(d) == IF d < 10 THEN 48 + d ELSE 87 + d
  IN <<92, 117, Hex(unit \div 4096), Hex((unit \div 256) % 16),
       Hex((unit \div 16) % 16), Hex(unit % 16)>>

Replacement == 65533  \* U+FFFD

IsContinuationByte(s, i) == i <= Len(s) /\ s[i] \in 128 .. 191

\* Seeded fault: surrogates pass.
Utf8SequenceLengthLoose(s, i) ==
  CASE s[i] \in 194 .. 223 /\ IsContinuationByte(s, i + 1) -> 2
    [] s[i] \in 224 .. 239 /\ (\A k \in 1 .. 2 : IsContinuationByte(s, i + k))
         /\ ~(s[i] = 224 /\ s[i + 1] < 160) -> 3
    [] s[i] \in 240 .. 244 /\ (\A k \in 1 .. 3 : IsContinuationByte(s, i + k))
         /\ ~(s[i] = 240 /\ s[i + 1] < 144) /\ ~(s[i] = 244 /\ s[i + 1] > 143) -> 4
    [] OTHER -> 0

Utf8SequenceLength(s, i) ==
  CASE s[i] \in 194 .. 223 /\ IsContinuationByte(s, i + 1) -> 2
    [] s[i] \in 224 .. 239 /\ (\A k \in 1 .. 2 : IsContinuationByte(s, i + k))
         /\ ~(s[i] = 224 /\ s[i + 1] < 160) /\ ~(s[i] = 237 /\ s[i + 1] > 159) -> 3
    [] s[i] \in 240 .. 244 /\ (\A k \in 1 .. 3 : IsContinuationByte(s, i + k))
         /\ ~(s[i] = 240 /\ s[i + 1] < 144) /\ ~(s[i] = 244 /\ s[i + 1] > 143) -> 4
    [] OTHER -> 0

(* What one round of the loop appends, and how many bytes it takes.        *)
Taken(s, i) ==
  IF s[i] > 127 /\ Utf8SequenceLength(s, i) > 0 THEN Utf8SequenceLength(s, i) ELSE 1

Escape(s, i) ==
  CASE s[i] \in DOMAIN Letter                      -> <<92, Letter[s[i]]>>
    [] s[i] \in (0 .. 31 \cup {127}) \ DOMAIN Letter -> UnicodeEscape(s[i])
    [] s[i] > 127 /\ Utf8SequenceLength(s, i) = 0   -> UnicodeEscape(Replacement)
    [] OTHER                                        -> SubSeq(s, i, i + Taken(s, i) - 1)

(* A loop over n bytes: what the rounds from byte i on give together, each  *)
(* of them gives[i] for takes[i] bytes.                                     *)
Rounds(n, gives, takes) ==
  LET from[i \in 1 .. n + 1] == IF i > n THEN <<>> ELSE gives[i] \o from[i + takes[i]]
  IN from

AppendJsonEscaped(s) ==
  Rounds(Len(s), [i \in 1 .. Len(s) |-> Escape(s, i)], [i \in 1 .. Len(s) |-> Taken(s, i)])[1]

EscapeInit == in = <<>> /\ out = <<>>
EscapeNext ==
  \E byte \in SomeBytes :
     Len(in) < MaxLength /\ in' = Append(in, byte) /\ out' = AppendJsonEscaped(in')
EscapeSpec == EscapeInit /\ [][EscapeNext]_<<in, out>>

-----------------------------------------------------------------------------
(* UTF-8 by the value of the bits: the code point of n bytes, provided it  *)
(* needs n bytes, is no surrogate and is in range.                         *)
Value(s, i, n) ==
  LET low(k) == s[i + k] % 64
  IN CASE n = 1 -> s[i]
       [] n = 2 -> 64 * (s[i] % 32) + low(1)
       [] n = 3 -> 4096 * (s[i] % 16) + 64 * low(1) + low(2)
       [] n = 4 -> 262144 * (s[i] % 8) + 4096 * low(1) + 64 * low(2) + low(3)
IsScalar(v) == v <= 1114111 /\ (v < 55296 \/ v > 57343)
LeadBytes == <<0 .. 127, 192 .. 223, 224 .. 239, 240 .. 247>>
Smallest  == <<0, 128, 2048, 65536>>
Encodes(s, i, n) ==
  /\ i + n - 1 <= Len(s)
  /\ s[i] \in LeadBytes[n]
  /\ \A k \in 1 .. n - 1 : s[i + k] \div 64 = 2
  /\ Value(s, i, n) >= Smallest[n] /\ IsScalar(Value(s, i, n))

(* What starts at byte i: a code point, or U+FFFD for a byte that starts   *)
(* none.                                                                   *)
Decoded(s, i) ==
  IF \E n \in 1 .. 4 : Encodes(s, i, n)
  THEN LET n == CHOOSE k \in 1 .. 4 : Encodes(s, i, k)
       IN [point |-> Value(s, i, n), bytes |-> n]
  ELSE [point |-> Replacement, bytes |-> 1]

NamedBy(letter) == CHOOSE b \in DOMAIN Letter : Letter[b] = letter

(* What a JSON reader makes of the body of a string at byte i: a code      *)
(* point; or -1, and it reads no further, for what it would refuse: a bare *)
(* quote or control character, an unknown escape, bytes that are not UTF-8.*)
Token(s, i) ==
  LET Digit(c) == IF c < 58 THEN c - 48 ELSE c - 87
  IN CASE s[i] = 92 /\ i + 5 <= Len(s) /\ s[i + 1] = 117 ->
            [point |-> 4096 * Digit(s[i + 2]) + 256 * Digit(s[i + 3])
                         + 16 * Digit(s[i + 4]) + Digit(s[i + 5]), bytes |-> 6]
       [] s[i] = 92 /\ i < Len(s) /\ \E b \in DOMAIN Letter : Letter[b] = s[i + 1] ->
            [point |-> NamedBy(s[i + 1]), bytes |-> 2]
       [] s[i] \notin 0 .. 31 \cup {34, 92} /\ \E n \in 1 .. 4 : Encodes(s, i, n) ->
            Decoded(s, i)
       [] OTHER -> [point |-> -1, bytes |-> Len(s) + 1 - i]

CodePoints(s) ==
  Rounds(Len(s), [i \in 1 .. Len(s) |-> <<Decoded(s, i).point>>],
                 [i \in 1 .. Len(s) |-> Decoded(s, i).bytes])[1]
ReadJson(s) ==
  Rounds(Len(s), [i \in 1 .. Len(s) |-> <<Token(s, i).point>>],
                 [i \in 1 .. Len(s) |-> Token(s, i).bytes])[1]

(* JsonEscape.hpp and JsonEscape.cpp:22-100: whatever bytes are escaped,    *)
(* the output is the body of a valid JSON string, and reading it gives the *)
(* text back, U+FFFD standing for each byte that is not UTF-8.             *)
EscapedTextIsFaithful == ReadJson(out) = CodePoints(in)
=============================================================================
