---------------------------- MODULE RequestReader ----------------------------
(***************************************************************************)
(* How the reactor reads one request: recv() appends a chunk to            *)
(* readBuffer, hasEnoughBytesToParse looks for the end of the header       *)
(* section without searching again what it has searched, and               *)
(* tryParseRequest judges a complete section.  A byte is CR, LF or any     *)
(* other; what the header section says is two variables that are read      *)
(* only once the section is complete.                                      *)
(***************************************************************************)
EXTENDS Integers, Sequences, FiniteSetsExt

CONSTANTS
  kReadChunkSize, kMaxRequestLineLength, kMaxHeaderSectionLength, kMaxBodyLength,
  MaxStream   \* bound: how many bytes a client sends, unread ones included

ASSUME ReaderConstants ==
  /\ kReadChunkSize \in Nat \ {0}
  /\ kMaxRequestLineLength \in Nat
  /\ kMaxHeaderSectionLength \in Nat
  /\ kMaxRequestLineLength + 2 < kMaxHeaderSectionLength
  /\ kMaxBodyLength \in Nat
  /\ MaxStream \in Nat

VARIABLES
  malformed,             \* the section has a line that cannot be parsed
  contentLength,         \* what its Content-Length says, 0 without one
  buffer,                \* readBuffer
  headerScanOffset, headerParsed, expectedRequestBytes,
  verdict,               \* "waiting", "accepted", or the status of the rejection
  unread                 \* what the client sends after the verdict

conn == <<buffer, headerScanOffset, headerParsed, expectedRequestBytes, verdict>>
vars == <<malformed, contentLength, conn, unread>>

Bytes  == {"CR", "LF", "other"}
CRLF   == <<"CR", "LF">>
HeaderEnd == CRLF \o CRLF

(* Where a text occurs in s beyond the first `from' bytes, counting from 0. *)
Occurs(text, s, from) ==
  {i \in from .. Len(s) - Len(text) : SubSeq(s, i + 1, i + Len(text)) = text}

(* tryParseRequest on a buffer that holds a complete header section.       *)
RequestBytes(s) == Min(Occurs(HeaderEnd, s, 0)) + 4 + contentLength

Parsed(s) ==
  CASE Min(Occurs(HeaderEnd, s, 0)) + 4 > kMaxHeaderSectionLength -> "431"
    [] OTHER ->
  CASE Min(Occurs(CRLF, s, 0)) > kMaxRequestLineLength            -> "414"
    [] OTHER ->
  CASE Min(Occurs(CRLF, s, 0)) = 0 \/ malformed                   -> "400"
    [] OTHER ->
  CASE contentLength > kMaxBodyLength                             -> "413"
    [] OTHER -> IF Len(s) < RequestBytes(s) THEN "waiting" ELSE "accepted"

\* Seeded fault: the header section is limited only once it is complete.
UnfinishedUnlimited(s) ==
  IF Len(s) > kMaxRequestLineLength + 1 /\ Occurs(CRLF, s, 0) = {} THEN "414" ELSE "waiting"

(* hasEnoughBytesToParse on a buffer without the end of the section.       *)
Unfinished(s) ==
  CASE Len(s) > kMaxRequestLineLength + 1 /\ Occurs(CRLF, s, 0) = {} -> "414"
    [] OTHER -> IF Len(s) >= kMaxHeaderSectionLength THEN "431" ELSE "waiting"

\* Seeded fault: one byte less of the end may have come with earlier chunks.
ResumeFromTwoBack == IF headerScanOffset >= 2 THEN headerScanOffset - 2 ELSE 0

ResumeFrom == IF headerScanOffset >= 3 THEN headerScanOffset - 3 ELSE 0

Enough(s) ==
  IF headerParsed THEN Len(s) >= expectedRequestBytes
                  ELSE Occurs(HeaderEnd, s, ResumeFrom) # {}

Receive(chunk) ==
  LET s == buffer \o chunk
  IN /\ verdict = "waiting"
     /\ buffer' = s
     /\ verdict' = CASE Enough(s)   -> Parsed(s)
                     [] ~Enough(s)  -> IF headerParsed THEN "waiting" ELSE Unfinished(s)
     /\ headerParsed' = (headerParsed \/ (Enough(s) /\ verdict' = "waiting"))
     /\ expectedRequestBytes' =
          IF Enough(s) /\ verdict' = "waiting" THEN RequestBytes(s) ELSE expectedRequestBytes
     /\ headerScanOffset' = IF headerParsed \/ Enough(s) THEN headerScanOffset ELSE Len(s)
     /\ UNCHANGED <<malformed, contentLength, unread>>

(* EVFILT_READ is deleted with the verdict; the client may send on.        *)
SendOn(byte) ==
  /\ verdict # "waiting"
  /\ Len(buffer \o unread) < MaxStream
  /\ unread' = Append(unread, byte)
  /\ UNCHANGED <<malformed, contentLength, conn>>

Init ==
  /\ malformed \in BOOLEAN
  /\ contentLength \in 0 .. kMaxBodyLength + 1
  /\ buffer = <<>>
  /\ headerScanOffset = 0
  /\ headerParsed = FALSE
  /\ expectedRequestBytes = 0
  /\ verdict = "waiting"
  /\ unread = <<>>

Next ==
  \/ \E n \in 1 .. kReadChunkSize : \E chunk \in [1 .. n -> Bytes] : Receive(chunk)
  \/ \E byte \in Bytes : SendOn(byte)

Spec == Init /\ [][Next]_vars

-----------------------------------------------------------------------------
(* What would be said of the stream if all of it came at once.             *)
Whole(s) == IF Occurs(HeaderEnd, s, 0) # {} THEN Parsed(s) ELSE Unfinished(s)

(* ApiGateway.cpp:396-414 and 506-657: how the client's bytes are cut into  *)
(* chunks does not change what becomes of the request, nor does anything   *)
(* the client sends after it: the verdict is the one the whole stream      *)
(* gets, and no verdict is due while the request waits.  A request line    *)
(* too long may be told before the stream decides, or in place of a header *)
(* section too large: nothing else.                                        *)
ChunksDoNotMatter ==
  LET whole == Whole(buffer \o unread)
  IN whole = verdict \/ (verdict = "414" /\ whole \in {"431", "waiting"})

(* ApiGateway.cpp:512-523 and 549-650: a client makes a connection hold no  *)
(* more than a header section, a body and what one recv() brings beyond.   *)
BufferIsBounded ==
  /\ Len(buffer) < kMaxHeaderSectionLength + kMaxBodyLength + kReadChunkSize
  /\ verdict = "waiting" =>
       Len(buffer) < (IF headerParsed THEN expectedRequestBytes ELSE kMaxHeaderSectionLength)
=============================================================================
