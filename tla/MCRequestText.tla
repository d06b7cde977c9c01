---------------------------- MODULE MCRequestText ----------------------------
(* A client's bytes as they are read and as they are echoed.  Reading and   *)
(* escaping share no state, so one goes on while the other is at its start. *)
(* The limits of the reader are the code's scaled down: the header section *)
(* takes four lines of the longest length, a chunk half a section.  The     *)
(* bytes to escape are those on both sides of every comparison in the code. *)
EXTENDS RequestReader, JsonEscape

MCBytes ==
  {0, 10, 31, 32, 34, 92, 110, 127} \cup {128, 143, 144, 159, 160, 191}
    \cup {192, 193, 194, 223, 224, 225, 237, 238, 239, 240, 241, 244, 245}

TextInit == Init /\ EscapeInit

Reading  == in = <<>> /\ Next /\ UNCHANGED <<in, out>>
Escaping ==
  /\ buffer = <<>> /\ ~malformed /\ contentLength = 0
  /\ EscapeNext /\ UNCHANGED vars

TextSpec == TextInit /\ [][Reading \/ Escaping]_<<vars, in, out>>
=============================================================================
