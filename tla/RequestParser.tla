---------------------------- MODULE RequestParser ---------------------------
(***************************************************************************)
(* SendMessageRequestParser: how the server rebuilds the content of a      *)
(* SEND_MESSAGE from the buffers that recv() returns.  A payload describes *)
(* the bytearray under construction: its length, the index the next buffer *)
(* is copied to, and how many of its bytes came from the network.  The     *)
(* parser advances by a whole partition whatever recv() returned, and the  *)
(* slice assignment makes the bytearray shorter when it returned less.     *)
(***************************************************************************)
EXTENDS Protocol

NoPayload == [index |-> 0, length |-> 0, carried |-> 0]

Payloads == [index: Int, length: Int, carried: Int]

AtMost(a, b) == IF a <= b THEN a ELSE b

request_buffer_start_index(i) == IF i = 0 THEN SendHeaderSize ELSE 0

\* Content bytes in the buffer that is parsed when the payload is at index i
Room(i) == BUFFER_PARTITION_SIZE - request_buffer_start_index(i)

\* Mutant: the last buffer is read like the others.
number_of_bytes_to_read_room(r, p) == Room(p.index)

number_of_bytes_to_read(r, p) == AtMost(Room(p.index), r.contentSize - p.index)

\* Mutant: a request is taken to have at most one more buffer.
MoreToRead_once(r, p) == p.index = 0 /\ r.contentSize > Room(p.index)

\* parse_status stays UNDONE: another buffer is needed after this one
MoreToRead(r, p) == r.contentSize - p.index > Room(p.index)

\* The bytearray has contentSize zeros when the first buffer is parsed.
LengthBefore(r, p) == IF p.index = 0 THEN r.contentSize ELSE p.length

\* The content bytes that a buffer of size bytes has for the slice
ContentIn(r, p, size) ==
  LET start == request_buffer_start_index(p.index)
  IN  IF size <= start THEN 0 ELSE AtMost(size - start, number_of_bytes_to_read(r, p))

\* payload[i : i+n] = the k <= n content bytes of the buffer.  The slice on the
\* left covers what the bytearray has between i and i + n, if it is shorter less.
_parse_content(r, p, size) ==
  LET n   == number_of_bytes_to_read(r, p)
      k   == ContentIn(r, p, size)
      len == LengthBefore(r, p)
      cut == AtMost(len, p.index + n) - AtMost(len, p.index)
  IN  [index |-> p.index + n, length |-> len - cut + k, carried |-> p.carried + k]
=============================================================================
