------------------------------- MODULE WsFrames -------------------------------
(***************************************************************************)
(* How a connection of the relay reads frames from the chunks the network  *)
(* hands it (server/ws.mjs: WsConnection), against what the frames say.    *)
(* A byte is known by the frame it belongs to and its place there, and a   *)
(* payload by the place of its frame in the stream.  A frame may have 2 or *)
(* 8 bytes of extended length, which may claim too much (`big`); as every  *)
(* browser's, it has a mask.  Payloads are one byte long.                  *)
(***************************************************************************)
EXTENDS Naturals, Sequences, SequencesExt

CONSTANT MaxBuffer  \* bytes the parser holds: 4 MiB in the code

ASSUME BufferAssumption == MaxBuffer \in Nat

Mask == 4
FrameLength(f) == 2 + f.ext + Mask + 1

\* The bytes of frame i of stream s, and of all of it.
BytesOf(s, i) == [k \in 1 .. FrameLength(s[i]) |-> [frame |-> s[i], nr |-> i, at |-> k]]
Bytes(s) == FlattenSeq([i \in DOMAIN s |-> BytesOf(s, i)])

-----------------------------------------------------------------------------
NewConnection == [buf |-> <<>>, frags |-> <<>>, closed |-> FALSE, delivered |-> <<>>]

\* _readFrame finds all of a frame in buffer b.  A byte that is not a frame's
\* first is no header.
Complete(b) == Len(b) >= 2 /\ b[1].at = 1 /\ Len(b) >= FrameLength(b[1].frame)

\* _readFrame has read a length that is over the limit.
TooBig(b) == Len(b) >= 2 /\ b[1].at = 1 /\ b[1].frame.big /\ Len(b) >= 2 + b[1].frame.ext

\* The definitions named Bug... are not the code: each is a mistake that could
\* have been made at the definition that follows it, and breaks a property.
BugHandleFrame(c, f, nr) ==
  CASE f.opcode \in {"text", "binary"} /\ f.fin -> [c EXCEPT !.frags = <<>>, !.delivered = Append(@, <<nr>>)]
    [] f.opcode \in {"text", "binary"} /\ ~f.fin -> [c EXCEPT !.frags = <<nr>>]
    [] f.opcode = "continuation" /\ f.fin ->
         [c EXCEPT !.frags = <<>>, !.delivered = Append(@, Append(c.frags, nr))]
    [] f.opcode = "continuation" /\ ~f.fin -> [c EXCEPT !.frags = Append(@, nr)]
    [] f.opcode = "ping" -> [c EXCEPT !.frags = <<>>]
    [] f.opcode = "pong" -> c
    [] f.opcode \in {"close", "reserved"} -> [c EXCEPT !.closed = TRUE]

\* _handleFrame and _deliver.  A binary frame is read like a text, a ping is
\* answered, a pong ignored, and an opcode without a meaning ("reserved") closes
\* the connection as a close frame does, with another code.
HandleFrame(c, f, nr) ==
  CASE f.opcode \in {"text", "binary"} /\ f.fin -> [c EXCEPT !.frags = <<>>, !.delivered = Append(@, <<nr>>)]
    [] f.opcode \in {"text", "binary"} /\ ~f.fin -> [c EXCEPT !.frags = <<nr>>]
    [] f.opcode = "continuation" /\ f.fin ->
         [c EXCEPT !.frags = <<>>, !.delivered = Append(@, Append(c.frags, nr))]
    [] f.opcode = "continuation" /\ ~f.fin -> [c EXCEPT !.frags = Append(@, nr)]
    [] f.opcode \in {"ping", "pong"} -> c
    [] f.opcode \in {"close", "reserved"} -> [c EXCEPT !.closed = TRUE]

\* The loop of _onData: frames are read while they are complete, and until one
\* of them has closed the connection.
RECURSIVE ReadFrames(_)
ReadFrames(c) ==
  LET f == c.buf[1].frame
      d == HandleFrame([c EXCEPT !.buf = SubSeq(@, FrameLength(f) + 1, Len(@))], f, c.buf[1].nr)
  IN IF TooBig(c.buf) THEN [c EXCEPT !.closed = TRUE]
     ELSE IF ~Complete(c.buf) THEN c
     ELSE IF d.closed THEN d ELSE ReadFrames(d)

BugOnData(c, chunk) == ReadFrames([c EXCEPT !.buf = chunk])

\* _onData.  That the connection is closed already is not asked.
OnData(c, chunk) ==
  LET d == [c EXCEPT !.buf = @ \o chunk]
  IN IF Len(d.buf) > MaxBuffer THEN [d EXCEPT !.closed = TRUE] ELSE ReadFrames(d)

-----------------------------------------------------------------------------
Frame ==
  [fin : BOOLEAN, opcode : {"text"}, ext : {0, 2}, big : {FALSE}]
    \cup [fin : BOOLEAN, opcode : {"continuation"}, ext : {0}, big : {FALSE}]
    \cup [fin : BOOLEAN, opcode : {"binary"}, ext : {0}, big : {FALSE}]
    \cup [fin : {TRUE}, opcode : {"ping", "pong", "close", "reserved"}, ext : {0}, big : {FALSE}]
    \cup [fin : {TRUE}, opcode : {"text"}, ext : {8}, big : BOOLEAN]

Begins(f) == f.opcode \in {"text", "binary"}
IsData(f) == Begins(f) \/ f.opcode = "continuation"
Ends(f) == f.opcode \in {"close", "reserved"} \/ f.big

\* The data frames of s before frame i, the last of them last.
DataBefore(s, i) == SelectSeq(SubSeq(s, 1, i - 1), IsData)

\* As RFC 6455 has it: a continuation continues, and no other data frame
\* interrupts.
Legal(s) ==
  \A i \in DOMAIN s : IsData(s[i]) =>
    LET before == DataBefore(s, i)
    IN s[i].opcode = "continuation" <=> (before # <<>> /\ ~Last(before).fin)

\* Streams of up to three frames, and all ways to cut their bytes in three.
Streams == {s \in UNION {[1 .. n -> Frame] : n \in 1 .. 3} : Legal(s)}
Received(b, i, j) ==
  OnData(OnData(OnData(NewConnection, SubSeq(b, 1, i)), SubSeq(b, i + 1, j)), SubSeq(b, j + 1, Len(b)))

\* The frames before the one that ends the connection, and the messages in them:
\* for every final frame, the frames from the one that begins its message on,
\* without control frames.
Before(s) == LET ends == {i \in DOMAIN s : Ends(s[i])}
             IN IF ends = {} THEN s ELSE SubSeq(s, 1, (CHOOSE i \in ends : \A j \in ends : i <= j) - 1)

Message(s, i) ==
  LET start == CHOOSE j \in 1 .. i : Begins(s[j]) /\ \A k \in j + 1 .. i : ~Begins(s[k])
      Part(k) == k >= start /\ IsData(s[k])
  IN SelectSeq([k \in 1 .. i |-> k], Part)

Messages(s) ==
  LET Final(i) == IsData(s[i]) /\ s[i].fin
      finals == SelectSeq([k \in DOMAIN s |-> k], Final)
  IN [n \in DOMAIN finals |-> Message(s, finals[n])]

(* However the network cuts the bytes, the relay gets the messages that    *)
(* the frames carry, each whole, once and in order, control frames between *)
(* fragments or not; and it closes the connection for a close frame, an    *)
(* unknown opcode, a length over the limit or too many bytes at once, and  *)
(* for nothing else (ws.mjs:101-191).                                      *)
FramesAreRead ==
  \A s \in Streams :
    LET b == Bytes(s)
    IN \A i \in 0 .. Len(b) : \A j \in i .. Len(b) :
         LET c == Received(b, i, j)
         IN /\ ~c.closed => Before(s) = s /\ c.delivered = Messages(s)
            /\ c.closed => Before(s) # s \/ Len(b) > MaxBuffer
            /\ c.closed /\ Len(b) <= MaxBuffer => IsPrefix(Messages(Before(s)), c.delivered)

(* Once the connection is closed nothing more is delivered (ws.mjs:107-118). *)
NothingAfterClose ==
  \A s \in Streams :
    LET b == Bytes(s)
    IN \A i \in 0 .. Len(b) : \A j \in i .. Len(b) :
         Len(b) <= MaxBuffer => IsPrefix(Received(b, i, j).delivered, Messages(Before(s)))
===============================================================================
