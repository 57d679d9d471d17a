------------------------------ MODULE NbdStream ------------------------------
(***************************************************************************)
(* How NBDServer::ReaderFunc cuts the kernel's byte stream into requests.  *)
(* The kernel queues a request's header on the socket in one piece, a      *)
(* write's data after it piece by piece; a read takes what is queued and   *)
(* fits in the buffer, so only the buffer's end can cut a header, and    *)
(* what follows a request is a header with its magic number.  A cell       *)
(* <<k, i>> stands for the i-th byte of request k.                         *)
(***************************************************************************)
EXTENDS Integers, Sequences

CONSTANTS
  BufSize,  \* bytes of the reader's buffer
  HeadSize, \* bytes of a request's header
  MaxData,  \* bound: bytes of data of a write
  MaxReq    \* bound: requests the kernel sends

VARIABLES
  sent,    \* data bytes of each request sent so far
  todo,    \* data bytes of the last one not yet queued
  closed,  \* the kernel shut its end
  sock,    \* bytes queued on the socket
  buf,     \* bytes of the buffer up to bufpos
  begin,
  rest,    \* the write whose data ReadExact is reading, and its bytes
  got,     \* requests given to OnRecvPack: their bytes (history)
  pc       \* "read", "parse", "rest", "over"

vars == <<sent, todo, closed, sock, buf, begin, rest, got, pc>>

Init ==
  /\ sent = <<>> /\ todo = 0 /\ closed = FALSE /\ sock = <<>>
  /\ buf = <<>> /\ begin = 0 /\ rest = <<>> /\ got = <<>> /\ pc = "read"

-----------------------------------------------------------------------------
(* The kernel's side.                                                      *)

Cells(k, a, b) == [i \in 1..(b - a + 1) |-> <<k, a + i - 1>>]

SendRequest ==
  /\ ~closed /\ todo = 0 /\ Len(sent) < MaxReq
  /\ \E n \in 0..MaxData :
       /\ sent' = Append(sent, n)
       /\ todo' = n
       /\ sock' = sock \o Cells(Len(sent) + 1, 1, HeadSize)
  /\ UNCHANGED <<closed, buf, begin, rest, got, pc>>

SendData ==
  /\ ~closed /\ todo > 0
  /\ LET k == Len(sent)
         i == HeadSize + sent[k] - todo + 1
     IN  sock' = Append(sock, <<k, i>>)
  /\ todo' = todo - 1
  /\ UNCHANGED <<sent, closed, buf, begin, rest, got, pc>>

CloseSocket ==
  /\ ~closed
  /\ closed' = TRUE
  /\ UNCHANGED <<sent, todo, sock, buf, begin, rest, got, pc>>

-----------------------------------------------------------------------------
(* The reader thread.                                                      *)

Least(a, b) == IF a < b THEN a ELSE b

(* Reads behind bufpos.  Nothing to read at the end of the stream, or no   *)
(* room to read into, ends the thread.                                     *)
ReadSome ==
  /\ pc = "read"
  /\ LET n == Least(Len(sock), BufSize - Len(buf))
     IN  \/ /\ n > 0
            /\ buf' = buf \o SubSeq(sock, 1, n)
            /\ sock' = SubSeq(sock, n + 1, Len(sock))
            /\ begin' = 0
            /\ pc' = IF Len(buf') < HeadSize THEN "read" ELSE "parse"
         \/ /\ n = 0 /\ (closed \/ Len(buf) = BufSize)
            /\ pc' = "over"
            /\ UNCHANGED <<sock, buf, begin>>
  /\ UNCHANGED <<sent, todo, closed, rest, got>>

(* The header is cut: when it could not end inside the buffer it moves to  *)
(* the front; otherwise everything is left where it is.                    *)
CutHeader ==
  /\ pc = "parse" /\ begin + HeadSize > Len(buf)
  /\ buf' = IF begin > BufSize - HeadSize THEN SubSeq(buf, begin + 1, Len(buf)) ELSE buf
  /\ begin' = 0
  /\ pc' = "read"
  /\ UNCHANGED <<sent, todo, closed, sock, rest, got>>

DataLen(k) == sent[k]

(* A whole request is in the buffer; the buffer is empty after the last. *)
WholeRequest ==
  /\ pc = "parse" /\ begin + HeadSize <= Len(buf) /\ buf[begin + 1][2] = 1
  /\ LET next == begin + HeadSize + DataLen(buf[begin + 1][1])
     IN  /\ next <= Len(buf)
         /\ got' = Append(got, SubSeq(buf, begin + 1, next))
         /\ IF next = Len(buf) THEN buf' = <<>> /\ begin' = 0 /\ pc' = "read"
                               ELSE begin' = next /\ UNCHANGED <<buf, pc>>
  /\ UNCHANGED <<sent, todo, closed, sock, rest>>

(* Mutant: the bytes behind the header are read anew. *)
PartOfDataHeadOnly ==
  /\ pc = "parse" /\ begin + HeadSize <= Len(buf) /\ buf[begin + 1][2] = 1
  /\ begin + HeadSize + DataLen(buf[begin + 1][1]) > Len(buf)
  /\ rest' = SubSeq(buf, begin + 1, begin + HeadSize)
  /\ buf' = <<>> /\ begin' = 0 /\ pc' = "rest"
  /\ UNCHANGED <<sent, todo, closed, sock, got>>

(* Only a part of a write's data is in the buffer: OnRecvPack will read    *)
(* the rest from the socket.                                               *)
PartOfData ==
  /\ pc = "parse" /\ begin + HeadSize <= Len(buf) /\ buf[begin + 1][2] = 1
  /\ begin + HeadSize + DataLen(buf[begin + 1][1]) > Len(buf)
  /\ rest' = SubSeq(buf, begin + 1, Len(buf))
  /\ buf' = <<>> /\ begin' = 0 /\ pc' = "rest"
  /\ UNCHANGED <<sent, todo, closed, sock, got>>

(* SafeReadExact: as much as is queued at a time, until all is there or    *)
(* the stream ends, which drops the request.                               *)
ReadExact ==
  /\ pc = "rest"
  /\ LET want == HeadSize + DataLen(rest[1][1]) - Len(rest)
         n == Least(Len(sock), want)
     IN  \/ /\ n > 0
            /\ sock' = SubSeq(sock, n + 1, Len(sock))
            /\ IF n = want
               THEN got' = Append(got, rest \o SubSeq(sock, 1, n)) /\ rest' = <<>> /\ pc' = "read"
               ELSE rest' = rest \o SubSeq(sock, 1, n) /\ UNCHANGED <<got, pc>>
         \/ /\ n = 0 /\ closed
            /\ rest' = <<>> /\ pc' = "over"
            /\ UNCHANGED <<sock, got>>
  /\ UNCHANGED <<sent, todo, closed, buf, begin>>

Reader == ReadSome \/ CutHeader \/ WholeRequest \/ PartOfData \/ ReadExact

Next == SendRequest \/ SendData \/ CloseSocket \/ Reader

(* The reader thread runs, and the kernel finishes a request it began. *)
Fairness == WF_vars(Reader) /\ WF_vars(SendData)

Spec == Init /\ [][Next]_vars /\ Fairness

-----------------------------------------------------------------------------
(* Every request comes to OnRecvPack once, in order, with its own bytes:   *)
(* no request is parsed a second time after a cut header, none takes       *)
(* another's data.                                                         *)
EachOnceInOrder ==
  \A k \in 1..Len(got) : k <= Len(sent) /\ got[k] = Cells(k, 1, HeadSize + sent[k])

(* Unless the kernel closes the socket, every request it sends arrives:    *)
(* the buffer's end never stops the reader.                                *)
AllHere   == Len(got) = Len(sent)
AllArrive == []<>(AllHere \/ closed)
=============================================================================
