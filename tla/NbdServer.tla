------------------------------ MODULE NbdServer ------------------------------
(***************************************************************************)
(* The NBD bridge: one NBDServer and one BlobInstance per connection to    *)
(* the kernel's device.  A reader thread takes the kernel's requests and   *)
(* gives reads and writes to libcypre, whose threads call back; whoever    *)
(* finishes a request writes its reply on the connection's socket.  The    *)
(* main thread sleeps in NBD_DO_IT until the device is disconnected and    *)
(* then takes the servers, the library and the sockets down.               *)
(*                                                                         *)
(* libcypre is modelled by what ClientStream shows of it: a call either    *)
(* calls back once, or returns an error; the error may come with a         *)
(* callback made inside the call or, of a request in two parts of which    *)
(* one is on its way, with a callback to come.  Requests are whole blocks, *)
(* the device's block size being the blob's: the read-modify-write of an   *)
(* unaligned write is never taken.                                         *)
(***************************************************************************)
EXTENDS Integers, Sequences, FiniteSets

CONSTANTS
  Conns,     \* multi_conns
  Reqs,
  MaxErrors  \* bound: calls of libcypre that return an error

Kinds == {"read", "write", "flush", "trim"}
Disc  == "disc"
NoReq == "none"

VARIABLES
  kind,      \* of a request the kernel sent, or "none"
  conn,      \* its connection
  wire,      \* requests on their way to each server
  gone,      \* the kernel has disconnected the device
  rd, cur,   \* reader thread: where it is, and its request
  ctx,       \* IOContext: "none", "live", "done" (waiting for the socket), "freed"
  err,       \* reply.error is set
  pending,   \* pending_request_counts_
  io,        \* libcypre: "none", "out", "called" (the callback runs)
  stored,    \* writes that reached the blob
  lock,      \* sock_spin_lock_
  out,       \* what was written on the socket: <<request, piece>>
  blob,      \* the handle is open
  terminated, started,
  mgr,       \* main thread: "run", "down", "delete", "gone"
  refused,   \* requests whose call returned an error (history)
  aborted    \* the allocator stopped the process at a double free

reader == <<rd, cur>>
sock   == <<lock, out>>
server == <<terminated, started, mgr>>
vars   == <<kind, conn, wire, gone, reader, ctx, err, pending, io, stored, sock, blob, server,
            refused, aborted>>

Init ==
  /\ kind = [r \in Reqs |-> "none"] /\ conn = [r \in Reqs |-> CHOOSE c \in Conns : TRUE]
  /\ wire = [c \in Conns |-> <<>>] /\ gone = FALSE
  /\ rd = [c \in Conns |-> "read"] /\ cur = [c \in Conns |-> NoReq]
  /\ ctx = [r \in Reqs |-> "none"] /\ err = [r \in Reqs |-> FALSE]
  /\ pending = [c \in Conns |-> 0]
  /\ io = [r \in Reqs |-> "none"] /\ stored = {}
  /\ lock = [c \in Conns |-> NoReq] /\ out = [c \in Conns |-> <<>>]
  /\ blob = [c \in Conns |-> TRUE]
  /\ terminated = [c \in Conns |-> FALSE] /\ started = [c \in Conns |-> TRUE]
  /\ mgr = "run" /\ refused = {} /\ aborted = FALSE

-----------------------------------------------------------------------------
(* The kernel.                                                             *)

Send(r, c, k) ==
  /\ kind[r] = "none" /\ ~gone
  /\ kind' = [kind EXCEPT ![r] = k] /\ conn' = [conn EXCEPT ![r] = c]
  /\ wire' = [wire EXCEPT ![c] = Append(@, r)]
  /\ UNCHANGED <<gone, reader, ctx, err, pending, io, stored, sock, blob, server, refused, aborted>>

(* NBD_DISCONNECT, by unmap or by the signal handler: a request to         *)
(* disconnect on every socket, and NBD_DO_IT returns.                      *)
Disconnect ==
  /\ ~gone
  /\ gone' = TRUE
  /\ wire' = [c \in Conns |-> Append(wire[c], Disc)]
  /\ UNCHANGED <<kind, conn, reader, ctx, err, pending, io, stored, sock, blob, server, refused, aborted>>

-----------------------------------------------------------------------------
(* The reader thread.                                                      *)

(* ReaderFunc and OnRecvPack: the next request gets a context and is       *)
(* counted.  A request to disconnect, or the end of the stream, ends it.   *)
ReaderFunc(c) ==
  /\ rd[c] = "read" /\ ~aborted
  /\ \/ /\ ~terminated[c] /\ wire[c] # <<>> /\ Head(wire[c]) # Disc
        /\ LET r == Head(wire[c])
           IN  /\ cur' = [cur EXCEPT ![c] = r]
               /\ ctx' = [ctx EXCEPT ![r] = "live"]
        /\ pending' = [pending EXCEPT ![c] = @ + 1]
        /\ wire' = [wire EXCEPT ![c] = Tail(@)]
        /\ rd' = [rd EXCEPT ![c] = "start"]
     \/ /\ terminated[c] \/ (wire[c] # <<>> /\ Head(wire[c]) = Disc)
        /\ rd' = [rd EXCEPT ![c] = "close"]
        /\ UNCHANGED <<wire, cur, ctx, pending>>
  /\ UNCHANGED <<kind, conn, gone, err, io, stored, sock, blob, server, refused, aborted>>

(* The context waits for the socket; its reply carries an error or not. *)
Finish(r, bad) ==
  /\ ctx' = [ctx EXCEPT ![r] = "done"]
  /\ err' = [err EXCEPT ![r] = bad]
  /\ pending' = [pending EXCEPT ![conn[r]] = @ - 1]

(* Flush and Trim call back at once with 0. *)
FlushTrim(c) ==
  /\ rd[c] = "start" /\ kind[cur[c]] \in {"flush", "trim"} /\ ~aborted
  /\ Finish(cur[c], FALSE)
  /\ rd' = [rd EXCEPT ![c] = "reply"]
  /\ UNCHANGED <<kind, conn, wire, gone, cur, io, stored, sock, blob, server, refused, aborted>>

(* BlobInstance::Read and Write hand the request to the library. *)
Submit(c, k) ==
  /\ rd[c] = "start" /\ kind[cur[c]] = k /\ ~aborted
  /\ io' = [io EXCEPT ![cur[c]] = "out"]
  /\ rd' = [rd EXCEPT ![c] = "read"]
  /\ cur' = [cur EXCEPT ![c] = NoReq]
  /\ UNCHANGED <<kind, conn, wire, gone, ctx, err, pending, stored, sock, blob, server, refused, aborted>>

Read(c)  == Submit(c, "read")
Write(c) == Submit(c, "write")

(* The library returns an error.  The reader finishes the request and the  *)
(* connection is over.  The reply still says that all is well.  Of a       *)
(* request in two parts one may be on its way all the same.                *)
Refuse(c, left) ==
  /\ rd[c] = "start" /\ kind[cur[c]] \in {"read", "write"} /\ ~aborted
  /\ Cardinality(refused) < MaxErrors
  /\ refused' = refused \cup {cur[c]}
  /\ io' = [io EXCEPT ![cur[c]] = left]
  /\ Finish(cur[c], FALSE)
  /\ rd' = [rd EXCEPT ![c] = "lastreply"]
  /\ UNCHANGED <<kind, conn, wire, gone, cur, stored, sock, blob, server, aborted>>

(* The library calls back inside the call and returns the error too: the   *)
(* request is answered and freed, and then finished again by the reader,   *)
(* which the allocator may notice.                                         *)
RefuseCalledBack(c) ==
  /\ rd[c] = "start" /\ kind[cur[c]] \in {"read", "write"} /\ ~aborted
  /\ Cardinality(refused) < MaxErrors /\ lock[c] = NoReq
  /\ refused' = refused \cup {cur[c]}
  /\ \/ /\ aborted' = TRUE
        /\ UNCHANGED <<pending, out, rd, ctx, err>>
     \/ /\ pending' = [pending EXCEPT ![c] = @ - 2]
        /\ out' = [out EXCEPT ![c] = @ \o <<<<cur[c], "err">>, <<cur[c], "err">>>>]
        /\ ctx' = [ctx EXCEPT ![cur[c]] = "freed"]
        /\ err' = [err EXCEPT ![cur[c]] = TRUE]
        /\ rd' = [rd EXCEPT ![c] = "close"]
        /\ UNCHANGED aborted
  /\ UNCHANGED <<kind, conn, wire, gone, cur, io, stored, lock, blob, server>>

(* The thread's end: the handle is closed, which waits for its requests    *)
(* and their callbacks ...                                                 *)
CloseBlob(c) ==
  /\ rd[c] = "close" /\ ~aborted
  /\ \A r \in Reqs : conn[r] = c => io[r] = "none"
  /\ blob' = [blob EXCEPT ![c] = FALSE]
  /\ rd' = [rd EXCEPT ![c] = "shut"]
  /\ UNCHANGED <<kind, conn, wire, gone, cur, ctx, err, pending, io, stored, sock, server, refused, aborted>>

(* ... and Shutdown, which does not wait for itself. *)
ShutdownSelf(c) ==
  /\ rd[c] = "shut" /\ ~aborted
  /\ terminated' = [terminated EXCEPT ![c] = TRUE]
  /\ rd' = [rd EXCEPT ![c] = "over"]
  /\ UNCHANGED <<kind, conn, wire, gone, cur, ctx, err, pending, io, stored, sock, blob, started, mgr,
                 refused, aborted>>

-----------------------------------------------------------------------------
(* The library's threads.                                                  *)

(* NBDAioCallback: the result becomes the reply's error. *)
NBDAioCallback(r, rc) ==
  /\ io[r] = "out" /\ r \notin refused /\ ~aborted
  /\ io' = [io EXCEPT ![r] = "called"]
  /\ stored' = IF rc = 0 /\ kind[r] = "write" THEN stored \cup {r} ELSE stored
  /\ Finish(r, rc # 0)
  /\ UNCHANGED <<kind, conn, wire, gone, reader, sock, blob, server, refused, aborted>>

(* The callback of a refused request: the reader finishes the same context *)
(* and frees it.  The request is answered a second time, unless the        *)
(* allocator stops the process.                                            *)
CallbackOfRefused(r) ==
  LET c == conn[r] IN
  /\ io[r] = "out" /\ r \in refused /\ lock[c] = NoReq /\ ~aborted
  /\ \/ /\ aborted' = TRUE
        /\ UNCHANGED <<io, err, pending, out>>
     \/ /\ io' = [io EXCEPT ![r] = "none"]
        /\ err' = [err EXCEPT ![r] = TRUE]
        /\ pending' = [pending EXCEPT ![c] = @ - 1]
        /\ out' = [out EXCEPT ![c] = Append(@, <<r, "err">>)]
        /\ UNCHANGED aborted
  /\ UNCHANGED <<kind, conn, wire, gone, reader, ctx, stored, lock, blob, server, refused>>

(* The request is over: its context is freed, and the thread that finished *)
(* it goes on.                                                             *)
Free(r) ==
  LET c == conn[r] IN
  /\ ctx' = [ctx EXCEPT ![r] = "freed"]
  /\ io' = IF r \in refused THEN io ELSE [io EXCEPT ![r] = "none"]
  /\ cur' = IF cur[c] = r THEN [cur EXCEPT ![c] = NoReq] ELSE cur
  /\ rd' = CASE cur[c] = r /\ rd[c] = "reply"     -> [rd EXCEPT ![c] = "read"]
             [] cur[c] = r /\ rd[c] = "lastreply" -> [rd EXCEPT ![c] = "close"]
             [] OTHER                             -> rd

(* OnRequestFinish and SendReply: under the socket's lock, the reply, and  *)
(* a read's data behind it.                                                *)
SendReply(r) ==
  /\ ctx[r] = "done" /\ lock[conn[r]] = NoReq /\ ~aborted
  /\ out' = [out EXCEPT ![conn[r]] = Append(@, <<r, IF err[r] THEN "err" ELSE "ok">>)]
  /\ IF kind[r] = "read" /\ ~err[r]
     THEN lock' = [lock EXCEPT ![conn[r]] = r] /\ UNCHANGED <<ctx, io, reader>>
     ELSE Free(r) /\ UNCHANGED lock
  /\ UNCHANGED <<kind, conn, wire, gone, err, pending, stored, blob, server, refused, aborted>>

SendReplyData(r) ==
  /\ lock[conn[r]] = r /\ ~aborted
  /\ out' = [out EXCEPT ![conn[r]] = Append(@, <<r, "data">>)]
  /\ lock' = [lock EXCEPT ![conn[r]] = NoReq]
  /\ Free(r)
  /\ UNCHANGED <<kind, conn, wire, gone, err, pending, stored, blob, server, refused, aborted>>

-----------------------------------------------------------------------------
(* The main thread.                                                        *)

(* RunUntilQuit returns. *)
RunUntilQuit ==
  /\ mgr = "run" /\ gone /\ ~aborted
  /\ mgr' = "down"
  /\ UNCHANGED <<kind, conn, wire, gone, reader, ctx, err, pending, io, stored, sock, blob, terminated,
                 started, refused, aborted>>

(* ~NBDMgr: Shutdown of each server ends its reader and joins it. *)
Shutdown(c) ==
  /\ mgr = "down" /\ started[c] /\ ~aborted
  /\ terminated' = [terminated EXCEPT ![c] = TRUE]
  /\ started' = IF rd[c] = "over" THEN [started EXCEPT ![c] = FALSE] ELSE started
  /\ UNCHANGED <<kind, conn, wire, gone, reader, ctx, err, pending, io, stored, sock, blob, mgr,
                 refused, aborted>>

(* Then the library and the sockets are deleted. *)
DeleteServers ==
  /\ mgr = "down" /\ ~aborted
  /\ \A c \in Conns : ~started[c]
  /\ mgr' = "gone"
  /\ UNCHANGED <<kind, conn, wire, gone, reader, ctx, err, pending, io, stored, sock, blob, terminated,
                 started, refused, aborted>>

Steps ==
  \/ \E c \in Conns : ReaderFunc(c) \/ FlushTrim(c) \/ Read(c) \/ Write(c) \/ CloseBlob(c)
                        \/ ShutdownSelf(c) \/ Shutdown(c)
  \/ \E r \in Reqs : (\E rc \in {0, 1} : NBDAioCallback(r, rc)) \/ CallbackOfRefused(r)
                       \/ SendReply(r) \/ SendReplyData(r)
  \/ RunUntilQuit \/ DeleteServers

Next ==
  \/ \E r \in Reqs, c \in Conns, k \in Kinds : Send(r, c, k)
  \/ Disconnect
  \/ \E c \in Conns : Refuse(c, "none") \/ Refuse(c, "out") \/ RefuseCalledBack(c)
  \/ Steps

(* The threads run and libcypre calls back, as ClientStream!CalledBack     *)
(* shows.                                                                  *)
Fairness == WF_vars(Steps)

Spec == Init /\ [][Next]_vars /\ Fairness

-----------------------------------------------------------------------------
(* A reply's data follows its header at once: two threads that finish      *)
(* requests never mix their replies on the socket.                         *)
RepliesWhole ==
  \A c \in Conns : \A i \in 1..Len(out[c]) :
    LET r == out[c][i][1] IN
    /\ out[c][i][2] = "data" => i > 1 /\ out[c][i - 1] = <<r, "ok">>
    /\ out[c][i] = <<r, "ok">> /\ kind[r] = "read"
         => \/ i < Len(out[c]) /\ out[c][i + 1] = <<r, "data">>
            \/ i = Len(out[c]) /\ lock[c] = r

(* The kernel is told that a write is done only if it is in the blob, but  *)
(* for a write that the library refused, which is answered as done.        *)
ToldTruth ==
  \A c \in Conns : \A i \in 1..Len(out[c]) :
    LET r == out[c][i][1] IN
    out[c][i][2] = "ok" /\ kind[r] = "write" => r \in stored \cup refused

(* When the handle is closed no callback of its requests is still to come, *)
(* so none finds its context, its server or its socket deleted.            *)
NoLateCallback ==
  \A r \in Reqs : io[r] # "none" => blob[conn[r]] /\ mgr # "gone"

(* After a disconnect the bridge goes down: reader and main thread do not  *)
(* wait for each other.                                                    *)
Down     == gone => mgr = "gone" \/ aborted
GoesDown == []<>Down

(* Every request that is read from the socket is answered. *)
NoneOpen == aborted \/ \A r \in Reqs : ctx[r] \in {"none", "freed"}
Answered == []<>NoneOpen
=============================================================================
