--------------------------- MODULE BinaryChannel ---------------------------
(***************************************************************************)
(* The transfer of binaries between two Dom0 instances: on one side        *)
(* RemoteDom0Instance::sendElfBinaryFromRom, on the other the thread that  *)
(* serverCombined starts for every connection, binaryConnectionHandler.    *)
(*                                                                         *)
(* A connection is a byte stream in each direction; a unit of it is an     *)
(* int32_t, a path, or a piece of file content.  receiveData takes what it *)
(* needs in any number of reads, so the handler's reads, its writes to the *)
(* file, the sender's steps and the loss of a connection interleave.       *)
(* size_t arithmetic is modulo Word.                                       *)
(***************************************************************************)
EXTENDS Integers, Sequences, FiniteSets

CONSTANTS
    Conns,       \* the connections to the binary port
    Names,       \* the remote paths of the binaries
    LongNames,   \* those that are longer than the handler's buffer, BUF_LEN
    Cells,       \* pieces of file content
    Uploads,     \* the sendElfBinaryFromRom calls that clients make
    MaxChunk,    \* Max_rw_buffer_size: the size of rwBuffer
    Word,        \* 2^32
    Errnos,      \* what errno can hold when read() returns less than 1
    MaxOpen,     \* the descriptors Dom0 has for binaries
    MaxFile,     \* the size at which tmpfs runs out of memory for a file
    MaxUploads,  \* bound: the calls made on one connection
    NoFile,      \* content of a path that does not exist
    Faults       \* "loss" of a connection, failing "write"

\* loads: whether loadFile finds the local file; data is its content.
UploadType == [conn : Conns, name : Names, data : Seq(Cells), loads : BOOLEAN]

\* What the connection carries, and what a file consists of.
Units == Names \cup Cells \cup Nat

ASSUME NamesAssumption == Names # {} /\ LongNames \subseteq Names /\ NoFile \notin Seq(Units)
ASSUME UploadsAssumption == Uploads \subseteq UploadType
ASSUME ChunkAssumption == /\ MaxChunk \in Nat \ {0} /\ MaxOpen \in Nat
                          /\ MaxFile \in Nat /\ MaxUploads \in Nat
ASSUME WordAssumption == /\ Word \in Nat \ {0} /\ Errnos \subseteq Nat
                         /\ \A e \in Errnos : MaxChunk < Word - e - 1
                         /\ \A u \in Uploads : Len(u.data) < Word \div 2

VARIABLES
    up,        \* connection: "unused", "up" or "down"
    toServer,  \* units on their way to the handler
    toClient,  \* GO_SEND messages on their way to the client
    \* the client
    client,    \* "idle", or "waiting" for the GO of upload cur
    cur,       \* the upload in progress
    sent,      \* the uploads whose header was sent
    reported,  \* how many calls have returned the size of a binary
    \* the handler thread
    handler,   \* "none", "name", "size", "data", "write", "closed", "crashed"
    path,      \* the path received
    file,      \* is the path open
    size,      \* the announced size
    left,      \* leftToReceive
    buf,       \* what the current receiveData has put into rwBuffer
    received,  \* what receiveData returned, as a size_t
    written,   \* the bytes of the chunk written
    pos,       \* the position of the file descriptor
    clean,     \* has every write of this binary succeeded
    served,    \* how many binaries were received
    \* the file system
    content,   \* path -> content
    opened     \* descriptors in use: a handler never closes one

netVars     == <<up, toServer, toClient>>
clientVars  == <<client, cur, sent, reported>>
chunkVars   == <<left, buf, received, written>>
fileVars    == <<path, file, size, pos, clean>>
handlerVars == <<handler, path, file, size, left, buf, received, written, pos, clean, served>>
fsVars      == <<content, opened>>
vars == <<up, toServer, toClient, client, cur, sent, reported, handler, path, file,
          size, left, buf, received, written, pos, clean, served, content, opened>>

GO_SEND == "GO_SEND"
SomeName == CHOOSE p \in Names : TRUE
NoUpload(c) == [conn |-> c, name |-> SomeName, data |-> <<>>, loads |-> FALSE]

\* loadFile returns -1 for a file it cannot load, which is sent as the size.
SizeOf(u) == IF u.loads THEN Len(u.data) ELSE Word - 1

\* What precedes the content: the length of the path (which is one unit), the path,
\* and the size.
Header(u) == <<1, u.name, SizeOf(u)>>

Init ==
    /\ up = [c \in Conns |-> "unused"]
    /\ toServer = [c \in Conns |-> <<>>]
    /\ toClient = [c \in Conns |-> <<>>]
    /\ client = [c \in Conns |-> "idle"]
    /\ cur = [c \in Conns |-> NoUpload(c)]
    /\ sent = [c \in Conns |-> <<>>]
    /\ reported = [c \in Conns |-> 0]
    /\ handler = [c \in Conns |-> "none"]
    /\ path = [c \in Conns |-> SomeName]
    /\ file = [c \in Conns |-> FALSE]
    /\ size = [c \in Conns |-> 0]
    /\ left = [c \in Conns |-> 0]
    /\ buf = [c \in Conns |-> <<>>]
    /\ received = [c \in Conns |-> 0]
    /\ written = [c \in Conns |-> 0]
    /\ pos = [c \in Conns |-> 0]
    /\ clean = [c \in Conns |-> TRUE]
    /\ served = [c \in Conns |-> 0]
    /\ content = [p \in Names |-> NoFile]
    /\ opened = 0

-----------------------------------------------------------------------------
(* The connection. *)

\* The client connects; the listener accepts and starts a handler thread.
Connect(c) ==
    /\ up[c] = "unused" /\ \A d \in Conns : handler[d] # "crashed"
    /\ up' = [up EXCEPT ![c] = "up"]
    /\ handler' = [handler EXCEPT ![c] = "name"]
    /\ UNCHANGED <<toServer, toClient, clientVars, chunkVars, fileVars, served, fsVars>>

\* The client disconnects between two calls; what it has sent still arrives.
Disconnect(c) ==
    /\ up[c] = "up" /\ client[c] = "idle"
    /\ up' = [up EXCEPT ![c] = "down"]
    /\ UNCHANGED <<toServer, toClient, clientVars, handlerVars, fsVars>>

\* The connection breaks; a part of what was sent is lost.
Lose(c) ==
    /\ "loss" \in Faults
    /\ up[c] = "up"
    /\ up' = [up EXCEPT ![c] = "down"]
    /\ \E n \in 0..Len(toServer[c]) :
          toServer' = [toServer EXCEPT ![c] = SubSeq(@, 1, n)]
    /\ \E n \in 0..Len(toClient[c]) :
          toClient' = [toClient EXCEPT ![c] = SubSeq(@, 1, n)]
    /\ UNCHANGED <<clientVars, handlerVars, fsVars>>

-----------------------------------------------------------------------------
(* The client: RemoteDom0Instance. *)

\* The call fails; the caller sees -errno.
Fail(c) ==
    /\ client' = [client EXCEPT ![c] = "idle"]
    /\ UNCHANGED <<toServer, cur, sent, reported>>

\* sendElfBinaryFromRom: the header of the binary.
SendHeader(u) ==
    LET c == u.conn
    IN  /\ up[c] # "unused" /\ client[c] = "idle" /\ Len(sent[c]) < MaxUploads
        /\ \/ /\ up[c] = "up"
              /\ toServer' = [toServer EXCEPT ![c] = @ \o Header(u)]
              /\ sent' = [sent EXCEPT ![c] = Append(@, u)]
              /\ client' = [client EXCEPT ![c] = "waiting"]
              /\ cur' = [cur EXCEPT ![c] = u]
              /\ UNCHANGED reported
           \/ up[c] = "down" /\ Fail(c)
           \/ \* the write to a closed connection is accepted, and lost
              /\ up[c] = "down"
              /\ client' = [client EXCEPT ![c] = "waiting"]
              /\ cur' = [cur EXCEPT ![c] = u]
              /\ UNCHANGED <<toServer, sent, reported>>
        /\ UNCHANGED <<up, toClient, handlerVars, fsVars>>

\* sendElfBinaryFromMemory: the answer, whatever it is, is the GO; then the
\* content is sent.  A write of nothing, or from a null pointer, is a failure.
SendContent(c) ==
    LET u == cur[c]
    IN  /\ client[c] = "waiting"
        /\ toClient[c] # <<>>
        /\ toClient' = [toClient EXCEPT ![c] = Tail(@)]
        /\ \/ /\ ~u.loads \/ u.data = <<>> \/ up[c] = "down"
              /\ Fail(c)
           \/ /\ u.loads /\ u.data # <<>>
              /\ toServer' = IF up[c] = "up"
                             THEN [toServer EXCEPT ![c] = @ \o u.data] ELSE toServer
              /\ reported' = [reported EXCEPT ![c] = @ + 1]
              /\ client' = [client EXCEPT ![c] = "idle"]
              /\ UNCHANGED <<cur, sent>>
        /\ UNCHANGED <<up, handlerVars, fsVars>>

\* The connection is lost while the client waits for the GO.
NoGo(c) ==
    /\ client[c] = "waiting" /\ toClient[c] = <<>> /\ up[c] = "down"
    /\ Fail(c)
    /\ UNCHANGED <<up, toClient, handlerVars, fsVars>>

-----------------------------------------------------------------------------
(* The handler thread: binaryConnectionHandler and receiveNetworkBinary. *)

\* NETCHECK_LOOP: break, and close the socket.
Break(c) ==
    /\ handler' = [handler EXCEPT ![c] = "closed"]
    /\ up' = [up EXCEPT ![c] = "down"]
    /\ toServer' = [toServer EXCEPT ![c] = <<>>]

\* The next n units have arrived; or they never will.
Arrived(c, n) == Len(toServer[c]) >= n
NeverArrives(c, n) == up[c] = "down" /\ Len(toServer[c]) < n
Rest(c, n) == [toServer EXCEPT ![c] = SubSeq(@, n + 1, Len(@))]

\* The path's length and the path; the file is created unless it exists.  open() fails
\* without a free descriptor, or because the file system does not take the path.  A
\* path longer than the buffer overwrites what lies behind it on the stack; that can
\* go unnoticed (else: Crash).
ReceiveName(c) ==
    /\ handler[c] = "name"
    /\ \/ /\ Arrived(c, 2)
          /\ toServer' = Rest(c, 2)
          /\ path' = [path EXCEPT ![c] = toServer[c][2]]
          /\ pos' = [pos EXCEPT ![c] = 0]
          /\ clean' = [clean EXCEPT ![c] = TRUE]
          /\ \E ok \in BOOLEAN :
                /\ ok => opened < MaxOpen
                /\ file' = [file EXCEPT ![c] = ok]
                /\ IF ok
                   THEN /\ opened' = opened + 1
                        /\ content' = [content EXCEPT ![toServer[c][2]] =
                                          IF @ = NoFile THEN <<>> ELSE @]
                   ELSE UNCHANGED fsVars
          /\ handler' = [handler EXCEPT ![c] = "size"]
          /\ UNCHANGED up
       \/ /\ NeverArrives(c, 2)
          /\ Break(c)
          /\ UNCHANGED <<path, file, pos, clean, fsVars>>
    /\ UNCHANGED <<toClient, clientVars, size, chunkVars, served>>

\* Mutant of Go: the handler receives without telling the client to send.
NoGoSent(c) == UNCHANGED toClient

\* GO_SEND: the partner can start sending.
Go(c) == toClient' = IF up[c] = "up" THEN [toClient EXCEPT ![c] = Append(@, GO_SEND)]
                     ELSE toClient

\* The size of the binary, answered with GO_SEND.  A binary of size 0 ends the
\* handler at once: receiveNetworkBinary returns 0, which NETCHECK_LOOP takes
\* for a lost connection.
ReceiveSize(c) ==
    /\ handler[c] = "size"
    /\ \/ /\ Arrived(c, 1)
          /\ size' = [size EXCEPT ![c] = toServer[c][1]]
          /\ left' = [left EXCEPT ![c] = toServer[c][1]]
          /\ buf' = [buf EXCEPT ![c] = <<>>]
          /\ \/ /\ toServer[c][1] # 0
                /\ handler' = [handler EXCEPT ![c] = "data"]
                /\ toServer' = Rest(c, 1)
                /\ UNCHANGED <<up, served>>
             \/ /\ toServer[c][1] = 0
                /\ served' = [served EXCEPT ![c] = @ + 1]
                /\ Break(c)
          /\ Go(c)
       \/ \* no size, or no way to answer it
          /\ up[c] = "down"
          /\ Break(c)
          /\ UNCHANGED <<toClient, size, left, buf, served>>
    /\ UNCHANGED <<clientVars, path, file, pos, clean, received, written, fsVars>>

\* Mutant of Wanted: a chunk is asked for whatever is left.
WantedAll(c) == MaxChunk

\* What one receiveData is asked for, and a chunk that it returned n for.
Wanted(c) == IF MaxChunk < left[c] THEN MaxChunk ELSE left[c]
StartWrite(c, n) ==
    /\ received' = [received EXCEPT ![c] = n]
    /\ left' = [left EXCEPT ![c] = (@ - n) % Word]
    /\ written' = [written EXCEPT ![c] = 0]
    /\ handler' = [handler EXCEPT ![c] = "write"]

\* A read() of receiveData returns n units, or less than 1.
Receive(c) ==
    /\ handler[c] = "data"
    /\ \/ \E n \in 1..(Wanted(c) - Len(buf[c])) :
             /\ Arrived(c, n)
             /\ toServer' = Rest(c, n)
             /\ buf' = [buf EXCEPT ![c] = @ \o SubSeq(toServer[c], 1, n)]
             /\ IF Len(buf'[c]) = Wanted(c) THEN StartWrite(c, Wanted(c))
                ELSE UNCHANGED <<received, left, written, handler>>
       \/ \* -errno, in a size_t
          /\ NeverArrives(c, 1)
          /\ \E e \in Errnos : StartWrite(c, (-e) % Word)
          /\ UNCHANGED <<toServer, buf>>
    /\ UNCHANGED <<up, toClient, clientVars, fileVars, served, fsVars>>

\* Content d with s written at position p, which is not behind its end.
WriteAt(d, p, s) == [k \in 1..(IF p + Len(s) > Len(d) THEN p + Len(s) ELSE Len(d)) |->
                        IF k > p /\ k <= p + Len(s) THEN s[k - p] ELSE d[k]]

\* Mutant of Write: every write starts at the beginning of rwBuffer.
WriteFromStart(c) ==
    /\ handler[c] = "write" /\ written[c] < received[c]
    /\ \E n \in 1..(received[c] - written[c]) :
          /\ file[c] /\ received[c] <= MaxChunk /\ pos[c] + n <= MaxFile
          /\ content' = [content EXCEPT ![path[c]] =
                                WriteAt(@, pos[c], SubSeq(buf[c], 1, n))]
          /\ pos' = [pos EXCEPT ![c] = @ + n]
          /\ written' = [written EXCEPT ![c] = @ + n]
    /\ UNCHANGED <<netVars, clientVars, handler, path, file, size, left, buf, received,
                   clean, served, opened>>

\* One write() of the inner loop.
Write(c) ==
    /\ handler[c] = "write" /\ written[c] < received[c]
    /\ \/ \E n \in 1..(received[c] - written[c]) :
             /\ file[c] /\ received[c] <= MaxChunk /\ pos[c] + n <= MaxFile
             /\ content' = [content EXCEPT ![path[c]] =
                    WriteAt(@, pos[c], SubSeq(buf[c], written[c] + 1, written[c] + n))]
             /\ pos' = [pos EXCEPT ![c] = @ + n]
             /\ written' = [written EXCEPT ![c] = @ + n]
             /\ UNCHANGED clean
       \/ \* -1 is added to written
          /\ \/ ~file[c] \/ received[c] > MaxChunk
             \/ pos[c] = MaxFile \/ "write" \in Faults
          /\ written' = [written EXCEPT ![c] = (@ - 1) % Word]
          /\ clean' = [clean EXCEPT ![c] = FALSE]
          /\ UNCHANGED <<content, pos>>
    /\ UNCHANGED <<netVars, clientVars, handler, path, file, size, left, buf, received,
                   served, opened>>

\* receiveData(buffer, message, fd) of a path that is longer than the buffer.
PathOverruns(c) == handler[c] = "name" /\ Arrived(c, 2) /\ toServer[c][2] \in LongNames

\* A write of more than rwBuffer holds can also end Dom0 with a page fault.  So can a
\* path that overwrites the handler's stack; whatever else Dom0 does with such a stack
\* is not followed.
Crash(c) ==
    /\ \/ handler[c] = "write" /\ written[c] < received[c] /\ received[c] > MaxChunk
       \/ PathOverruns(c)
    /\ handler' = [d \in Conns |-> IF handler[d] = "none" THEN "none" ELSE "crashed"]
    /\ up' = [d \in Conns |-> IF up[d] = "up" THEN "down" ELSE up[d]]
    /\ UNCHANGED <<toServer, toClient, clientVars, chunkVars, fileVars, served, fsVars>>

\* Mutants of EndChunk: a binary is taken for received after its first chunk;
\* the loop goes on while leftToReceive >= 0.
EndChunkEarly(c) ==
    /\ handler[c] = "write" /\ written[c] >= received[c]
    /\ served' = [served EXCEPT ![c] = @ + 1]
    /\ handler' = [handler EXCEPT ![c] = "name"]
    /\ UNCHANGED <<netVars, clientVars, fileVars, chunkVars, fsVars>>
EndChunkNever(c) ==
    /\ handler[c] = "write" /\ written[c] >= received[c]
    /\ handler' = [handler EXCEPT ![c] = "data"]
    /\ buf' = [buf EXCEPT ![c] = <<>>]
    /\ UNCHANGED <<netVars, clientVars, fileVars, left, received, written, served, fsVars>>

\* The chunk is written: the next one, or the next binary.  A size that is
\* negative as a ssize_t ends the handler.
EndChunk(c) ==
    /\ handler[c] = "write" /\ written[c] >= received[c]
    /\ \/ /\ left[c] > 0
          /\ handler' = [handler EXCEPT ![c] = "data"]
          /\ buf' = [buf EXCEPT ![c] = <<>>]
          /\ UNCHANGED <<up, toServer, served>>
       \/ /\ left[c] = 0
          /\ served' = [served EXCEPT ![c] = @ + 1]
          /\ IF size[c] < Word \div 2
             THEN handler' = [handler EXCEPT ![c] = "name"] /\ UNCHANGED <<up, toServer>>
             ELSE Break(c)
          /\ UNCHANGED buf
    /\ UNCHANGED <<toClient, clientVars, fileVars, left, received, written, fsVars>>

Client(c) == SendContent(c) \/ NoGo(c)
Handler(c) == \/ ReceiveName(c) \/ ReceiveSize(c) \/ Receive(c) \/ Write(c)
              \/ Crash(c) \/ EndChunk(c)

Next ==
    \/ \E c \in Conns : Connect(c) \/ Disconnect(c) \/ Lose(c) \/ Client(c) \/ Handler(c)
    \/ \E u \in Uploads : SendHeader(u)

Spec == Init /\ [][Next]_vars

\* Threads that can run do run; callers call when they like.
FairSpec == Spec /\ \A c \in Conns : WF_vars(Client(c)) /\ WF_vars(Handler(c))

-----------------------------------------------------------------------------
(* Properties. *)

\* Types: in particular sizes and counts stay size_t values, however the handler's
\* unsigned arithmetic wraps around.
TypeOK ==
    /\ up \in [Conns -> {"unused", "up", "down"}]
    /\ toServer \in [Conns -> Seq(Units)]
    /\ toClient \in [Conns -> Seq({GO_SEND})]
    /\ client \in [Conns -> {"idle", "waiting"}]
    /\ cur \in [Conns -> UploadType]
    /\ sent \in [Conns -> Seq(UploadType)]
    /\ reported \in [Conns -> Nat]
    /\ handler \in [Conns -> {"none", "name", "size", "data", "write", "closed", "crashed"}]
    /\ path \in [Conns -> Names]
    /\ file \in [Conns -> BOOLEAN] /\ clean \in [Conns -> BOOLEAN]
    /\ size \in [Conns -> 0..Word - 1] /\ left \in [Conns -> 0..Word - 1]
    /\ received \in [Conns -> 0..Word - 1] /\ written \in [Conns -> 0..Word - 1]
    /\ buf \in [Conns -> Seq(Units)]
    /\ pos \in [Conns -> Nat] /\ served \in [Conns -> Nat] /\ opened \in 0..MaxOpen
    /\ \A p \in Names : content[p] = NoFile \/ content[p] \in Seq(Units)

\* The upload the handler is at.
Serving(c) == sent[c][served[c] + 1]

\* What the handler still has to receive of a binary.
Due(c) == IF handler[c] = "data" THEN left[c] - Len(buf[c]) ELSE left[c]

\* Ahead of the handler are the last rem units of the content of upload k, then the
\* header of upload k + 1 without its first off units, or a part of that.
Ahead(c, k, rem, off) ==
    \A i \in 1..Len(toServer[c]) :
        IF i <= rem
        THEN /\ rem <= Len(sent[c][k].data)
             /\ toServer[c][i] = sent[c][k].data[Len(sent[c][k].data) - rem + i]
        ELSE /\ k < Len(sent[c]) /\ i - rem + off <= 3
             /\ toServer[c][i] = Header(sent[c][k + 1])[i - rem + off]

\* The handler and the sender agree on where one message ends and the next begins:
\* the path and the size the handler works with are those of the upload it is at, and
\* what is on its way is the rest of that upload, and at most the header of the next,
\* just from where the handler goes on reading.  Except while the handler receives a
\* file that could not be loaded: it waits for 2^32 - 1 bytes that are not sent, and
\* the headers and contents of later uploads pass for them.
InStep ==
    \A c \in Conns :
        /\ handler[c] \in {"size", "data", "write"} =>
              /\ served[c] < Len(sent[c])
              /\ path[c] = Serving(c).name
              /\ handler[c] # "size" => size[c] = SizeOf(Serving(c))
        /\ handler[c] = "name" => Ahead(c, served[c], 0, 0)
        /\ handler[c] = "size" => Ahead(c, served[c], 0, 2)
        /\ handler[c] \in {"data", "write"} /\ Serving(c).loads =>
              Ahead(c, served[c] + 1, Due(c), 0)

\* Nobody but the client of c sends a binary to path p.
Exclusive(c, p) == \A u \in Uploads : u.name = p => u.conn = c

Holds(p, s) == content[p] # NoFile /\ Len(content[p]) >= Len(s)
               /\ SubSeq(content[p], 1, Len(s)) = s

\* However reads and writes are split up, a file holds, from its beginning,
\* just what the sender sent so far, and all of it once the binary is received;
\* unless a write failed or two clients send to one path.
StoredInOrder ==
    \A c \in Conns : clean[c] /\ file[c] /\ Exclusive(c, path[c]) =>
        /\ handler[c] \in {"data", "write"} /\ Serving(c).loads =>
              /\ pos[c] <= Len(Serving(c).data)
              /\ Holds(path[c], SubSeq(Serving(c).data, 1, pos[c]))
        /\ handler[c] = "name" /\ served[c] > 0 =>
              Holds(sent[c][served[c]].name, sent[c][served[c]].data)

\* "Receives a file from the network of size size and writes it to the file specified
\* by fd": what handlers write to a file is content, and never a part of a header,
\* unless a client has sent a file to that path that could not be loaded.
OnlyContentStored ==
    \A p \in Names : content[p] # NoFile =>
        \/ \A k \in 1..Len(content[p]) : content[p][k] \in Cells
        \/ \E c \in Conns : \E n \in 1..Len(sent[c]) : sent[c][n].name = p /\ ~sent[c][n].loads

\* Every call of the client returns, however the connection or the handler's writes
\* fail; unless a file could not be loaded in an earlier call on the connection, and
\* the handler takes what follows for the content it was promised.
UploadsReturn == \A c \in Conns :
    client[c] = "waiting" ~> \/ client[c] = "idle"
                             \/ \E k \in 1..Len(sent[c]) - 1 : ~sent[c][k].loads

\* A binary whose size the client was told as the number of bytes sent is received, if
\* the connection lasts: whatever else was sent before and after it, and though the
\* handler may drop what it cannot write.
ReportedIsReceived == \A c \in Conns : \A n \in 1..MaxUploads :
    reported[c] = n ~> served[c] >= n \/ up[c] = "down"

\* "Macro to detect connection loss/termination and break out of the loop": a
\* handler whose connection is gone ends.
LossEndsHandler == \A c \in Conns :
    up[c] = "down" ~> handler[c] \in {"none", "closed", "crashed"}
=============================================================================
