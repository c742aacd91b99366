-------------------------------- MODULE L4fs --------------------------------
(***************************************************************************)
(* The machine-global file system: the fs_srv server, the l4fs IPC protocol*)
(* and the libc backend through which its clients use it.                  *)
(*                                                                         *)
(* A client is a thread that calls the backend: a thread of another task,  *)
(* or one of several threads of one task that share a mount.  All of them  *)
(* map the one buffer that the server hands out, rwBuf.  A backend call is *)
(* one or more IPC calls; each IPC call is three steps that interleave     *)
(* with those of the other clients: the client fills the buffer and sends, *)
(* the (single-threaded) server dispatches, the client takes the reply and *)
(* copies out of the buffer.                                               *)
(*                                                                         *)
(* The tmpfs below the server is external.  It is modelled by what fs_srv  *)
(* needs of it: POSIX calls on a flat set of paths, failing with -1.       *)
(***************************************************************************)
EXTENDS FsTypes

VARIABLES
    \* server: tmpfs, the descriptor table of its libc, the shared buffer
    dirent,     \* path -> node
    kind,       \* node -> "dir" or "file"
    data,       \* node -> content
    fdt,        \* descriptor -> node
    rwBuf,      \* the buffer every client has mapped
    \* clients
    root,       \* the handle of the mounted root directory, an L4fs_dir
    file,       \* client -> slot -> the handle _fh of an L4fs_file
    phase,      \* is the client idle, waiting for the server, ...
    call,       \* the backend call in progress
    reply,      \* what the server answered
    res         \* what the client's last backend call returned

fsVars     == <<dirent, kind, data, fdt>>
clientVars == <<root, file, phase, call, reply, res>>
vars == <<dirent, kind, data, fdt, rwBuf, root, file, phase, call, reply, res>>

\* _fh of an object after close(), and a slot without an object.
Closed   == -1
NoObject == -2

FsInit ==
    /\ dirent = [p \in Names |-> IF p = Root THEN RootIno ELSE NoIno]
    /\ kind = [i \in Inodes |-> IF i = RootIno THEN "dir" ELSE "file"]
    /\ data = [i \in Inodes |-> <<>>]
    /\ fdt = [f \in Fds |-> NoIno]
    /\ rwBuf = [k \in 1..MaxBuf |-> Zero]

Init ==
    /\ FsInit
    /\ root = [c \in Clients |-> Closed]
    /\ file = [c \in Clients |-> [s \in Slots |-> NoObject]]
    /\ phase = [c \in Clients |-> "idle"]
    /\ call = [c \in Clients |-> NoCall]
    /\ reply = [c \in Clients |-> NoReply]
    /\ res = [c \in Clients |-> 0]


-----------------------------------------------------------------------------
(* IPC stubs and the parts every backend call shares. *)

\* The client's call record cl goes to the server.
Send(c, cl) ==
    /\ phase' = [phase EXCEPT ![c] = "sent"]
    /\ call' = [call EXCEPT ![c] = cl]
    /\ reply' = [reply EXCEPT ![c] = NoReply]
    /\ UNCHANGED res

\* The backend call ends with v.
Return(c, v) ==
    /\ phase' = [phase EXCEPT ![c] = "idle"]
    /\ call' = [call EXCEPT ![c] = NoCall]
    /\ reply' = [reply EXCEPT ![c] = NoReply]
    /\ res' = [res EXCEPT ![c] = v]

\* The server's answer: the error code in the IPC tag, and one payload word.
Answer(c, ret, size) ==
    /\ phase' = [phase EXCEPT ![c] = "replied"]
    /\ reply' = [reply EXCEPT ![c] = [ret |-> ret, size |-> size]]
    /\ UNCHANGED <<root, file, call, res>>

\* memcpy of s to the start of buffer b; what does not fit lies outside b.
Overlay(b, s) == [k \in 1..MaxBuf |-> IF k <= Len(s) THEN s[k] ELSE b[k]]

CanCall(c, op) == op \in Calls /\ phase[c] = "idle"
Mounted(c) == root[c] # Closed

-----------------------------------------------------------------------------
(* Backend calls: what the client does up to its (first) IPC call. *)

\* L4fs_file_system::mount: the Svr constructor makes the Init call.
Mount(c) ==
    /\ CanCall(c, "mount")
    /\ ~Mounted(c)
    /\ \/ Send(c, [NoCall EXCEPT !.op = "mount", !.flags = {"O_DIRECTORY"}])
       \/ \* no memory for the Svr (a bad_alloc), or no capability slot
          /\ "oom" \in Faults
          /\ \E e \in {EINVAL, ENOMEM} : Return(c, e)
    /\ UNCHANGED <<fsVars, rwBuf, root, file>>

\* L4fs_dir::get_entry: a free slot s stands for the object it will make.
GetEntry(c, s, p, fl) ==
    /\ CanCall(c, "get_entry") /\ Mounted(c) /\ file[c][s] = NoObject
    /\ IF p \in LongNames
       THEN Return(c, ENAMETOOLONG)
       ELSE Send(c, [NoCall EXCEPT
                !.op = "get_entry", !.slot = s, !.name = p,
                !.flags = IF p = Root THEN fl \cup {"O_DIRECTORY"} ELSE fl])
    /\ UNCHANGED <<fsVars, rwBuf, root, file>>

\* L4fs_dir::mkdir, rmdir and unlink only pass a path.
PathCall(c, op, p) ==
    /\ op \in {"mkdir", "rmdir", "unlink"}
    /\ CanCall(c, op) /\ Mounted(c)
    /\ IF p \in LongNames
       THEN Return(c, ENAMETOOLONG)
       ELSE Send(c, [NoCall EXCEPT !.op = op, !.name = p])
    /\ UNCHANGED <<fsVars, rwBuf, root, file>>

\* Mutant of TwoPathCall: the first path is copied to the buffer.
TwoPathCallSwapped(c, op, from, to) ==
    /\ op \in {"rename", "link", "symlink"}
    /\ CanCall(c, op) /\ Mounted(c)
    /\ from \notin LongNames /\ to \notin LongNames
    /\ rwBuf' = Overlay(rwBuf, <<from>>)
    /\ Send(c, [NoCall EXCEPT !.op = op, !.name = from, !.to = to])
    /\ UNCHANGED <<fsVars, root, file>>

\* L4fs_dir::rename, and link and symlink of any file object: the second path
\* goes through the buffer before the first one is checked.
TwoPathCall(c, op, from, to) ==
    /\ op \in {"rename", "link", "symlink"}
    /\ CanCall(c, op) /\ Mounted(c)
    /\ \/ /\ to \in LongNames
          /\ Return(c, ENAMETOOLONG)
          /\ UNCHANGED rwBuf
       \/ /\ to \notin LongNames
          /\ rwBuf' = Overlay(rwBuf, <<to>>)
          /\ IF from \in LongNames
             THEN Return(c, ENAMETOOLONG)
             ELSE Send(c, [NoCall EXCEPT !.op = op, !.name = from, !.to = to])
    /\ UNCHANGED <<fsVars, root, file>>

\* Calls that only pass the handle of an object; the server, not the client,
\* finds out that the handle is closed.
HandleCall(c, op, s) ==
    /\ op \in {"fstat64", "fsync", "readlink", "ftruncate64", "data_space"}
    /\ CanCall(c, op) /\ file[c][s] # NoObject
    /\ Send(c, [NoCall EXCEPT !.op = op, !.slot = s])
    /\ UNCHANGED <<fsVars, rwBuf, root, file>>

\* L4fs_file_base::close, and the destructor, which calls it ("drop").
Close(c, op, s) ==
    /\ op \in {"close", "drop"}
    /\ CanCall(c, op) /\ file[c][s] # NoObject
    /\ \/ /\ file[c][s] # Closed
          /\ Send(c, [NoCall EXCEPT !.op = op, !.slot = s])
          /\ UNCHANGED file
       \/ /\ file[c][s] = Closed
          /\ Return(c, EBADF)
          /\ file' = [file EXCEPT ![c][s] = IF op = "drop" THEN NoObject ELSE @]
    /\ UNCHANGED <<fsVars, rwBuf, root>>

\* The head of the loops of preadv and pwritev, with call record cl.
Transfer(c, cl) ==
    \/ /\ cl.i > Len(cl.iov)
       /\ Return(c, cl.n)
       /\ UNCHANGED rwBuf
    \/ /\ cl.i <= Len(cl.iov)
       /\ Len(cl.iov[cl.i]) <= MaxBuf
       /\ Send(c, cl)
       /\ rwBuf' = IF cl.op = "pwritev" THEN Overlay(rwBuf, cl.iov[cl.i]) ELSE rwBuf
    \/ /\ cl.i <= Len(cl.iov)
       /\ Len(cl.iov[cl.i]) > MaxBuf
       /\ cl.op = "preadv"
       /\ Return(c, ENOMEM)
       /\ UNCHANGED rwBuf
    \/ \* the memcpy runs past the end of the mapped buffer before the stub
       \* refuses the size: the thread faults, or it corrupts what lies behind
       /\ cl.i <= Len(cl.iov)
       /\ Len(cl.iov[cl.i]) > MaxBuf
       /\ cl.op = "pwritev"
       /\ rwBuf' = Overlay(rwBuf, cl.iov[cl.i])
       /\ \/ Return(c, ENOMEM)
          \/ /\ phase' = [phase EXCEPT ![c] = "faulted"]
             /\ call' = [call EXCEPT ![c] = cl]
             /\ reply' = [reply EXCEPT ![c] = NoReply]
             /\ UNCHANGED res

\* L4fs_file::preadv and pwritev.
Vectored(c, op, s, iov, p) ==
    /\ op \in {"preadv", "pwritev"}
    /\ CanCall(c, op) /\ file[c][s] # NoObject
    /\ Transfer(c, [NoCall EXCEPT !.op = op, !.slot = s, !.iov = iov, !.off = p])
    /\ UNCHANGED <<fsVars, root, file>>

-----------------------------------------------------------------------------
(* The server: L4fs_svr::dispatch, the methods of Server, and tmpfs. *)

Serving(c, op) == phase[c] = "sent" /\ call[c].op = op

\* The handle that the request of client c carries, and its node.
Fh(c) == file[c][call[c].slot]
NodeOf(fh) == IF fh \in Fds THEN fdt[fh] ELSE NoIno
IsFile(ino) == ino # NoIno /\ kind[ino] = "file"

\* Nodes that no path and no open descriptor refers to.
FreeInodes == {i \in Inodes \ {RootIno} :
                  (\A p \in Names : dirent[p] # i) /\ (\A f \in Fds : fdt[f] # i)}

\* ::open returns the lowest free descriptor.
LowestFree(f) == /\ f \in Fds /\ fdt[f] = NoIno
                 /\ \A g \in Fds : fdt[g] = NoIno => f <= g

\* Why tmpfs refuses to open p: a conflict, or no descriptor or node left.
OpenRefused(p, fl) ==
    \/ OpenConflict(dirent, kind, p, fl)
    \/ \A f \in Fds : fdt[f] # NoIno
    \/ dirent[p] = NoIno /\ FreeInodes = {}

SrvInit(c) ==
    /\ Serving(c, "mount") /\ call[c].i = 1
    /\ Answer(c, 0, 0)
    /\ UNCHANGED <<fsVars, rwBuf>>

\* The IPC itself succeeds in every case; the payload is a handle or -1.
SrvOpen(c) ==
    LET p == call[c].name
        fl == call[c].flags
    IN  /\ Serving(c, "get_entry") \/ (Serving(c, "mount") /\ call[c].i = 2)
        /\ \/ /\ OpenRefused(p, fl)
              /\ Answer(c, 0, FAILED)
              /\ UNCHANGED fsVars
           \/ /\ ~OpenRefused(p, fl)
              /\ dirent[p] # NoIno
              /\ \E f \in Fds :
                    /\ LowestFree(f)
                    /\ fdt' = [fdt EXCEPT ![f] = dirent[p]]
                    /\ Answer(c, 0, f)
              /\ data' = IF "O_TRUNC" \in fl
                         THEN [data EXCEPT ![dirent[p]] = <<>>] ELSE data
              /\ UNCHANGED <<dirent, kind>>
           \/ /\ ~OpenRefused(p, fl)
              /\ dirent[p] = NoIno
              /\ \E f \in Fds, i \in FreeInodes :
                    /\ LowestFree(f)
                    /\ fdt' = [fdt EXCEPT ![f] = i]
                    /\ dirent' = [dirent EXCEPT ![p] = i]
                    /\ kind' = [kind EXCEPT ![i] = "file"]
                    /\ data' = [data EXCEPT ![i] = <<>>]
                    /\ Answer(c, 0, f)
        /\ UNCHANGED rwBuf

SrvPread(c) ==
    LET ino == NodeOf(Fh(c))
        off == call[c].off
        n == Readable(data[ino], off, Len(call[c].iov[call[c].i]))
    IN  /\ Serving(c, "preadv")
        /\ \/ /\ ~IsFile(ino) \/ off < 0
              /\ Answer(c, FAILED, FAILED)
              /\ UNCHANGED rwBuf
           \/ /\ IsFile(ino) /\ off >= 0
              /\ rwBuf' = Overlay(rwBuf, SubSeq(data[ino], off + 1, off + n))
              /\ Answer(c, 0, n)
        /\ UNCHANGED fsVars

SrvPwrite(c) ==
    LET ino == NodeOf(Fh(c))
        off == call[c].off
        len == Len(call[c].iov[call[c].i])
        n == Writable(off, len)
    IN  /\ Serving(c, "pwritev")
        /\ \/ /\ ~IsFile(ino) \/ off < 0 \/ (n = 0 /\ len > 0)
              /\ Answer(c, FAILED, FAILED)
              /\ UNCHANGED data
           \/ /\ IsFile(ino) /\ off >= 0
              /\ n > 0 \/ len = 0
              /\ data' = IF n = 0 THEN data
                         ELSE [data EXCEPT ![ino] = Splice(@, off, SubSeq(rwBuf, 1, n))]
              /\ Answer(c, 0, n)
        /\ UNCHANGED <<dirent, kind, fdt, rwBuf>>

SrvClose(c) ==
    /\ Serving(c, "close") \/ Serving(c, "drop")
    /\ IF NodeOf(Fh(c)) = NoIno
       THEN Answer(c, FAILED, 0) /\ UNCHANGED fdt
       ELSE Answer(c, 0, 0) /\ fdt' = [fdt EXCEPT ![Fh(c)] = NoIno]
    /\ UNCHANGED <<dirent, kind, data, rwBuf>>

SrvFstat64(c) ==
    /\ Serving(c, "fstat64")
    /\ IF NodeOf(Fh(c)) = NoIno
       THEN Answer(c, FAILED, 0)
       ELSE Answer(c, 0, Len(data[NodeOf(Fh(c))]))
    /\ UNCHANGED <<fsVars, rwBuf>>

\* Copies the file to a new dataspace; no failure on the way is reported.
SrvDataspace(c) ==
    /\ Serving(c, "data_space")
    /\ Answer(c, 0, 0)
    /\ UNCHANGED <<fsVars, rwBuf>>

\* Mutant of SrvRename: the two paths are exchanged.
SrvRenameSwapped(c) ==
    LET from == rwBuf[1]
        to == call[c].name
    IN  /\ Serving(c, "rename")
        /\ IF RenameOk(dirent, kind, from, to)
           THEN dirent' = Renamed(dirent, from, to) /\ Answer(c, 0, 0)
           ELSE UNCHANGED dirent /\ Answer(c, FAILED, 0)
        /\ UNCHANGED <<kind, data, fdt, rwBuf>>

\* The target path is whatever string the buffer holds now.
SrvRename(c) ==
    LET from == call[c].name
        to == IF rwBuf[1] \in Names THEN rwBuf[1] ELSE Garbage
    IN  /\ Serving(c, "rename")
        /\ IF RenameOk(dirent, kind, from, to)
           THEN dirent' = Renamed(dirent, from, to) /\ Answer(c, 0, 0)
           ELSE UNCHANGED dirent /\ Answer(c, FAILED, 0)
        /\ UNCHANGED <<kind, data, fdt, rwBuf>>

\* unlink of a file and rmdir of a directory other than the root.
SrvRemove(c, op, k) ==
    LET p == call[c].name
    IN  /\ Serving(c, op)
        /\ IF Removable(dirent, kind, p, k)
           THEN dirent' = [dirent EXCEPT ![p] = NoIno] /\ Answer(c, 0, 0)
           ELSE UNCHANGED dirent /\ Answer(c, FAILED, 0)
        /\ UNCHANGED <<kind, data, fdt, rwBuf>>

SrvUnlink(c) == SrvRemove(c, "unlink", "file")
SrvRmdir(c) == SrvRemove(c, "rmdir", "dir")

SrvMkdir(c) ==
    LET p == call[c].name
    IN  /\ Serving(c, "mkdir")
        /\ \/ /\ dirent[p] # NoIno \/ FreeInodes = {}
              /\ Answer(c, FAILED, 0)
              /\ UNCHANGED fsVars
           \/ /\ dirent[p] = NoIno
              /\ \E i \in FreeInodes :
                    /\ dirent' = [dirent EXCEPT ![p] = i]
                    /\ kind' = [kind EXCEPT ![i] = "dir"]
                    /\ data' = [data EXCEPT ![i] = <<>>]
              /\ Answer(c, 0, 0)
              /\ UNCHANGED fdt
        /\ UNCHANGED rwBuf

SrvUnimplemented(c) ==
    /\ \E op \in {"link", "symlink", "readlink", "fsync", "ftruncate64"} : Serving(c, op)
    /\ Answer(c, ENOSYS, 0)
    /\ UNCHANGED <<fsVars, rwBuf>>

Dispatch(c) ==
    \/ SrvInit(c) \/ SrvOpen(c) \/ SrvPread(c) \/ SrvPwrite(c) \/ SrvClose(c)
    \/ SrvFstat64(c) \/ SrvDataspace(c) \/ SrvRename(c) \/ SrvUnlink(c)
    \/ SrvRmdir(c) \/ SrvMkdir(c) \/ SrvUnimplemented(c)

-----------------------------------------------------------------------------
(* Backend calls: what the client does with the reply. *)

Replied(c, op) == phase[c] = "replied" /\ call[c].op = op

\* Mutant of MountReply: the root is opened again until it succeeds.
MountReplyRetries(c) ==
    /\ Replied(c, "mount")
    /\ IF call[c].i = 1 \/ reply[c].size < 0
       THEN Send(c, [call[c] EXCEPT !.i = 2]) /\ UNCHANGED root
       ELSE root' = [root EXCEPT ![c] = reply[c].size] /\ Return(c, 0)
    /\ UNCHANGED <<fsVars, rwBuf, file>>

\* After the Init call mount attaches the buffer and opens the root directory.
MountReply(c) ==
    /\ Replied(c, "mount")
    /\ \/ /\ call[c].i = 1
          /\ Send(c, [call[c] EXCEPT !.i = 2])
          /\ UNCHANGED root
       \/ \* the buffer cannot be attached
          /\ call[c].i = 1 /\ "oom" \in Faults
          /\ Return(c, ENOMEM)
          /\ UNCHANGED root
       \/ /\ call[c].i = 2
          /\ reply[c].size < 0
          /\ Return(c, reply[c].size)
          /\ UNCHANGED root
       \/ /\ call[c].i = 2
          /\ reply[c].size >= 0
          /\ root' = [root EXCEPT ![c] = reply[c].size]
          /\ Return(c, 0)
       \/ \* no memory for the L4fs_dir: the test is of the pointer to the
          \* result, so mount succeeds, and nobody has or closes the handle
          /\ call[c].i = 2 /\ "oom" \in Faults
          /\ reply[c].size >= 0
          /\ Return(c, 0)
          /\ UNCHANGED root
    /\ UNCHANGED <<fsVars, rwBuf, file>>

\* Mutant of GetEntryReply: a failed open is not noticed.
GetEntryReplyUnchecked(c) ==
    /\ Replied(c, "get_entry")
    /\ file' = [file EXCEPT ![c][call[c].slot] = reply[c].size]
    /\ Return(c, 0)
    /\ UNCHANGED <<fsVars, rwBuf, root>>

GetEntryReply(c) ==
    /\ Replied(c, "get_entry")
    /\ \/ /\ reply[c].size < 0
          /\ Return(c, reply[c].size)
          /\ UNCHANGED file
       \/ /\ reply[c].size >= 0
          /\ file' = [file EXCEPT ![c][call[c].slot] = reply[c].size]
          /\ Return(c, 0)
       \/ \* no memory for the object: nobody closes the handle
          /\ reply[c].size >= 0 /\ "oom" \in Faults
          /\ Return(c, ENOMEM)
          /\ UNCHANGED file
    /\ UNCHANGED <<fsVars, rwBuf, root>>

\* Mutant of CloseReply: close() keeps _fh, and the destructor closes again.
CloseReplyKeepsHandle(c) ==
    /\ Replied(c, "close") \/ Replied(c, "drop")
    /\ file' = [file EXCEPT ![c][call[c].slot] =
                    IF call[c].op = "drop" THEN NoObject ELSE @]
    /\ Return(c, reply[c].ret)
    /\ UNCHANGED <<fsVars, rwBuf, root>>

CloseReply(c) ==
    /\ Replied(c, "close") \/ Replied(c, "drop")
    /\ file' = [file EXCEPT ![c][call[c].slot] =
                    IF call[c].op = "drop" THEN NoObject ELSE Closed]
    /\ Return(c, reply[c].ret)
    /\ UNCHANGED <<fsVars, rwBuf, root>>

\* Calls that return what the server says; size() returns the size in the stat.
PlainReply(c) ==
    /\ \E op \in {"mkdir", "rmdir", "unlink", "rename", "link", "symlink", "fsync",
                  "readlink", "ftruncate64", "data_space", "fstat64"} : Replied(c, op)
    /\ Return(c, IF call[c].op = "fstat64" /\ reply[c].ret = 0
                 THEN reply[c].size ELSE reply[c].ret)
    /\ UNCHANGED <<fsVars, rwBuf, root, file>>

\* The call record after one round of the loop of preadv or pwritev.
Advanced(c) ==
    LET cl == call[c]
        n == reply[c].size
    IN  [cl EXCEPT !.iov[cl.i] = IF cl.op = "preadv" THEN CopyOut(@, rwBuf, n) ELSE @,
                   !.i = @ + 1, !.n = @ + n, !.off = @ + n]

\* Mutant of TransferReply: errors are not checked.
TransferReplyUnchecked(c) ==
    /\ Replied(c, "preadv") \/ Replied(c, "pwritev")
    /\ Transfer(c, Advanced(c))
    /\ UNCHANGED <<fsVars, root, file>>

\* The rest of a round of the loop; a short write ends pwritev.
TransferReply(c) ==
    /\ Replied(c, "preadv") \/ Replied(c, "pwritev")
    /\ \/ /\ reply[c].ret < 0
          /\ Return(c, reply[c].ret)
          /\ UNCHANGED rwBuf
       \/ /\ reply[c].ret = 0
          /\ call[c].op = "pwritev" /\ reply[c].size # Len(call[c].iov[call[c].i])
          /\ Return(c, Advanced(c).n)
          /\ UNCHANGED rwBuf
       \/ /\ reply[c].ret = 0
          /\ call[c].op = "pwritev" => reply[c].size = Len(call[c].iov[call[c].i])
          /\ Transfer(c, Advanced(c))
    /\ UNCHANGED <<fsVars, root, file>>

TakeReply(c) == \/ MountReply(c) \/ GetEntryReply(c) \/ CloseReply(c)
                \/ PlainReply(c) \/ TransferReply(c)

-----------------------------------------------------------------------------
\* The client's task is killed, and started again: its requests and its objects
\* are gone, the server is not told.
Kill(c) ==
    /\ "kill" \in Faults
    /\ root' = [root EXCEPT ![c] = Closed]
    /\ file' = [file EXCEPT ![c] = [s \in Slots |-> NoObject]]
    /\ Return(c, 0)
    /\ UNCHANGED <<fsVars, rwBuf>>

Invoke(c) ==
    \/ Mount(c)
    \/ \E p \in Names :
          \/ \E op \in Calls : PathCall(c, op, p)
          \/ \E op \in Calls, q \in Names : TwoPathCall(c, op, p, q)
    \/ \E s \in Slots :
          \/ \E p \in Names, fl \in OpenFlags : GetEntry(c, s, p, fl)
          \/ \E op \in Calls : HandleCall(c, op, s) \/ Close(c, op, s)
          \/ \E op \in Calls, iov \in Iovs, p \in Offsets : Vectored(c, op, s, iov, p)

Next == \E c \in Clients : Invoke(c) \/ Dispatch(c) \/ TakeReply(c) \/ Kill(c)

Spec == Init /\ [][Next]_vars

\* The server's loop serves every waiting client in turn, and a client that
\* has its reply runs.
FairSpec == Spec /\ \A c \in Clients : WF_vars(Dispatch(c)) /\ WF_vars(TakeReply(c))

-----------------------------------------------------------------------------
(* Properties. *)

\* Types: in particular the byte count of a vectored call is never negative, an
\* object holds a descriptor, -1 or nothing, and a reply carries a known code.
TypeOK ==
    /\ dirent \in [Names -> Inodes \cup {NoIno}]
    /\ kind \in [Inodes -> {"dir", "file"}]
    /\ data \in [Inodes -> Seq(Cells)]
    /\ fdt \in [Fds -> Inodes \cup {NoIno}]
    /\ rwBuf \in [1..MaxBuf -> Cells]
    /\ root \in [Clients -> Fds \cup {Closed}]
    /\ file \in [Clients -> [Slots -> Fds \cup {Closed, NoObject}]]
    /\ phase \in [Clients -> {"idle", "sent", "replied", "faulted"}]
    /\ call \in [Clients -> Requests]
    /\ reply \in [Clients -> Replies]
    /\ res \in [Clients -> Int]

\* Where a client keeps a handle: in a file object, in its root directory, or
\* in a reply that it has not taken yet.  A handle the server has closed is no
\* longer held.
RootHolder == 0
NewHolder  == -1
Holders    == Slots \cup {RootHolder, NewHolder}
Opening(c) == Replied(c, "get_entry") \/ (Replied(c, "mount") /\ call[c].i = 2)
Closing(c, s) == (Replied(c, "close") \/ Replied(c, "drop")) /\ call[c].slot = s
Held(c, t) == IF t = RootHolder THEN root[c]
              ELSE IF t = NewHolder THEN IF Opening(c) THEN reply[c].size ELSE Closed
              ELSE IF Closing(c, t) THEN Closed ELSE file[c][t]

\* Every handle that a client holds is an open descriptor of the server, and
\* no two file objects, of whichever clients, hold the same one: a close, of
\* an object or of a destructor that runs after close(), never takes away a
\* descriptor that the server has given to somebody else since.
HandleIsolation ==
    \A c, d \in Clients : \A t, u \in Holders :
        Held(c, t) \in Fds => /\ fdt[Held(c, t)] # NoIno
                              /\ <<c, t>> # <<d, u>> => Held(c, t) # Held(d, u)

\* As long as a client holds a handle, it names the same file: neither another
\* client's open or close nor a rename or unlink makes it name another one.
StableHandles ==
    [][\A c \in Clients : \A t \in Holders :
        Held(c, t) \in Fds /\ Held(c, t)' = Held(c, t)
            => fdt'[Held(c, t)] = fdt[Held(c, t)]]_vars

\* What pwrite and rename requests refer to is in the shared buffer when the
\* server comes to serve them: "forwarding the requests" forwards what the
\* client passed.
RequestInBuffer(c) ==
    /\ Serving(c, "pwritev") =>
          LET chunk == call[c].iov[call[c].i]
          IN  \A k \in 1..Len(chunk) : rwBuf[k] = chunk[k]
    /\ Serving(c, "rename") => rwBuf[1] = call[c].to

RequestsForwarded == \A c \in Clients : RequestInBuffer(c)

\* Every backend call returns, unless its memcpy faulted.
CallsReturn == \A c \in Clients :
    phase[c] \in {"sent", "replied"} ~> phase[c] \in {"idle", "faulted"}

=============================================================================
