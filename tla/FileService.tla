---------------------------- MODULE FileService ----------------------------
(***************************************************************************)
(* What the libc backend promises to its callers.  A file object is a      *)
(* private reference to a node: there are no descriptors that could be     *)
(* mixed up and no buffer that could be overwritten.  A call takes effect  *)
(* at one instant between its invocation and its return; preadv and pwritev*)
(* at one instant for each buffer of their iovec.  A call that fails has   *)
(* had no effect, except for the buffers a vectored call has done before.  *)
(***************************************************************************)
EXTENDS FsTypes

VARIABLES
    dirent, kind, data,  \* the file system
    ref,                 \* client -> holder -> the node it refers to
    phase,               \* "idle", "busy", "done" or "faulted"
    call,                \* the call in progress
    ans,                 \* what a "done" call is going to return
    res                  \* what the last call returned

vars == <<dirent, kind, data, ref, phase, call, ans, res>>
tree == <<dirent, kind, data>>

RootHolder == 0
NewHolder  == -1
Holders    == Slots \cup {RootHolder, NewHolder}

Init ==
    /\ dirent = [p \in Names |-> IF p = Root THEN RootIno ELSE NoIno]
    /\ kind = [i \in Inodes |-> IF i = RootIno THEN "dir" ELSE "file"]
    /\ data = [i \in Inodes |-> <<>>]
    /\ ref = [c \in Clients |-> [t \in Holders |-> NoIno]]
    /\ phase = [c \in Clients |-> "idle"]
    /\ call = [c \in Clients |-> NoCall]
    /\ ans = [c \in Clients |-> 0]
    /\ res = [c \in Clients |-> 0]

Busy(c, op) == phase[c] = "busy" /\ call[c].op = op
OnlyOf(c, f, g) == \A d \in Clients \ {c} : g[d] = f[d]

\* A client makes a call.
Invoke(c) ==
    /\ phase[c] = "idle"
    /\ phase' = [phase EXCEPT ![c] = "busy"]
    /\ OnlyOf(c, call, call') /\ call'[c].i = 1 /\ call'[c].n = 0
    /\ UNCHANGED <<tree, ref, ans, res>>

\* The call is decided: it will return v.
Decide(c, v) ==
    /\ phase' = [phase EXCEPT ![c] = "done"]
    /\ ans' = [ans EXCEPT ![c] = v]
    /\ UNCHANGED <<call, res>>

\* The call returns v; a new reference goes to holder t.
End(c, v) ==
    /\ phase' = [phase EXCEPT ![c] = "idle"]
    /\ call' = [call EXCEPT ![c] = NoCall]
    /\ ans' = [ans EXCEPT ![c] = 0]
    /\ res' = [res EXCEPT ![c] = v]

\* A decided call returns.  The reference it obtained moves to its object; it
\* is lost if there is no memory for the object, which mount does not report.
Return(c) ==
    LET t == IF call[c].op = "mount" THEN RootHolder ELSE call[c].slot
        new == ref[c][NewHolder]
    IN  /\ phase[c] = "done"
        /\ \/ /\ End(c, ans[c])
              /\ ref' = IF new = NoIno THEN ref
                        ELSE [ref EXCEPT ![c][t] = new, ![c][NewHolder] = NoIno]
           \/ /\ new # NoIno /\ call[c].op \in {"get_entry", "mount"}
              /\ End(c, IF call[c].op = "mount" THEN ans[c] ELSE ENOMEM)
              /\ ref' = [ref EXCEPT ![c][NewHolder] = NoIno]
        /\ UNCHANGED tree

Unreferenced == {i \in Inodes \ {RootIno} :
                    /\ \A p \in Names : dirent[p] # i
                    /\ \A c \in Clients : \A t \in Holders : ref[c][t] # i}

\* The buffer of the iovec that is next, and whether it is too large.
Chunk(c) == call[c].iov[call[c].i]
Oversized(cl) == cl.i <= Len(cl.iov) /\ Len(cl.iov[cl.i]) > MaxBuf

\* A call that is refused before it reaches the file system, or that has
\* nothing to do.  Only an error ends a mount this way.
Refuse(c) ==
    /\ \/ phase[c] = "idle"
       \/ phase[c] = "busy" /\ Oversized(call[c])
       \/ Busy(c, "mount") /\ res'[c] # 0
    /\ res'[c] \in {0, ENAMETOOLONG, EBADF, EINVAL, ENOMEM}
    /\ OnlyOf(c, res, res')
    /\ End(c, res'[c])
    /\ UNCHANGED <<tree, ref>>

\* A write of a buffer that is too large can end the client.
Fault(c) ==
    /\ phase[c] \in {"idle", "busy"}
    /\ phase' = [phase EXCEPT ![c] = "faulted"]
    /\ OnlyOf(c, call, call') /\ call'[c].op = "pwritev" /\ Oversized(call'[c])
    /\ UNCHANGED <<tree, ref, ans, res>>

Open(c) ==
    LET p == call[c].name
        fl == call[c].flags
    IN  /\ Busy(c, "get_entry") \/ Busy(c, "mount")
        /\ \/ /\ Decide(c, FAILED)
              /\ UNCHANGED <<tree, ref>>
           \/ /\ ~OpenConflict(dirent, kind, p, fl)
              /\ dirent[p] # NoIno
              /\ ref' = [ref EXCEPT ![c][NewHolder] = dirent[p]]
              /\ data' = IF "O_TRUNC" \in fl
                         THEN [data EXCEPT ![dirent[p]] = <<>>] ELSE data
              /\ Decide(c, 0)
              /\ UNCHANGED <<dirent, kind>>
           \/ /\ ~OpenConflict(dirent, kind, p, fl)
              /\ dirent[p] = NoIno
              /\ \E i \in Unreferenced :
                    /\ ref' = [ref EXCEPT ![c][NewHolder] = i]
                    /\ dirent' = [dirent EXCEPT ![p] = i]
                    /\ kind' = [kind EXCEPT ![i] = "file"]
                    /\ data' = [data EXCEPT ![i] = <<>>]
              /\ Decide(c, 0)

\* One buffer of a vectored call is done, n cells of it.
Progress(c, last, cl) ==
    IF last
    THEN /\ phase' = [phase EXCEPT ![c] = "done"]
         /\ ans' = [ans EXCEPT ![c] = cl.n]
         /\ call' = [call EXCEPT ![c] = cl]
         /\ UNCHANGED res
    ELSE call' = [call EXCEPT ![c] = cl] /\ UNCHANGED <<phase, ans, res>>

Moved(c, n, buf) == [call[c] EXCEPT !.iov[call[c].i] = buf,
                                    !.i = @ + 1, !.n = @ + n, !.off = @ + n]
LastChunk(c) == call[c].i = Len(call[c].iov)
IsFile(ino) == ino # NoIno /\ kind[ino] = "file"

Read(c) ==
    LET ino == ref[c][call[c].slot]
        n == Readable(data[ino], call[c].off, Len(Chunk(c)))
        found == SubSeq(data[ino], call[c].off + 1, call[c].off + n)
    IN  /\ Busy(c, "preadv") /\ ~Oversized(call[c])
        /\ IF IsFile(ino) /\ call[c].off >= 0
           THEN Progress(c, LastChunk(c), Moved(c, n, CopyOut(Chunk(c), found, n)))
           ELSE Decide(c, FAILED)
        /\ UNCHANGED <<tree, ref>>

Write(c) ==
    LET ino == ref[c][call[c].slot]
        off == call[c].off
        len == Len(Chunk(c))
        n == Writable(off, len)
    IN  /\ Busy(c, "pwritev") /\ ~Oversized(call[c])
        /\ IF IsFile(ino) /\ off >= 0 /\ (n > 0 \/ len = 0)
           THEN /\ data' = IF n = 0 THEN data
                           ELSE [data EXCEPT ![ino] = Splice(@, off, SubSeq(Chunk(c), 1, n))]
                /\ Progress(c, LastChunk(c) \/ n < len, Moved(c, n, Chunk(c)))
           ELSE Decide(c, FAILED) /\ UNCHANGED data
        /\ UNCHANGED <<dirent, kind, ref>>

Close(c) ==
    /\ Busy(c, "close") \/ Busy(c, "drop")
    /\ ref[c][call[c].slot] # NoIno
    /\ ref' = [ref EXCEPT ![c][call[c].slot] = NoIno]
    /\ Decide(c, 0)
    /\ UNCHANGED tree

Stat(c) ==
    LET ino == ref[c][call[c].slot]
    IN  /\ Busy(c, "fstat64")
        /\ Decide(c, IF ino = NoIno THEN FAILED ELSE Len(data[ino]))
        /\ UNCHANGED <<tree, ref>>

Rename(c) ==
    /\ Busy(c, "rename")
    /\ IF RenameOk(dirent, kind, call[c].name, call[c].to)
       THEN dirent' = Renamed(dirent, call[c].name, call[c].to) /\ Decide(c, 0)
       ELSE UNCHANGED dirent /\ Decide(c, FAILED)
    /\ UNCHANGED <<kind, data, ref>>

Remove(c) ==
    /\ Busy(c, "unlink") \/ Busy(c, "rmdir")
    /\ IF Removable(dirent, kind, call[c].name,
                    IF call[c].op = "unlink" THEN "file" ELSE "dir")
       THEN dirent' = [dirent EXCEPT ![call[c].name] = NoIno] /\ Decide(c, 0)
       ELSE UNCHANGED dirent /\ Decide(c, FAILED)
    /\ UNCHANGED <<kind, data, ref>>

Mkdir(c) ==
    /\ Busy(c, "mkdir")
    /\ \/ /\ Decide(c, FAILED)
          /\ UNCHANGED tree
       \/ /\ dirent[call[c].name] = NoIno
          /\ \E i \in Unreferenced :
                /\ dirent' = [dirent EXCEPT ![call[c].name] = i]
                /\ kind' = [kind EXCEPT ![i] = "dir"]
                /\ data' = [data EXCEPT ![i] = <<>>]
          /\ Decide(c, 0)
    /\ UNCHANGED ref

\* The calls fs_srv does not implement, and the copy to a dataspace.
Other(c) ==
    /\ \/ \E op \in {"link", "symlink", "readlink", "fsync", "ftruncate64"} :
              Busy(c, op) /\ Decide(c, ENOSYS)
       \/ Busy(c, "data_space") /\ Decide(c, 0)
    /\ UNCHANGED <<tree, ref>>

\* The client is killed and started again.
Kill(c) ==
    /\ ref' = [ref EXCEPT ![c] = [t \in Holders |-> NoIno]]
    /\ End(c, 0)
    /\ UNCHANGED tree

Next == \E c \in Clients :
    \/ Invoke(c) \/ Refuse(c) \/ Fault(c) \/ Return(c) \/ Kill(c)
    \/ Open(c) \/ Read(c) \/ Write(c) \/ Close(c) \/ Stat(c)
    \/ Rename(c) \/ Remove(c) \/ Mkdir(c) \/ Other(c)

Spec == Init /\ [][Next]_vars
=============================================================================
