------------------------------ MODULE FsTypes ------------------------------
(***************************************************************************)
(* What the file service and its abstract specification have in common:    *)
(* the parameters, the calls of the libc backend, and the POSIX rules of   *)
(* the tmpfs below the server, which is external to this repository.       *)
(***************************************************************************)
EXTENDS Integers, Sequences, FiniteSets

CONSTANTS
    Clients,    \* the threads that use the file system
    Slots,      \* the file objects a client can hold at a time
    Cells,      \* what a unit of file content or of the buffer can hold
    Zero,       \* the cell a gap in a file is filled with
    Names,      \* the paths; a path copied to the buffer fills its first cell
    Root,       \* the path of the file system's root directory
    LongNames,  \* the paths with strlen + 1 > Max_path_size
    Garbage,    \* the path that strcpy finds in a buffer that holds no path
    Inodes, RootIno, NoIno,  \* tmpfs nodes, the root's, and "no node"
    Fds,        \* the server's libc descriptors
    MaxBuf,     \* Max_rw_buffer_size, in cells
    MaxFile,    \* the cells a file can hold before tmpfs runs out of memory
    Iovs,       \* the iovec arrays clients pass, as sequences of their buffers
    Offsets,    \* the file offsets clients pass
    OpenFlags,  \* the flag sets clients pass to open
    Calls,      \* the backend calls the clients make
    Faults      \* what may go wrong: "kill" of a client, "oom" in it

Buffers == Seq(Cells)
Flags   == {"O_CREAT", "O_EXCL", "O_TRUNC", "O_DIRECTORY"}

ASSUME CellsAssumption == Zero \in Cells /\ Names \subseteq Cells
ASSUME NamesAssumption == Root \in Names /\ LongNames \subseteq Names \ {Root}
                          /\ Garbage \in Names
ASSUME InodesAssumption == RootIno \in Inodes /\ NoIno \notin Inodes
ASSUME FdsAssumption == Fds \subseteq Nat
ASSUME BoundsAssumption == MaxBuf \in Nat \ {0} /\ MaxFile \in Nat
ASSUME InputsAssumption == /\ Iovs \subseteq Seq(Buffers)
                           /\ Offsets \subseteq Int
                           /\ OpenFlags \subseteq SUBSET Flags
                           /\ Slots \subseteq Nat \ {0}

\* Return codes.  Every failure inside the server's libc is the number -1.
FAILED       == -1
ENOMEM       == -12
EBADF        == -9
EINVAL       == -22
ENAMETOOLONG == -36
ENOSYS       == -38
Codes == {FAILED, ENOMEM, EBADF, EINVAL, ENAMETOOLONG, ENOSYS}

NoCall  == [op |-> "none", slot |-> 0, name |-> Root, to |-> Root, flags |-> {},
            iov |-> <<>>, off |-> 0, i |-> 1, n |-> 0]
NoReply == [ret |-> 0, size |-> 0]

Requests == [op : Calls \cup {"none"}, slot : Slots \cup {0}, name : Names,
             to : Names, flags : SUBSET Flags, iov : Seq(Buffers), off : Int,
             i : Nat \ {0}, n : Nat]
Replies  == [ret : Codes \cup {0}, size : Int]

\* memcpy of the first n cells of buffer b to the start of s.
CopyOut(s, b, n) == [k \in 1..Len(s) |-> IF k <= n THEN b[k] ELSE s[k]]

\* The content d with s written at offset off, and a gap filled with zeroes.
Splice(d, off, s) ==
    [k \in 1..(IF off + Len(s) > Len(d) THEN off + Len(s) ELSE Len(d)) |->
        IF k > off /\ k <= off + Len(s) THEN s[k - off]
        ELSE IF k <= Len(d) THEN d[k] ELSE Zero]

\* How many of the n cells at offset off a read finds in content d.
Readable(d, off, n) == IF off >= Len(d) THEN 0
                       ELSE IF Len(d) - off < n THEN Len(d) - off ELSE n

\* How many of n cells fit into a file at offset off.
Writable(off, n) == IF off + n <= MaxFile THEN n
                    ELSE IF off < MaxFile THEN MaxFile - off ELSE 0

\* The conflicts for which open(p, fl) fails, in directory tree dir with kinds knd.
OpenConflict(dir, knd, p, fl) ==
    \/ dir[p] = NoIno /\ "O_CREAT" \notin fl
    \/ dir[p] # NoIno /\ {"O_CREAT", "O_EXCL"} \subseteq fl
    \/ dir[p] # NoIno /\ "O_DIRECTORY" \in fl /\ knd[dir[p]] # "dir"

\* When rename(from, to) is possible, and what it makes of the tree.
RenameOk(dir, knd, from, to) ==
    /\ dir[from] # NoIno /\ from # Root /\ to # Root
    /\ dir[to] # NoIno => knd[dir[to]] = knd[dir[from]]
Renamed(dir, from, to) ==
    IF from = to THEN dir ELSE [dir EXCEPT ![to] = dir[from], ![from] = NoIno]

\* When p can be removed as an object of kind k: rmdir spares the root.
Removable(dir, knd, p, k) == dir[p] # NoIno /\ p # Root /\ knd[dir[p]] = k
=============================================================================
