---------------------------- MODULE L4fsProofs ----------------------------
(***************************************************************************)
(* Proofs about L4fs, for any number of clients, objects, descriptors,     *)
(* paths and nodes.                                                        *)
(***************************************************************************)
EXTENDS L4fsRefinement, TLAPS

VectorCall(c) == call[c].op \in {"preadv", "pwritev"} /\ phase[c] \in {"sent", "replied"}
ObjectCall(c) == call[c].op \in {"close", "drop"} /\ phase[c] \in {"sent", "replied"}

\* What is known of a call in progress, beyond its type.
CallShape(c) ==
    /\ VectorCall(c) => /\ call[c].i <= Len(call[c].iov)
                        /\ Len(call[c].iov[call[c].i]) <= MaxBuf
                        /\ phase[c] = "replied" /\ reply[c].ret = 0 =>
                              reply[c].size \in 0..Len(call[c].iov[call[c].i])
    /\ ObjectCall(c) => call[c].slot \in Slots
    /\ ObjectCall(c) /\ phase[c] = "sent" => file[c][call[c].slot] \in Fds
    /\ Opening(c) => reply[c].size \in Fds \cup {FAILED}
    /\ call[c].op = "get_entry" => call[c].slot \in Slots

CallShapes == \A c \in Clients : CallShape(c)
TypeInv == TypeOK /\ CallShapes

USE CellsAssumption, NamesAssumption, InodesAssumption, FdsAssumption,
    BoundsAssumption, InputsAssumption

-----------------------------------------------------------------------------
(* The operators the actions are made of. *)

LEMMA OverlayType ==
    ASSUME NEW b \in [1..MaxBuf -> Cells], NEW s \in Seq(Cells)
    PROVE  Overlay(b, s) \in [1..MaxBuf -> Cells]
  BY DEF Overlay

LEMMA CopyOutType ==
    ASSUME NEW s \in Seq(Cells), NEW b \in [1..MaxBuf -> Cells], NEW n \in Nat,
           Len(s) <= MaxBuf
    PROVE  /\ CopyOut(s, b, n) \in Seq(Cells)
           /\ Len(CopyOut(s, b, n)) = Len(s)
  BY DEF CopyOut

LEMMA SpliceType ==
    ASSUME NEW d \in Seq(Cells), NEW off \in Nat, NEW s \in Seq(Cells)
    PROVE  Splice(d, off, s) \in Seq(Cells)
  BY DEF Splice

LEMMA ReadableRange ==
    ASSUME NEW d \in Seq(Cells), NEW off \in Nat, NEW n \in Nat
    PROVE  Readable(d, off, n) \in 0..n /\ (Readable(d, off, n) > 0 =>
                                              off + Readable(d, off, n) <= Len(d))
  BY DEF Readable

LEMMA WritableRange ==
    ASSUME NEW off \in Nat, NEW n \in Nat
    PROVE  Writable(off, n) \in 0..n
  BY DEF Writable

LEMMA NoCallType == NoCall \in Requests /\ NoReply \in Replies
  BY DEF NoCall, NoReply, Requests, Replies, Buffers

LEMMA ReplyType ==
    ASSUME NEW r \in Codes \cup {0}, NEW n \in Int
    PROVE  [ret |-> r, size |-> n] \in Replies
  BY DEF Replies

LEMMA TypeInvInit == Init => TypeInv
  BY NoCallType DEF Init, FsInit, TypeInv, TypeOK, CallShapes, CallShape, VectorCall,
     ObjectCall, Opening, Replied, NoCall, NoReply, Closed, NoObject
-----------------------------------------------------------------------------
(* Every step keeps TypeInv: only the client that moves has to be looked at. *)

LEMMA OthersKeepShape ==
    ASSUME CallShapes, NEW c \in Clients, CallShape(c)',
           \A d \in Clients \ {c} : /\ phase'[d] = phase[d] /\ call'[d] = call[d]
                                    /\ reply'[d] = reply[d] /\ file'[d] = file[d]
    PROVE  CallShapes'
  BY DEF CallShapes, CallShape, VectorCall, ObjectCall, Opening, Replied

LEMMA ReturnStep ==
    ASSUME TypeInv, NEW c \in Clients, NEW v \in Int, Return(c, v)
    PROVE  /\ phase' \in [Clients -> {"idle", "sent", "replied", "faulted"}]
           /\ call' \in [Clients -> Requests]
           /\ reply' \in [Clients -> Replies]
           /\ res' \in [Clients -> Int]
           /\ CallShape(c)'
           /\ \A d \in Clients \ {c} : /\ phase'[d] = phase[d] /\ call'[d] = call[d]
                                       /\ reply'[d] = reply[d]
  <1>1. NoCall \in Requests /\ NoReply \in Replies
    BY NoCallType
  <1>2. phase'[c] = "idle" /\ call'[c] = NoCall /\ NoCall.op = "none"
    BY DEF Return, TypeInv, TypeOK, NoCall
  <1>3. CallShape(c)'
    BY <1>2 DEF CallShape, VectorCall, ObjectCall, Opening, Replied
  <1> QED
    BY <1>1, <1>3 DEF Return, TypeInv, TypeOK

LEMMA SendStep ==
    ASSUME TypeInv, NEW c \in Clients, NEW cl \in Requests, Send(c, cl)
    PROVE  /\ phase' \in [Clients -> {"idle", "sent", "replied", "faulted"}]
           /\ call' \in [Clients -> Requests]
           /\ reply' \in [Clients -> Replies]
           /\ res' \in [Clients -> Int]
           /\ phase'[c] = "sent" /\ call'[c] = cl
           /\ \A d \in Clients \ {c} : /\ phase'[d] = phase[d] /\ call'[d] = call[d]
                                       /\ reply'[d] = reply[d]
  BY NoCallType DEF Send, TypeInv, TypeOK

LEMMA AnswerStep ==
    ASSUME TypeInv, NEW c \in Clients, NEW r \in Codes \cup {0}, NEW n \in Int,
           Answer(c, r, n)
    PROVE  /\ phase' \in [Clients -> {"idle", "sent", "replied", "faulted"}]
           /\ reply' \in [Clients -> Replies]
           /\ root' = root /\ file' = file /\ call' = call /\ res' = res
           /\ phase'[c] = "replied" /\ reply'[c].ret = r /\ reply'[c].size = n
           /\ \A d \in Clients \ {c} : /\ phase'[d] = phase[d] /\ call'[d] = call[d]
                                       /\ reply'[d] = reply[d] /\ file'[d] = file[d]
  BY ReplyType DEF Answer, TypeInv, TypeOK

\* Therefore an answer keeps TypeInv if it leaves the request well shaped.
LEMMA AnswerKeeps ==
    ASSUME TypeInv, NEW c \in Clients, NEW r \in Codes \cup {0}, NEW n \in Int,
           Answer(c, r, n), CallShape(c)',
           dirent' \in [Names -> Inodes \cup {NoIno}],
           kind' \in [Inodes -> {"dir", "file"}],
           data' \in [Inodes -> Seq(Cells)],
           fdt' \in [Fds -> Inodes \cup {NoIno}],
           rwBuf' \in [1..MaxBuf -> Cells]
    PROVE  TypeInv'
  <1>1. /\ \A d \in Clients \ {c} : /\ phase'[d] = phase[d] /\ call'[d] = call[d]
                                     /\ reply'[d] = reply[d] /\ file'[d] = file[d]
        /\ phase' \in [Clients -> {"idle", "sent", "replied", "faulted"}]
        /\ reply' \in [Clients -> Replies]
        /\ root' = root /\ file' = file /\ call' = call /\ res' = res
    BY AnswerStep
  <1>2. CallShapes'
    BY <1>1, OthersKeepShape DEF TypeInv
  <1> QED
    BY <1>1, <1>2 DEF TypeInv, TypeOK

\* A request for which nothing more is to be known.
LEMMA PlainSendShape ==
    ASSUME NEW c \in Clients, phase'[c] = "sent",
           call'[c].op \notin {"preadv", "pwritev", "close", "drop", "get_entry"}
    PROVE  CallShape(c)'
  BY DEF CallShape, VectorCall, ObjectCall, Opening, Replied

LEMMA MountStep ==
    ASSUME TypeInv, NEW c \in Clients, Mount(c)
    PROVE  TypeInv'
  <1> DEFINE cl == [NoCall EXCEPT !.op = "mount", !.flags = {"O_DIRECTORY"}]
  <1>1. cl \in Requests /\ cl.op = "mount"
    BY NoCallType DEF Mount, CanCall, Requests, Flags, NoCall
  <1>2. /\ Send(c, cl) \/ \E e \in {EINVAL, ENOMEM} : Return(c, e)
        /\ UNCHANGED <<dirent, kind, data, fdt, rwBuf, root, file>>
    BY DEF Mount, fsVars
  <1> HIDE DEF cl
  <1>3. CASE Send(c, cl)
    <2>1. CallShape(c)'
      BY <1>1, <1>3, SendStep, PlainSendShape
    <2>2. CallShapes'
      BY <1>1, <1>2, <1>3, <2>1, SendStep, OthersKeepShape DEF TypeInv
    <2> QED
      BY <1>1, <1>2, <1>3, <2>2, SendStep DEF TypeInv, TypeOK
  <1>4. CASE \E e \in {EINVAL, ENOMEM} : Return(c, e)
    <2>1. PICK e \in Int : Return(c, e)
      BY <1>4 DEF EINVAL, ENOMEM
    <2>2. CallShapes'
      BY <1>2, <2>1, ReturnStep, OthersKeepShape DEF TypeInv
    <2> QED
      BY <1>2, <2>1, <2>2, ReturnStep DEF TypeInv, TypeOK
  <1> QED
    BY <1>2, <1>3, <1>4

LEMMA GetEntryStep ==
    ASSUME TypeInv, NEW c \in Clients, NEW s \in Slots, NEW p \in Names,
           NEW fl \in OpenFlags, GetEntry(c, s, p, fl)
    PROVE  TypeInv'
  <1> DEFINE cl == [NoCall EXCEPT !.op = "get_entry", !.slot = s, !.name = p,
                !.flags = IF p = Root THEN fl \cup {"O_DIRECTORY"} ELSE fl]
  <1>1. cl \in Requests /\ cl.op = "get_entry" /\ cl.slot = s
    BY NoCallType DEF GetEntry, CanCall, Requests, Flags, NoCall
  <1>2. /\ Return(c, ENAMETOOLONG) \/ Send(c, cl)
        /\ UNCHANGED <<dirent, kind, data, fdt, rwBuf, root, file>>
    BY DEF GetEntry, fsVars
  <1>3. CASE Return(c, ENAMETOOLONG)
    <2>1. CallShapes'
      BY <1>2, <1>3, ReturnStep, OthersKeepShape DEF TypeInv, ENAMETOOLONG
    <2> QED
      BY <1>2, <1>3, <2>1, ReturnStep DEF TypeInv, TypeOK, ENAMETOOLONG
  <1>4. CASE Send(c, cl)
    <2> HIDE DEF cl
    <2>1. CallShape(c)'
      BY <1>1, <1>4, SendStep DEF CallShape, VectorCall, ObjectCall, Opening, Replied
    <2>2. CallShapes'
      BY <1>1, <1>2, <1>4, <2>1, SendStep, OthersKeepShape DEF TypeInv
    <2> QED
      BY <1>1, <1>2, <1>4, <2>2, SendStep DEF TypeInv, TypeOK
  <1> QED
    BY <1>2, <1>3, <1>4

LEMMA PathCallStep ==
    ASSUME TypeInv, NEW c \in Clients, NEW op \in Calls, NEW p \in Names,
           PathCall(c, op, p)
    PROVE  TypeInv'
  <1> DEFINE cl == [NoCall EXCEPT !.op = op, !.name = p]
  <1>1. cl \in Requests /\ cl.op = op /\ op \in {"mkdir", "rmdir", "unlink"}
    BY NoCallType DEF PathCall, Requests, NoCall
  <1>2. /\ Return(c, ENAMETOOLONG) \/ Send(c, cl)
        /\ UNCHANGED <<dirent, kind, data, fdt, rwBuf, root, file>>
    BY DEF PathCall, fsVars
  <1>3. CASE Return(c, ENAMETOOLONG)
    <2>1. CallShapes'
      BY <1>2, <1>3, ReturnStep, OthersKeepShape DEF TypeInv, ENAMETOOLONG
    <2> QED
      BY <1>2, <1>3, <2>1, ReturnStep DEF TypeInv, TypeOK, ENAMETOOLONG
  <1>4. CASE Send(c, cl)
    <2> HIDE DEF cl
    <2>1. CallShape(c)'
      BY <1>1, <1>4, SendStep, PlainSendShape
    <2>2. CallShapes'
      BY <1>1, <1>2, <1>4, <2>1, SendStep, OthersKeepShape DEF TypeInv
    <2> QED
      BY <1>1, <1>2, <1>4, <2>2, SendStep DEF TypeInv, TypeOK
  <1> QED
    BY <1>2, <1>3, <1>4

LEMMA TwoPathCallStep ==
    ASSUME TypeInv, NEW c \in Clients, NEW op \in Calls, NEW from \in Names,
           NEW to \in Names, TwoPathCall(c, op, from, to)
    PROVE  TypeInv'
  <1> DEFINE cl == [NoCall EXCEPT !.op = op, !.name = from, !.to = to]
  <1>1. cl \in Requests /\ cl.op = op /\ op \in {"rename", "link", "symlink"}
    BY NoCallType DEF TwoPathCall, Requests, NoCall
  <1>2. /\ Return(c, ENAMETOOLONG) \/ Send(c, cl)
        /\ rwBuf' = rwBuf \/ rwBuf' = Overlay(rwBuf, <<to>>)
        /\ UNCHANGED <<dirent, kind, data, fdt, root, file>>
    BY DEF TwoPathCall, fsVars
  <1>3. rwBuf' \in [1..MaxBuf -> Cells]
    <2>1. rwBuf \in [1..MaxBuf -> Cells] /\ <<to>> \in Seq(Cells)
      BY DEF TypeInv, TypeOK
    <2>2. Overlay(rwBuf, <<to>>) \in [1..MaxBuf -> Cells]
      BY <2>1, OverlayType
    <2> QED
      BY <1>2, <2>1, <2>2
  <1>4. CASE Return(c, ENAMETOOLONG)
    <2>1. CallShapes'
      BY <1>2, <1>4, ReturnStep, OthersKeepShape DEF TypeInv, ENAMETOOLONG
    <2> QED
      BY <1>2, <1>3, <1>4, <2>1, ReturnStep DEF TypeInv, TypeOK, ENAMETOOLONG
  <1>5. CASE Send(c, cl)
    <2> HIDE DEF cl
    <2>1. CallShape(c)'
      BY <1>1, <1>5, SendStep, PlainSendShape
    <2>2. CallShapes'
      BY <1>1, <1>2, <1>5, <2>1, SendStep, OthersKeepShape DEF TypeInv
    <2> QED
      BY <1>1, <1>2, <1>3, <1>5, <2>2, SendStep DEF TypeInv, TypeOK
  <1> QED
    BY <1>2, <1>4, <1>5

LEMMA HandleCallStep ==
    ASSUME TypeInv, NEW c \in Clients, NEW op \in Calls, NEW s \in Slots,
           HandleCall(c, op, s)
    PROVE  TypeInv'
  <1> DEFINE cl == [NoCall EXCEPT !.op = op, !.slot = s]
  <1>1. /\ cl \in Requests /\ cl.op = op
        /\ op \in {"fstat64", "fsync", "readlink", "ftruncate64", "data_space"}
    BY NoCallType DEF HandleCall, Requests, NoCall
  <1>2. Send(c, cl) /\ UNCHANGED <<dirent, kind, data, fdt, rwBuf, root, file>>
    BY DEF HandleCall, fsVars
  <1> HIDE DEF cl
  <1>3. CallShape(c)'
    BY <1>1, <1>2, SendStep, PlainSendShape
  <1>4. CallShapes'
    BY <1>1, <1>2, <1>3, SendStep, OthersKeepShape DEF TypeInv
  <1> QED
    BY <1>1, <1>2, <1>4, SendStep DEF TypeInv, TypeOK

LEMMA CloseStep ==
    ASSUME TypeInv, NEW c \in Clients, NEW op \in Calls, NEW s \in Slots,
           Close(c, op, s)
    PROVE  TypeInv'
  <1> DEFINE cl == [NoCall EXCEPT !.op = op, !.slot = s]
  <1>1. cl \in Requests /\ cl.op = op /\ cl.slot = s /\ op \in {"close", "drop"}
    BY NoCallType DEF Close, Requests, NoCall
  <1>2. UNCHANGED <<dirent, kind, data, fdt, rwBuf, root>>
    BY DEF Close, fsVars
  <1>3. CASE file[c][s] # Closed /\ Send(c, cl) /\ UNCHANGED file
    <2>1. file[c][s] \in Fds
      BY <1>3 DEF Close, TypeInv, TypeOK
    <2> HIDE DEF cl
    <2>2. CallShape(c)'
      BY <1>1, <1>3, <2>1, SendStep
      DEF CallShape, VectorCall, ObjectCall, Opening, Replied
    <2>3. CallShapes'
      BY <1>1, <1>3, <2>2, SendStep, OthersKeepShape DEF TypeInv
    <2> QED
      BY <1>1, <1>2, <1>3, <2>3, SendStep DEF TypeInv, TypeOK
  <1>4. CASE Return(c, EBADF) /\ file' = [file EXCEPT ![c][s] =
                                     IF op = "drop" THEN NoObject ELSE @]
    <2>1. CallShapes'
      BY <1>4, ReturnStep, OthersKeepShape DEF TypeInv, TypeOK, EBADF
    <2> QED
      BY <1>2, <1>4, <2>1, ReturnStep DEF TypeInv, TypeOK, EBADF
  <1> QED
    BY <1>3, <1>4 DEF Close

\* One round of the loop of preadv or pwritev.
LEMMA TransferStep ==
    ASSUME TypeInv, NEW c \in Clients, NEW cl \in Requests,
           cl.op \in {"preadv", "pwritev"}, Transfer(c, cl),
           UNCHANGED <<dirent, kind, data, fdt, root, file>>
    PROVE  TypeInv'
  <1>1. cl.i \in Nat \ {0} /\ cl.n \in Nat /\ cl.iov \in Seq(Seq(Cells))
    BY DEF Requests, Buffers
  <1>2. cl.i <= Len(cl.iov) => cl.iov[cl.i] \in Seq(Cells)
    BY <1>1
  <1>3. rwBuf' \in [1..MaxBuf -> Cells]
    <2>1. rwBuf \in [1..MaxBuf -> Cells]
      BY DEF TypeInv, TypeOK
    <2>2. \/ rwBuf' = rwBuf
          \/ cl.i <= Len(cl.iov) /\ rwBuf' = Overlay(rwBuf, cl.iov[cl.i])
      BY DEF Transfer
    <2> QED
      BY <1>2, <2>1, <2>2, OverlayType
  <1>4. CASE \E v \in Int : Return(c, v)
    <2>1. CallShapes'
      BY <1>4, ReturnStep, OthersKeepShape DEF TypeInv
    <2> QED
      BY <1>3, <1>4, <2>1, ReturnStep DEF TypeInv, TypeOK
  <1>5. CASE Send(c, cl) /\ cl.i <= Len(cl.iov) /\ Len(cl.iov[cl.i]) <= MaxBuf
    <2>1. CallShape(c)'
      BY <1>5, SendStep DEF CallShape, VectorCall, ObjectCall, Opening, Replied
    <2>2. CallShapes'
      BY <1>5, <2>1, SendStep, OthersKeepShape DEF TypeInv
    <2> QED
      BY <1>3, <1>5, <2>2, SendStep DEF TypeInv, TypeOK
  <1>6. CASE /\ phase' = [phase EXCEPT ![c] = "faulted"]
             /\ call' = [call EXCEPT ![c] = cl]
             /\ reply' = [reply EXCEPT ![c] = NoReply]
             /\ UNCHANGED res
    <2>1. phase'[c] = "faulted" /\ call'[c] = cl
      BY <1>6 DEF TypeInv, TypeOK
    <2>2. CallShape(c)'
      BY <2>1 DEF CallShape, VectorCall, ObjectCall, Opening, Replied
    <2>3. CallShapes'
      BY <1>6, <2>2, OthersKeepShape DEF TypeInv, TypeOK
    <2> QED
      BY <1>3, <1>6, <2>3, NoCallType DEF TypeInv, TypeOK
  <1> QED
    BY <1>1, <1>4, <1>5, <1>6 DEF Transfer, ENOMEM

LEMMA VectoredStep ==
    ASSUME TypeInv, NEW c \in Clients, NEW op \in Calls, NEW s \in Slots,
           NEW iov \in Iovs, NEW p \in Offsets, Vectored(c, op, s, iov, p)
    PROVE  TypeInv'
  <1> DEFINE cl == [NoCall EXCEPT !.op = op, !.slot = s, !.iov = iov, !.off = p]
  <1>1. cl \in Requests /\ cl.op = op /\ op \in {"preadv", "pwritev"}
    BY NoCallType DEF Vectored, Requests, NoCall
  <1>2. Transfer(c, cl) /\ UNCHANGED <<dirent, kind, data, fdt, root, file>>
    BY DEF Vectored, fsVars
  <1> QED
    BY <1>1, <1>2, TransferStep

LEMMA KillStep ==
    ASSUME TypeInv, NEW c \in Clients, Kill(c)
    PROVE  TypeInv'
  <1>1. /\ Return(c, 0) /\ 0 \in Int
        /\ UNCHANGED <<dirent, kind, data, fdt, rwBuf>>
        /\ root' = [root EXCEPT ![c] = Closed]
        /\ file' = [file EXCEPT ![c] = [s \in Slots |-> NoObject]]
    BY DEF Kill, fsVars
  <1>2. CallShapes'
    BY <1>1, ReturnStep, OthersKeepShape DEF TypeInv, TypeOK
  <1> QED
    BY <1>1, <1>2, ReturnStep DEF TypeInv, TypeOK

-----------------------------------------------------------------------------
(* The server's steps. *)

\* An answer to a request whose payload is not looked at later on.
LEMMA PlainAnswer ==
    ASSUME TypeInv, NEW c \in Clients, NEW r \in Codes \cup {0}, NEW n \in Int,
           Answer(c, r, n),
           call[c].op \notin {"preadv", "pwritev", "close", "drop", "get_entry"},
           call[c].op = "mount" => call[c].i # 2,
           dirent' \in [Names -> Inodes \cup {NoIno}],
           kind' \in [Inodes -> {"dir", "file"}],
           data' \in [Inodes -> Seq(Cells)],
           fdt' = fdt, rwBuf' = rwBuf
    PROVE  TypeInv'
  <1>1. phase'[c] = "replied" /\ call'[c] = call[c]
    BY AnswerStep
  <1>2. CallShape(c)'
    BY <1>1 DEF CallShape, VectorCall, ObjectCall, Opening, Replied
  <1>3. fdt' \in [Fds -> Inodes \cup {NoIno}] /\ rwBuf' \in [1..MaxBuf -> Cells]
    BY DEF TypeInv, TypeOK
  <1> QED
    BY <1>2, <1>3, AnswerKeeps

LEMMA CodeFacts == /\ {FAILED, ENOSYS, 0} \subseteq Codes \cup {0}
                   /\ FAILED = -1 /\ ENOSYS \in Int
  BY DEF Codes, FAILED, ENOSYS

LEMMA NodeOfType ==
    ASSUME TypeInv, NEW fh
    PROVE  NodeOf(fh) \in Inodes \cup {NoIno}
  BY DEF NodeOf, TypeInv, TypeOK

LEMMA SrvPlainStep ==
    ASSUME TypeInv, NEW c \in Clients,
           \/ SrvInit(c) \/ SrvFstat64(c) \/ SrvDataspace(c) \/ SrvUnimplemented(c)
    PROVE  TypeInv'
  <1>1. /\ dirent \in [Names -> Inodes \cup {NoIno}] /\ kind \in [Inodes -> {"dir", "file"}]
        /\ data \in [Inodes -> Seq(Cells)]
    BY DEF TypeInv, TypeOK
  <1>2. CASE SrvInit(c)
    <2>1. call[c].op = "mount" /\ call[c].i = 1
      BY <1>2 DEF SrvInit, Serving
    <2>4. Answer(c, 0, 0)
      BY <1>2 DEF SrvInit
    <2>3. PICK r \in Codes \cup {0}, n \in Int : Answer(c, r, n)
      BY <2>4
    <2>5. call[c].i # 2
      BY <2>1
    <2>2. UNCHANGED <<dirent, kind, data, fdt, rwBuf>>
      BY <1>2 DEF SrvInit, fsVars
    <2> QED
      BY <1>1, <2>1, <2>2, <2>3, <2>5, PlainAnswer
  <1>3. CASE SrvFstat64(c)
    <2>1. NodeOf(Fh(c)) # NoIno => Len(data[NodeOf(Fh(c))]) \in Int
      BY <1>1, NodeOfType
    <2>2. PICK r \in Codes \cup {0}, n \in Int : Answer(c, r, n)
      BY <1>3, <2>1, CodeFacts DEF SrvFstat64
    <2>3. call[c].op = "fstat64" /\ UNCHANGED <<dirent, kind, data, fdt, rwBuf>>
      BY <1>3 DEF SrvFstat64, Serving, fsVars
    <2> QED
      BY <1>1, <2>2, <2>3, PlainAnswer
  <1>4. CASE SrvDataspace(c)
    <2>1. /\ call[c].op = "data_space"
          /\ UNCHANGED <<dirent, kind, data, fdt, rwBuf>>
      BY <1>4 DEF SrvDataspace, Serving, fsVars
    <2>2. PICK r \in Codes \cup {0}, n \in Int : Answer(c, r, n)
      BY <1>4, CodeFacts DEF SrvDataspace
    <2> QED
      BY <1>1, <2>1, <2>2, PlainAnswer
  <1>5. CASE SrvUnimplemented(c)
    <2>1. /\ call[c].op \in {"link", "symlink", "readlink", "fsync", "ftruncate64"}
          /\ UNCHANGED <<dirent, kind, data, fdt, rwBuf>>
      BY <1>5 DEF SrvUnimplemented, Serving, fsVars
    <2>2. Answer(c, ENOSYS, 0)
      BY <1>5 DEF SrvUnimplemented
    <2>3. PICK r \in Codes \cup {0}, n \in Int : Answer(c, r, n)
      BY <2>2, CodeFacts
    <2> QED
      BY <1>1, <2>1, <2>3, PlainAnswer
  <1> QED
    BY <1>2, <1>3, <1>4, <1>5

LEMMA SrvTreeStep ==
    ASSUME TypeInv, NEW c \in Clients,
           \/ SrvRename(c) \/ SrvUnlink(c) \/ SrvRmdir(c) \/ SrvMkdir(c)
    PROVE  TypeInv'
  <1>1. /\ dirent \in [Names -> Inodes \cup {NoIno}] /\ kind \in [Inodes -> {"dir", "file"}]
        /\ data \in [Inodes -> Seq(Cells)] /\ <<>> \in Seq(Cells)
        /\ call[c].name \in Names
    BY DEF TypeInv, TypeOK, Requests
  <1>2. CASE SrvRename(c)
    <2> DEFINE to == IF rwBuf[1] \in Names THEN rwBuf[1] ELSE Garbage
    <2>1. to \in Names
      OBVIOUS
    <2>2. /\ dirent' = dirent \/ dirent' = Renamed(dirent, call[c].name, to)
          /\ \E r \in Codes \cup {0} : Answer(c, r, 0)
          /\ call[c].op = "rename" /\ UNCHANGED <<kind, data, fdt, rwBuf>>
      BY <1>2, CodeFacts DEF SrvRename, Serving
    <2> HIDE DEF to
    <2>3. dirent' \in [Names -> Inodes \cup {NoIno}]
      BY <1>1, <2>1, <2>2 DEF Renamed
    <2>4. PICK r \in Codes \cup {0}, n \in Int : Answer(c, r, n)
      BY <2>2
    <2> QED
      BY <1>1, <2>2, <2>3, <2>4, PlainAnswer
  <1>3. CASE SrvUnlink(c) \/ SrvRmdir(c)
    <2>1. PICK op \in {"unlink", "rmdir"}, k \in {"file", "dir"} : SrvRemove(c, op, k)
      BY <1>3 DEF SrvUnlink, SrvRmdir
    <2>2. /\ dirent' = dirent \/ dirent' = [dirent EXCEPT ![call[c].name] = NoIno]
          /\ \E r \in Codes \cup {0} : Answer(c, r, 0)
          /\ call[c].op = op /\ UNCHANGED <<kind, data, fdt, rwBuf>>
      BY <2>1, CodeFacts DEF SrvRemove, Serving
    <2>3. PICK r \in Codes \cup {0}, n \in Int : Answer(c, r, n)
      BY <2>2
    <2>4. dirent' \in [Names -> Inodes \cup {NoIno}]
      BY <1>1, <2>2
    <2> QED
      BY <1>1, <2>2, <2>3, <2>4, PlainAnswer
  <1>4. CASE SrvMkdir(c)
    <2>1. /\ \E r \in Codes \cup {0} : Answer(c, r, 0)
          /\ call[c].op = "mkdir" /\ UNCHANGED <<fdt, rwBuf>>
      BY <1>4, CodeFacts DEF SrvMkdir, Serving, fsVars
    <2>2. \/ UNCHANGED <<dirent, kind, data>>
          \/ \E i \in Inodes : /\ dirent' = [dirent EXCEPT ![call[c].name] = i]
                               /\ kind' = [kind EXCEPT ![i] = "dir"]
                               /\ data' = [data EXCEPT ![i] = <<>>]
      BY <1>4 DEF SrvMkdir, FreeInodes, fsVars
    <2>3. dirent' \in [Names -> Inodes \cup {NoIno}] /\ kind' \in [Inodes -> {"dir", "file"}]
      <3>1. \/ UNCHANGED <<dirent, kind>>
            \/ \E i \in Inodes : /\ dirent' = [dirent EXCEPT ![call[c].name] = i]
                                 /\ kind' = [kind EXCEPT ![i] = "dir"]
        BY <2>2
      <3>2. kind \in [Inodes -> {"dir", "file"}] /\ call[c].name \in Names
            /\ dirent \in [Names -> Inodes \cup {NoIno}]
        BY <1>1
      <3>3. kind' \in [Inodes -> {"dir", "file"}]
        BY <3>1, <3>2
      <3>4. dirent' \in [Names -> Inodes \cup {NoIno}]
        BY <3>1, <3>2
      <3> QED
        BY <3>3, <3>4
    <2>5. data' \in [Inodes -> Seq(Cells)]
      <3> DEFINE none == <<>>
      <3>1. none \in Seq(Cells)
        OBVIOUS
      <3>2. data' = data \/ \E i \in Inodes : data' = [data EXCEPT ![i] = none]
        BY <2>2
      <3> HIDE DEF none
      <3> QED
        BY <1>1, <3>1, <3>2
    <2>4. PICK r \in Codes \cup {0}, n \in Int : Answer(c, r, n)
      BY <2>1
    <2> QED
      BY <2>1, <2>3, <2>4, <2>5, PlainAnswer
  <1> QED
    BY <1>2, <1>3, <1>4

LEMMA SrvOpenStep ==
    ASSUME TypeInv, NEW c \in Clients, SrvOpen(c)
    PROVE  TypeInv'
  <1>1. /\ dirent \in [Names -> Inodes \cup {NoIno}] /\ kind \in [Inodes -> {"dir", "file"}]
        /\ data \in [Inodes -> Seq(Cells)] /\ <<>> \in Seq(Cells)
        /\ fdt \in [Fds -> Inodes \cup {NoIno}] /\ call[c] \in Requests
    BY DEF TypeInv, TypeOK
  <1>2. call[c].name \in Names
    BY <1>1 DEF Requests
  <1>3. /\ call[c].op \in {"get_entry", "mount"} /\ UNCHANGED rwBuf
        /\ call[c].op = "get_entry" => call[c].slot \in Slots
    BY DEF SrvOpen, Serving, TypeInv, CallShapes, CallShape
  <1>4. \/ UNCHANGED <<dirent, kind, data, fdt>>
        \/ \E f \in Fds : /\ fdt' = [fdt EXCEPT ![f] = dirent[call[c].name]]
                          /\ data' = data \/ data' = [data EXCEPT ![dirent[call[c].name]] = <<>>]
                          /\ UNCHANGED <<dirent, kind>>
        \/ \E f \in Fds, i \in Inodes :
              /\ fdt' = [fdt EXCEPT ![f] = i]
              /\ dirent' = [dirent EXCEPT ![call[c].name] = i]
              /\ kind' = [kind EXCEPT ![i] = "file"]
              /\ data' = [data EXCEPT ![i] = <<>>]
    BY DEF SrvOpen, FreeInodes, fsVars
  <1>5. /\ dirent' \in [Names -> Inodes \cup {NoIno}] /\ kind' \in [Inodes -> {"dir", "file"}]
        /\ fdt' \in [Fds -> Inodes \cup {NoIno}]
    <2>1. \/ UNCHANGED <<dirent, kind, fdt>>
          \/ \E f \in Fds : /\ fdt' = [fdt EXCEPT ![f] = dirent[call[c].name]]
                            /\ UNCHANGED <<dirent, kind>>
          \/ \E f \in Fds, i \in Inodes :
                /\ fdt' = [fdt EXCEPT ![f] = i]
                /\ dirent' = [dirent EXCEPT ![call[c].name] = i]
                /\ kind' = [kind EXCEPT ![i] = "file"]
      BY <1>4
    <2>2. /\ kind \in [Inodes -> {"dir", "file"}]
          /\ dirent \in [Names -> Inodes \cup {NoIno}]
          /\ fdt \in [Fds -> Inodes \cup {NoIno}]
      BY <1>1
    <2>3. kind' \in [Inodes -> {"dir", "file"}]
      BY <2>1, <2>2
    <2>4. dirent' \in [Names -> Inodes \cup {NoIno}]
      BY <1>2, <2>1, <2>2
    <2>5. fdt' \in [Fds -> Inodes \cup {NoIno}]
      BY <1>2, <2>1, <2>2
    <2> QED
      BY <2>3, <2>4, <2>5
  <1>11. data' \in [Inodes -> Seq(Cells)]
    <2> DEFINE none == <<>>
    <2>1. none \in Seq(Cells)
      OBVIOUS
    <2>2. data' = data \/ \E i : data' = [data EXCEPT ![i] = none]
      BY <1>4
    <2> HIDE DEF none
    <2> QED
      BY <1>1, <2>1, <2>2
  <1>6. PICK n \in Fds \cup {FAILED} : Answer(c, 0, n)
    BY DEF SrvOpen
  <1>7. n \in Int /\ 0 \in Codes \cup {0}
    BY CodeFacts
  <1>8. phase'[c] = "replied" /\ call'[c] = call[c] /\ reply'[c].size = n
    BY <1>6, <1>7, AnswerStep
  <1>9. CallShape(c)'
    BY <1>3, <1>8 DEF CallShape, VectorCall, ObjectCall, Opening, Replied
  <1>10. rwBuf' \in [1..MaxBuf -> Cells]
    BY <1>3 DEF TypeInv, TypeOK
  <1> QED
    BY <1>5, <1>6, <1>7, <1>9, <1>10, <1>11, AnswerKeeps

\* An answer to a vectored request.
LEMMA VectorAnswer ==
    ASSUME TypeInv, NEW c \in Clients, NEW r \in Codes \cup {0}, NEW n \in Int,
           Answer(c, r, n), phase[c] = "sent", call[c].op \in {"preadv", "pwritev"},
           r = 0 => n \in 0..Len(call[c].iov[call[c].i]),
           data' \in [Inodes -> Seq(Cells)], rwBuf' \in [1..MaxBuf -> Cells],
           UNCHANGED <<dirent, kind, fdt>>
    PROVE  TypeInv'
  <1>1. /\ phase'[c] = "replied" /\ call'[c] = call[c]
        /\ reply'[c].ret = r /\ reply'[c].size = n
    BY AnswerStep
  <1>2. call[c].i <= Len(call[c].iov) /\ Len(call[c].iov[call[c].i]) <= MaxBuf
    BY DEF TypeInv, CallShapes, CallShape, VectorCall
  <1>3. CallShape(c)'
    BY <1>1, <1>2 DEF CallShape, VectorCall, ObjectCall, Opening, Replied
  <1>4. /\ dirent' \in [Names -> Inodes \cup {NoIno}] /\ kind' \in [Inodes -> {"dir", "file"}]
        /\ fdt' \in [Fds -> Inodes \cup {NoIno}]
    BY DEF TypeInv, TypeOK
  <1> QED
    BY <1>3, <1>4, AnswerKeeps

LEMMA LenInRange ==
    ASSUME NEW s \in Seq(Cells), Len(s) <= MaxBuf
    PROVE  Len(s) \in 0..MaxBuf
  OBVIOUS

LEMMA ChunkFacts ==
    ASSUME TypeInv, NEW c \in Clients, VectorCall(c)
    PROVE  /\ call[c].i \in 1..Len(call[c].iov)
           /\ call[c].iov \in Seq(Seq(Cells))
           /\ call[c].iov[call[c].i] \in Seq(Cells)
           /\ Len(call[c].iov[call[c].i]) \in 0..MaxBuf
           /\ call[c].off \in Int
  <1>1. /\ call[c] \in Requests /\ call[c].i <= Len(call[c].iov)
        /\ Len(call[c].iov[call[c].i]) <= MaxBuf
    BY DEF TypeInv, TypeOK, CallShapes, CallShape
  <1>2. /\ call[c].i \in Nat \ {0} /\ call[c].iov \in Seq(Seq(Cells)) /\ call[c].off \in Int
    BY <1>1 DEF Requests, Buffers
  <1>3. call[c].i \in 1..Len(call[c].iov)
    BY <1>1, <1>2
  <1>4. call[c].iov[call[c].i] \in Seq(Cells)
    BY <1>2, <1>3
  <1>5. Len(call[c].iov[call[c].i]) <= MaxBuf
    BY <1>1
  <1>6. Len(call[c].iov[call[c].i]) \in 0..MaxBuf
    BY <1>4, <1>5, LenInRange
  <1> QED
    BY <1>2, <1>3, <1>4, <1>6

LEMMA SrvPreadStep ==
    ASSUME TypeInv, NEW c \in Clients, SrvPread(c)
    PROVE  TypeInv'
  <1> DEFINE ino == NodeOf(Fh(c))
             off == call[c].off
             len == Len(call[c].iov[call[c].i])
             n == Readable(data[ino], off, len)
  <1>1. /\ phase[c] = "sent" /\ call[c].op = "preadv" /\ VectorCall(c)
        /\ UNCHANGED <<dirent, kind, data, fdt>>
    BY DEF SrvPread, Serving, VectorCall, fsVars
  <1>2. /\ off \in Int /\ len \in 0..MaxBuf /\ ino \in Inodes \cup {NoIno}
        /\ data \in [Inodes -> Seq(Cells)] /\ rwBuf \in [1..MaxBuf -> Cells]
    BY <1>1, ChunkFacts, NodeOfType DEF TypeInv, TypeOK
  <1>3. CASE Answer(c, FAILED, FAILED) /\ UNCHANGED rwBuf
    BY <1>1, <1>2, <1>3, VectorAnswer, CodeFacts
  <1>4. CASE /\ IsFile(ino) /\ off >= 0
             /\ rwBuf' = Overlay(rwBuf, SubSeq(data[ino], off + 1, off + n))
             /\ Answer(c, 0, n)
    <2>1. ino \in Inodes /\ off \in Nat /\ len \in Nat /\ data[ino] \in Seq(Cells)
      BY <1>2, <1>4 DEF IsFile
    <2>2. n \in 0..len /\ (n > 0 => off + n <= Len(data[ino]))
      BY <2>1, ReadableRange
    <2> HIDE DEF n
    <2>3. SubSeq(data[ino], off + 1, off + n) \in Seq(Cells)
      BY <2>1, <2>2
    <2>4. rwBuf' \in [1..MaxBuf -> Cells]
      BY <1>2, <1>4, <2>3, OverlayType
    <2>5. n \in Int /\ 0 \in Codes \cup {0}
      BY <2>1, <2>2, CodeFacts
    <2> QED
      BY <1>1, <1>2, <1>4, <2>2, <2>4, <2>5, VectorAnswer
  <1> QED
    BY <1>3, <1>4 DEF SrvPread

LEMMA SrvPwriteStep ==
    ASSUME TypeInv, NEW c \in Clients, SrvPwrite(c)
    PROVE  TypeInv'
  <1> DEFINE ino == NodeOf(Fh(c))
             off == call[c].off
             len == Len(call[c].iov[call[c].i])
             n == Writable(off, len)
  <1>1. /\ phase[c] = "sent" /\ call[c].op = "pwritev" /\ VectorCall(c)
        /\ UNCHANGED <<dirent, kind, fdt, rwBuf>>
    BY DEF SrvPwrite, Serving, VectorCall
  <1>2. /\ off \in Int /\ len \in 0..MaxBuf /\ ino \in Inodes \cup {NoIno}
        /\ data \in [Inodes -> Seq(Cells)] /\ rwBuf \in [1..MaxBuf -> Cells]
    BY <1>1, ChunkFacts, NodeOfType DEF TypeInv, TypeOK
  <1>3. CASE Answer(c, FAILED, FAILED) /\ UNCHANGED data
    BY <1>1, <1>2, <1>3, VectorAnswer, CodeFacts
  <1>4. CASE /\ IsFile(ino) /\ off >= 0 /\ Answer(c, 0, n)
             /\ data' = IF n = 0 THEN data
                        ELSE [data EXCEPT ![ino] = Splice(@, off, SubSeq(rwBuf, 1, n))]
    <2>1. ino \in Inodes /\ off \in Nat /\ len \in Nat /\ data[ino] \in Seq(Cells)
      BY <1>2, <1>4 DEF IsFile
    <2>2. n \in 0..len /\ n <= MaxBuf
      <3>1. n \in 0..len
        BY <2>1, WritableRange
      <3> QED
        BY <1>2, <3>1
    <2> HIDE DEF n
    <2>3. rwBuf \in Seq(Cells) /\ Len(rwBuf) = MaxBuf
      BY <1>2
    <2>4. SubSeq(rwBuf, 1, n) \in Seq(Cells)
      BY <2>2, <2>3
    <2>5. Splice(data[ino], off, SubSeq(rwBuf, 1, n)) \in Seq(Cells)
      BY <2>1, <2>4, SpliceType
    <2>6. data' \in [Inodes -> Seq(Cells)]
      BY <1>2, <1>4, <2>1, <2>5
    <2>7. n \in Int /\ 0 \in Codes \cup {0} /\ rwBuf' \in [1..MaxBuf -> Cells]
      BY <1>1, <1>2, <2>1, <2>2, CodeFacts
    <2> QED
      BY <1>1, <1>4, <2>2, <2>6, <2>7, VectorAnswer
  <1> QED
    BY <1>3, <1>4 DEF SrvPwrite

LEMMA SrvCloseStep ==
    ASSUME TypeInv, NEW c \in Clients, SrvClose(c)
    PROVE  TypeInv'
  <1>1. /\ phase[c] = "sent" /\ call[c].op \in {"close", "drop"}
        /\ UNCHANGED <<dirent, kind, data, rwBuf>>
        /\ \E r \in Codes \cup {0} : Answer(c, r, 0)
    BY CodeFacts DEF SrvClose, Serving
  <1>2. fdt' \in [Fds -> Inodes \cup {NoIno}]
    BY DEF SrvClose, TypeInv, TypeOK
  <1>3. call[c].slot \in Slots
    BY <1>1 DEF TypeInv, CallShapes, CallShape, ObjectCall
  <1>4. PICK r \in Codes \cup {0}, n \in Int : Answer(c, r, n)
    BY <1>1
  <1>5. phase'[c] = "replied" /\ call'[c] = call[c]
    BY <1>4, AnswerStep
  <1>6. CallShape(c)'
    BY <1>1, <1>3, <1>5 DEF CallShape, VectorCall, ObjectCall, Opening, Replied
  <1>7. /\ dirent' \in [Names -> Inodes \cup {NoIno}] /\ kind' \in [Inodes -> {"dir", "file"}]
        /\ data' \in [Inodes -> Seq(Cells)] /\ rwBuf' \in [1..MaxBuf -> Cells]
    BY <1>1 DEF TypeInv, TypeOK
  <1> QED
    BY <1>2, <1>4, <1>6, <1>7, AnswerKeeps

-----------------------------------------------------------------------------
(* The steps in which a client takes a reply. *)

\* A call that returns keeps TypeInv, whatever it stores in its own objects.
LEMMA ReturnKeeps ==
    ASSUME TypeInv, NEW c \in Clients, NEW v \in Int, Return(c, v),
           root' \in [Clients -> Fds \cup {Closed}],
           file' \in [Clients -> [Slots -> Fds \cup {Closed, NoObject}]],
           \A d \in Clients \ {c} : file'[d] = file[d],
           UNCHANGED <<dirent, kind, data, fdt, rwBuf>>
    PROVE  TypeInv'
  <1>1. CallShapes'
    BY ReturnStep, OthersKeepShape DEF TypeInv
  <1> QED
    BY <1>1, ReturnStep DEF TypeInv, TypeOK

LEMMA ReplyFacts ==
    ASSUME TypeInv, NEW c \in Clients
    PROVE  /\ reply[c].ret \in Int /\ reply[c].size \in Int
           /\ Opening(c) => reply[c].size \in Fds \cup {FAILED}
  <1>1. reply[c] \in Replies
    BY DEF TypeInv, TypeOK
  <1>2. reply[c].ret \in Codes \cup {0} /\ reply[c].size \in Int
    BY <1>1 DEF Replies
  <1> QED
    BY <1>2 DEF TypeInv, CallShapes, CallShape, Codes, FAILED, ENOMEM, EBADF,
       EINVAL, ENAMETOOLONG, ENOSYS

LEMMA RoundType ==
    ASSUME NEW cl \in Requests, NEW k \in Nat \ {0}
    PROVE  [cl EXCEPT !.i = k] \in Requests /\ [cl EXCEPT !.i = k].op = cl.op
  BY DEF Requests

LEMMA MountReplyStep ==
    ASSUME TypeInv, NEW c \in Clients, MountReply(c)
    PROVE  TypeInv'
  <1>1. /\ phase[c] = "replied" /\ call[c].op = "mount"
        /\ UNCHANGED <<dirent, kind, data, fdt, rwBuf, file>>
    BY DEF MountReply, Replied, fsVars
  <1>2. /\ root \in [Clients -> Fds \cup {Closed}] /\ call[c] \in Requests
        /\ file \in [Clients -> [Slots -> Fds \cup {Closed, NoObject}]]
    BY DEF TypeInv, TypeOK
  <1>3. CASE Send(c, [call[c] EXCEPT !.i = 2]) /\ UNCHANGED root
    <2> DEFINE cl == [call[c] EXCEPT !.i = 2]
    <2>1. cl \in Requests /\ cl.op = "mount"
      <3>1. PICK k \in Nat \ {0} : k = 2
        OBVIOUS
      <3>2. [call[c] EXCEPT !.i = k] \in Requests /\ [call[c] EXCEPT !.i = k].op = "mount"
        BY <1>1, <1>2, RoundType
      <3> QED
        BY <3>1, <3>2
    <2> HIDE DEF cl
    <2>2. Send(c, cl)
      BY <1>3 DEF cl
    <2>3. CallShape(c)'
      BY <2>1, <2>2, SendStep, PlainSendShape
    <2>4. CallShapes'
      BY <1>1, <2>1, <2>2, <2>3, SendStep, OthersKeepShape DEF TypeInv
    <2> QED
      BY <1>1, <1>3, <2>1, <2>2, <2>4, SendStep DEF TypeInv, TypeOK
  <1>4. CASE Return(c, reply[c].size) /\ UNCHANGED root
    BY <1>1, <1>2, <1>4, ReplyFacts, ReturnKeeps
  <1>5. CASE /\ call[c].i = 2 /\ reply[c].size >= 0
             /\ root' = [root EXCEPT ![c] = reply[c].size]
             /\ Return(c, 0)
    <2>1. reply[c].size \in Fds
      BY <1>1, <1>5, ReplyFacts DEF Opening, Replied, FAILED
    <2>2. root' \in [Clients -> Fds \cup {Closed}]
      BY <1>2, <1>5, <2>1
    <2>3. PICK v \in Int : Return(c, v)
      BY <1>5
    <2> QED
      BY <1>1, <1>2, <2>2, <2>3, ReturnKeeps
  <1>6. CASE (Return(c, ENOMEM) \/ Return(c, 0)) /\ UNCHANGED root
    <2>1. PICK v \in Int : Return(c, v)
      BY <1>6 DEF ENOMEM
    <2> QED
      BY <1>1, <1>2, <1>6, <2>1, ReturnKeeps
  <1> QED
    BY <1>3, <1>4, <1>5, <1>6 DEF MountReply

LEMMA GetEntryReplyStep ==
    ASSUME TypeInv, NEW c \in Clients, GetEntryReply(c)
    PROVE  TypeInv'
  <1>1. /\ phase[c] = "replied" /\ call[c].op = "get_entry" /\ Opening(c)
        /\ UNCHANGED <<dirent, kind, data, fdt, rwBuf, root>>
    BY DEF GetEntryReply, Replied, Opening, fsVars
  <1>2. /\ root \in [Clients -> Fds \cup {Closed}] /\ call[c].slot \in Slots
        /\ file \in [Clients -> [Slots -> Fds \cup {Closed, NoObject}]]
    BY <1>1 DEF TypeInv, TypeOK, CallShapes, CallShape
  <1>3. PICK v \in Int : Return(c, v)
    BY ReplyFacts DEF GetEntryReply, ENOMEM
  <1>4. \/ file' = file
        \/ reply[c].size \in Fds /\ file' = [file EXCEPT ![c][call[c].slot] = reply[c].size]
    BY <1>1, ReplyFacts DEF GetEntryReply, FAILED
  <1>5. /\ file' \in [Clients -> [Slots -> Fds \cup {Closed, NoObject}]]
        /\ \A d \in Clients \ {c} : file'[d] = file[d]
    BY <1>2, <1>4
  <1> QED
    BY <1>1, <1>2, <1>3, <1>5, ReturnKeeps

LEMMA CloseReplyStep ==
    ASSUME TypeInv, NEW c \in Clients, CloseReply(c)
    PROVE  TypeInv'
  <1>1. /\ phase[c] = "replied" /\ call[c].op \in {"close", "drop"}
        /\ UNCHANGED <<dirent, kind, data, fdt, rwBuf, root>>
    BY DEF CloseReply, Replied, fsVars
  <1>2. /\ root \in [Clients -> Fds \cup {Closed}] /\ call[c].slot \in Slots
        /\ file \in [Clients -> [Slots -> Fds \cup {Closed, NoObject}]]
    BY <1>1 DEF TypeInv, TypeOK, CallShapes, CallShape, ObjectCall
  <1>3. PICK v \in Int : Return(c, v)
    BY ReplyFacts DEF CloseReply
  <1>4. /\ file' \in [Clients -> [Slots -> Fds \cup {Closed, NoObject}]]
        /\ \A d \in Clients \ {c} : file'[d] = file[d]
    BY <1>2 DEF CloseReply
  <1> QED
    BY <1>1, <1>2, <1>3, <1>4, ReturnKeeps

LEMMA PlainReplyStep ==
    ASSUME TypeInv, NEW c \in Clients, PlainReply(c)
    PROVE  TypeInv'
  <1>1. UNCHANGED <<dirent, kind, data, fdt, rwBuf, root, file>>
    BY DEF PlainReply, fsVars
  <1>2. PICK v \in Int : Return(c, v)
    BY ReplyFacts DEF PlainReply
  <1>3. /\ root \in [Clients -> Fds \cup {Closed}]
        /\ file \in [Clients -> [Slots -> Fds \cup {Closed, NoObject}]]
    BY DEF TypeInv, TypeOK
  <1> QED
    BY <1>1, <1>2, <1>3, ReturnKeeps

\* After a successful round of the loop the call record is well typed again.
LEMMA AdvancedType ==
    ASSUME TypeInv, NEW c \in Clients, VectorCall(c), phase[c] = "replied",
           reply[c].ret = 0
    PROVE  Advanced(c) \in Requests /\ Advanced(c).op = call[c].op /\ Advanced(c).n \in Nat
  <1> DEFINE cl == call[c]
             n == reply[c].size
             chunk == cl.iov[cl.i]
             buf == IF cl.op = "preadv" THEN CopyOut(chunk, rwBuf, n) ELSE chunk
  <1>1. /\ cl \in Requests /\ n \in 0..Len(chunk) /\ rwBuf \in [1..MaxBuf -> Cells]
    BY DEF TypeInv, TypeOK, CallShapes, CallShape
  <1>2. /\ cl.i \in 1..Len(cl.iov) /\ cl.iov \in Seq(Seq(Cells)) /\ chunk \in Seq(Cells)
        /\ Len(chunk) \in 0..MaxBuf /\ cl.off \in Int
    BY ChunkFacts
  <1>3. cl.n \in Nat /\ cl.i \in Nat /\ n \in Nat
    BY <1>1, <1>2 DEF Requests
  <1>4. buf \in Seq(Cells)
    <2>1. Len(chunk) <= MaxBuf
      BY <1>2
    <2>2. CopyOut(chunk, rwBuf, n) \in Seq(Cells)
      BY <1>1, <1>2, <1>3, <2>1, CopyOutType
    <2> QED
      BY <1>2, <2>2
  <1> DEFINE iov == [cl.iov EXCEPT ![cl.i] = buf]
  <1>5. Advanced(c) = [cl EXCEPT !.iov = iov, !.i = cl.i + 1, !.n = cl.n + n,
                                 !.off = cl.off + n]
    BY <1>1 DEF Advanced, Requests
  <1> HIDE DEF buf
  <1>6. iov \in Seq(Buffers)
    BY <1>2, <1>4 DEF Buffers
  <1>7. cl.i + 1 \in Nat \ {0} /\ cl.n + n \in Nat /\ cl.off + n \in Int
    <2>1. cl.i + 1 \in Nat \ {0}
      BY <1>3
    <2>2. cl.n + n \in Nat
      BY <1>3
    <2>3. cl.off + n \in Int
      BY <1>2, <1>3
    <2> QED
      BY <2>1, <2>2, <2>3
  <1> HIDE DEF iov, n
  <1> QED
    BY <1>1, <1>5, <1>6, <1>7 DEF Requests

LEMMA TransferReplyStep ==
    ASSUME TypeInv, NEW c \in Clients, TransferReply(c)
    PROVE  TypeInv'
  <1>1. /\ phase[c] = "replied" /\ VectorCall(c) /\ call[c].op \in {"preadv", "pwritev"}
        /\ UNCHANGED <<dirent, kind, data, fdt, root, file>>
    BY DEF TransferReply, Replied, VectorCall, fsVars
  <1>2. /\ root \in [Clients -> Fds \cup {Closed}]
        /\ file \in [Clients -> [Slots -> Fds \cup {Closed, NoObject}]]
    BY DEF TypeInv, TypeOK
  <1>3. CASE Return(c, reply[c].ret) /\ UNCHANGED rwBuf
    BY <1>1, <1>2, <1>3, ReplyFacts, ReturnKeeps
  <1>4. CASE reply[c].ret = 0 /\ Return(c, Advanced(c).n) /\ UNCHANGED rwBuf
    BY <1>1, <1>2, <1>4, AdvancedType, ReturnKeeps
  <1>5. CASE reply[c].ret = 0 /\ Transfer(c, Advanced(c))
    BY <1>1, <1>5, AdvancedType, TransferStep
  <1> QED
    BY <1>3, <1>4, <1>5 DEF TransferReply

LEMMA TypeInvStep == TypeInv /\ [Next]_vars => TypeInv'
  <1> SUFFICES ASSUME TypeInv, [Next]_vars PROVE TypeInv'
    OBVIOUS
  <1>1. CASE UNCHANGED vars
    BY <1>1 DEF vars, TypeInv, TypeOK, CallShapes, CallShape, VectorCall, ObjectCall,
       Opening, Replied
  <1>2. CASE Next
    <2>1. PICK c \in Clients : Invoke(c) \/ Dispatch(c) \/ TakeReply(c) \/ Kill(c)
      BY <1>2 DEF Next
    <2>2. CASE Invoke(c)
      BY <2>2, MountStep, PathCallStep, TwoPathCallStep, GetEntryStep, HandleCallStep,
         CloseStep, VectoredStep DEF Invoke
    <2>3. CASE Dispatch(c)
      BY <2>3, SrvPlainStep, SrvTreeStep, SrvOpenStep, SrvPreadStep, SrvPwriteStep,
         SrvCloseStep DEF Dispatch
    <2>4. CASE TakeReply(c)
      BY <2>4, MountReplyStep, GetEntryReplyStep, CloseReplyStep, PlainReplyStep,
         TransferReplyStep DEF TakeReply
    <2> QED
      BY <2>1, <2>2, <2>3, <2>4, KillStep
  <1> QED
    BY <1>1, <1>2

LEMMA TypeInvHolds == Spec => []TypeInv
  BY TypeInvInit, TypeInvStep, PTL DEF Spec

\* The variables of clients and server keep their types; in particular the
\* return code of every backend call is a count or one of the error codes,
\* and no call record points outside the iovec it was given.
THEOREM TypeCorrect == Spec => []TypeOK
  <1>1. TypeInv => TypeOK
    BY DEF TypeInv
  <1> QED
    BY <1>1, TypeInvHolds, PTL

-----------------------------------------------------------------------------
(* Handles.  HandleIsolation is inductive relative to TypeInv.  Most steps  *)
(* are quiet: the handles held stay the same or are given up.  The server's *)
(* open creates a holder of a descriptor nobody holds, the reply moves it   *)
(* to an object, the server's close takes it away from its only holder.     *)

Quiet(c) == /\ fdt' = fdt
            /\ \A t \in Holders : Held(c, t)' = Held(c, t) \/ Held(c, t)' \notin Fds

\* Nobody but client c moves.
Alone(c) == \A d \in Clients \ {c} :
                /\ phase'[d] = phase[d] /\ call'[d] = call[d] /\ reply'[d] = reply[d]
                /\ file'[d] = file[d] /\ root'[d] = root[d]

LEMMA NotFds == Closed \notin Fds /\ NoObject \notin Fds /\ FAILED \notin Fds
  BY DEF Closed, NoObject, FAILED

LEMMA HolderFacts == /\ \A s \in Slots : s \in Holders /\ s # RootHolder /\ s # NewHolder
                     /\ RootHolder \in Holders /\ NewHolder \in Holders
                     /\ RootHolder # NewHolder
                     /\ \A t \in Holders : t = RootHolder \/ t = NewHolder \/ t \in Slots
  BY DEF Holders, RootHolder, NewHolder

LEMMA HeldBySlot ==
    ASSUME NEW c \in Clients, NEW s \in Slots
    PROVE  /\ Held(c, s) = IF Closing(c, s) THEN Closed ELSE file[c][s]
           /\ Held(c, s)' = IF Closing(c, s)' THEN Closed ELSE file'[c][s]
  BY HolderFacts DEF Held

LEMMA HeldElsewhere ==
    ASSUME NEW c \in Clients
    PROVE  /\ Held(c, RootHolder) = root[c]
           /\ Held(c, RootHolder)' = root'[c]
           /\ Held(c, NewHolder) = IF Opening(c) THEN reply[c].size ELSE Closed
           /\ Held(c, NewHolder)' = IF Opening(c)' THEN reply'[c].size ELSE Closed
  BY HolderFacts DEF Held

LEMMA AloneHeld ==
    ASSUME NEW c \in Clients, Alone(c), NEW d \in Clients \ {c}, NEW t \in Holders
    PROVE  Held(d, t)' = Held(d, t)
  BY DEF Alone, Held, Opening, Closing, Replied

LEMMA QuietKeeps ==
    ASSUME HandleIsolation, NEW c \in Clients, Alone(c), Quiet(c)
    PROVE  HandleIsolation'
  <1>1. \A d \in Clients : \A t \in Holders :
            Held(d, t)' \in Fds => Held(d, t)' = Held(d, t)
    BY AloneHeld DEF Quiet
  <1> QED
    BY <1>1 DEF HandleIsolation, Quiet

\* A client that waits for nothing, or sends, holds what its objects hold.
LEMMA NoReplyHeld ==
    ASSUME NEW c \in Clients, phase'[c] # "replied"
    PROVE  /\ ~Opening(c)' /\ \A s \in Slots : ~Closing(c, s)'
           /\ Held(c, RootHolder)' = root'[c] /\ Held(c, NewHolder)' = Closed
           /\ \A s \in Slots : Held(c, s)' = file'[c][s]
  <1>1. ~Opening(c)' /\ \A s \in Slots : ~Closing(c, s)'
    BY DEF Opening, Closing, Replied
  <1> QED
    BY <1>1, HeldBySlot, HeldElsewhere

LEMMA IdleHeld ==
    ASSUME NEW c \in Clients, phase[c] # "replied"
    PROVE  /\ ~Opening(c) /\ \A s \in Slots : ~Closing(c, s)
           /\ Held(c, RootHolder) = root[c] /\ Held(c, NewHolder) = Closed
           /\ \A s \in Slots : Held(c, s) = file[c][s]
  <1>1. ~Opening(c) /\ \A s \in Slots : ~Closing(c, s)
    BY DEF Opening, Closing, Replied
  <1> QED
    BY <1>1, HeldBySlot, HeldElsewhere

LEMMA ReturnAlone ==
    ASSUME TypeInv, NEW c \in Clients, NEW v, Return(c, v)
    PROVE  /\ phase'[c] = "idle"
           /\ \A d \in Clients \ {c} : phase'[d] = phase[d] /\ call'[d] = call[d]
                                       /\ reply'[d] = reply[d]
  BY DEF Return, TypeInv, TypeOK

LEMMA SendAlone ==
    ASSUME TypeInv, NEW c \in Clients, NEW cl, Send(c, cl)
    PROVE  /\ phase'[c] = "sent"
           /\ \A d \in Clients \ {c} : phase'[d] = phase[d] /\ call'[d] = call[d]
                                       /\ reply'[d] = reply[d]
  BY DEF Send, TypeInv, TypeOK

LEMMA AnswerAlone ==
    ASSUME TypeInv, NEW c \in Clients, NEW r, NEW n, Answer(c, r, n)
    PROVE  /\ Alone(c) /\ phase'[c] = "replied" /\ reply'[c].size = n
           /\ root' = root /\ file' = file /\ call' = call
  BY DEF Answer, Alone, TypeInv, TypeOK

LEMMA TransferAlone ==
    ASSUME TypeInv, NEW c \in Clients, NEW cl, Transfer(c, cl)
    PROVE  /\ phase'[c] # "replied"
           /\ \A d \in Clients \ {c} : phase'[d] = phase[d] /\ call'[d] = call[d]
                                       /\ reply'[d] = reply[d]
  <1>1. CASE \E v : Return(c, v)
    BY <1>1, ReturnAlone
  <1>2. CASE Send(c, cl)
    BY <1>2, SendAlone
  <1>3. CASE /\ phase' = [phase EXCEPT ![c] = "faulted"]
             /\ call' = [call EXCEPT ![c] = cl]
             /\ reply' = [reply EXCEPT ![c] = NoReply]
    BY <1>3 DEF TypeInv, TypeOK
  <1> QED
    BY <1>1, <1>2, <1>3 DEF Transfer

\* The start of a call gives up no handle and makes none.
LEMMA InvokeQuiet ==
    ASSUME TypeInv, NEW c \in Clients, Invoke(c)
    PROVE  Alone(c) /\ Quiet(c)
  <1> DEFINE OthersWait == \A d \in Clients \ {c} : /\ phase'[d] = phase[d]
                                                    /\ call'[d] = call[d]
                                                    /\ reply'[d] = reply[d]
             Started == /\ phase[c] = "idle" /\ phase'[c] # "replied"
                        /\ fdt' = fdt /\ root' = root /\ OthersWait
             Dropped == \E s \in Slots : \E x \in {file[c][s], NoObject} :
                            file' = [file EXCEPT ![c][s] = x]
  <1>1. Started /\ (file' = file \/ Dropped)
    <2>1. CASE Mount(c)
      <3>1. Send(c, [NoCall EXCEPT !.op = "mount", !.flags = {"O_DIRECTORY"}])
            \/ \E v : Return(c, v)
        BY <2>1 DEF Mount
      <3> QED
        BY <2>1, <3>1, SendAlone, ReturnAlone DEF Mount, CanCall, fsVars
    <2>2. ASSUME NEW p \in Names, NEW op \in Calls, PathCall(c, op, p)
          PROVE  Started /\ file' = file
      BY <2>2, SendAlone, ReturnAlone DEF PathCall, CanCall, fsVars
    <2>3. ASSUME NEW p \in Names, NEW q \in Names, NEW op \in Calls, TwoPathCall(c, op, p, q)
          PROVE  Started /\ file' = file
      BY <2>3, SendAlone, ReturnAlone DEF TwoPathCall, CanCall, fsVars
    <2>4. ASSUME NEW s \in Slots, NEW p \in Names, NEW fl \in OpenFlags, GetEntry(c, s, p, fl)
          PROVE  Started /\ file' = file
      BY <2>4, SendAlone, ReturnAlone DEF GetEntry, CanCall, fsVars
    <2>5. ASSUME NEW s \in Slots, NEW op \in Calls, HandleCall(c, op, s)
          PROVE  Started /\ file' = file
      BY <2>5, SendAlone DEF HandleCall, CanCall, fsVars
    <2>6. ASSUME NEW s \in Slots, NEW op \in Calls, Close(c, op, s)
          PROVE  Started /\ (file' = file \/ Dropped)
      <3>1. Started
        BY <2>6, SendAlone, ReturnAlone DEF Close, CanCall, fsVars
      <3>2. file' = file \/ file' = [file EXCEPT ![c][s] = IF op = "drop" THEN NoObject ELSE @]
        BY <2>6 DEF Close
      <3> QED
        BY <3>1, <3>2
    <2>7. ASSUME NEW s \in Slots, NEW op \in Calls, NEW iov \in Iovs, NEW p \in Offsets,
                 Vectored(c, op, s, iov, p)
          PROVE  Started /\ file' = file
      BY <2>7, TransferAlone DEF Vectored, CanCall, fsVars
    <2> HIDE DEF Started, Dropped
    <2> QED
      BY <2>1, <2>2, <2>3, <2>4, <2>5, <2>6, <2>7 DEF Invoke
  <1>2. /\ \A d \in Clients \ {c} : file'[d] = file[d]
        /\ \A s \in Slots : file'[c][s] = file[c][s] \/ file'[c][s] = NoObject
    BY <1>1 DEF TypeInv, TypeOK
  <1>3. Alone(c)
    BY <1>1, <1>2 DEF Alone
  <1>4. ASSUME NEW t \in Holders
        PROVE  Held(c, t)' = Held(c, t) \/ Held(c, t)' \notin Fds
    <2>1. CASE t \in {RootHolder, NewHolder}
      BY <1>1, <2>1, NoReplyHeld, IdleHeld
    <2>2. CASE t \in Slots
      BY <1>1, <1>2, <2>2, NoReplyHeld, IdleHeld, NotFds
    <2> QED
      BY <2>1, <2>2, HolderFacts
  <1> QED
    BY <1>1, <1>3, <1>4 DEF Quiet

LEMMA KillQuiet ==
    ASSUME TypeInv, NEW c \in Clients, Kill(c)
    PROVE  Alone(c) /\ Quiet(c)
  <1>1. /\ phase'[c] = "idle" /\ fdt' = fdt /\ root'[c] = Closed
        /\ \A s \in Slots : file'[c][s] = NoObject
    BY ReturnAlone DEF Kill, fsVars, TypeInv, TypeOK
  <1>2. Alone(c)
    BY ReturnAlone DEF Kill, Alone, TypeInv, TypeOK
  <1>3. \A t \in Holders : Held(c, t)' \notin Fds
    BY <1>1, NoReplyHeld, NotFds, HolderFacts
  <1> QED
    BY <1>1, <1>2, <1>3 DEF Quiet

\* What an object or the root holds is not touched by an answer.
LEMMA AnswerHeld ==
    ASSUME NEW c \in Clients, phase[c] # "replied", root' = root, file' = file,
           NEW t \in Holders \ {NewHolder}, t \in Slots => ~Closing(c, t)'
    PROVE  Held(c, t)' = Held(c, t)
  <1>1. CASE t = RootHolder
    BY <1>1, HeldElsewhere
  <1>2. CASE t \in Slots
    <2>1. Held(c, t)' = file'[c][t]
      BY <1>2, HeldBySlot
    <2>2. Held(c, t) = file[c][t]
      BY <1>2, IdleHeld
    <2> QED
      BY <2>1, <2>2
  <1> QED
    BY <1>1, <1>2, HolderFacts

\* An answer that is neither to an open nor to a close is quiet.
LEMMA AnswerQuiet ==
    ASSUME TypeInv, NEW c \in Clients, NEW r, NEW n, Answer(c, r, n), phase[c] = "sent",
           call[c].op \notin {"get_entry", "close", "drop"},
           call[c].op = "mount" => call[c].i # 2, fdt' = fdt
    PROVE  Alone(c) /\ Quiet(c)
  <1>1. /\ Alone(c) /\ phase'[c] = "replied" /\ root' = root /\ file' = file /\ call' = call
    BY AnswerAlone
  <1>2. ~Opening(c)' /\ \A s \in Slots : ~Closing(c, s)'
    BY <1>1 DEF Opening, Closing, Replied
  <1>3. \A t \in Holders \ {NewHolder} : Held(c, t)' = Held(c, t)
    BY <1>1, <1>2, AnswerHeld
  <1>4. Held(c, NewHolder)' \notin Fds
    BY <1>2, HeldElsewhere, NotFds
  <1> QED
    BY <1>1, <1>3, <1>4 DEF Quiet

LEMMA DispatchQuiet ==
    ASSUME TypeInv, NEW c \in Clients, Dispatch(c), ~SrvOpen(c), ~SrvClose(c)
    PROVE  Alone(c) /\ Quiet(c)
  <1>1. SrvInit(c) => /\ Answer(c, 0, 0) /\ Serving(c, "mount") /\ call[c].i = 1
                      /\ fdt' = fdt
    BY DEF SrvInit, fsVars
  <1>2. SrvPread(c) => (\E r, n : Answer(c, r, n)) /\ Serving(c, "preadv") /\ fdt' = fdt
    BY DEF SrvPread, fsVars
  <1>3. SrvPwrite(c) => (\E r, n : Answer(c, r, n)) /\ Serving(c, "pwritev") /\ fdt' = fdt
    BY DEF SrvPwrite
  <1>4. SrvFstat64(c) => (\E r, n : Answer(c, r, n)) /\ Serving(c, "fstat64") /\ fdt' = fdt
    BY DEF SrvFstat64, fsVars
  <1>5. SrvDataspace(c) => Answer(c, 0, 0) /\ Serving(c, "data_space") /\ fdt' = fdt
    BY DEF SrvDataspace, fsVars
  <1>6. SrvRename(c) => (\E r, n : Answer(c, r, n)) /\ Serving(c, "rename") /\ fdt' = fdt
    BY DEF SrvRename
  <1>7. SrvUnlink(c) => (\E r, n : Answer(c, r, n)) /\ Serving(c, "unlink") /\ fdt' = fdt
    BY DEF SrvUnlink, SrvRemove
  <1>8. SrvRmdir(c) => (\E r, n : Answer(c, r, n)) /\ Serving(c, "rmdir") /\ fdt' = fdt
    BY DEF SrvRmdir, SrvRemove
  <1>9. SrvMkdir(c) => (\E r, n : Answer(c, r, n)) /\ Serving(c, "mkdir") /\ fdt' = fdt
    BY DEF SrvMkdir, fsVars
  <1>10. SrvUnimplemented(c) =>
            /\ Answer(c, ENOSYS, 0) /\ fdt' = fdt
            /\ \E op \in {"link", "symlink", "readlink", "fsync", "ftruncate64"} : Serving(c, op)
    BY DEF SrvUnimplemented, fsVars
  <1>11. PICK r, n : Answer(c, r, n)
    BY <1>1, <1>2, <1>3, <1>4, <1>5, <1>6, <1>7, <1>8, <1>9, <1>10 DEF Dispatch
  <1>12. /\ phase[c] = "sent" /\ fdt' = fdt
         /\ call[c].op \notin {"get_entry", "close", "drop"}
    BY <1>1, <1>2, <1>3, <1>4, <1>5, <1>6, <1>7, <1>8, <1>9, <1>10 DEF Dispatch, Serving
  <1>13. call[c].op = "mount" => call[c].i # 2
    <2>1. call[c].op = "mount" => call[c].i = 1
      BY <1>1, <1>2, <1>3, <1>4, <1>5, <1>6, <1>7, <1>8, <1>9, <1>10 DEF Dispatch, Serving
    <2> QED
      BY <2>1
  <1> QED
    BY <1>11, <1>12, <1>13, AnswerQuiet

\* What the server's open does to the handles: nothing, or a new holder.
LEMMA SrvOpenHandles ==
    ASSUME TypeInv, NEW c \in Clients, SrvOpen(c)
    PROVE  /\ Alone(c)
           /\ \A t \in Holders \ {NewHolder} : Held(c, t)' = Held(c, t)
           /\ \/ fdt' = fdt /\ Held(c, NewHolder)' \notin Fds
              \/ \E f \in Fds : /\ fdt[f] = NoIno
                                /\ \E i \in Inodes : fdt' = [fdt EXCEPT ![f] = i]
                                /\ Held(c, NewHolder)' = f
  <1>1. /\ phase[c] = "sent"
        /\ call[c].op = "get_entry" \/ (call[c].op = "mount" /\ call[c].i = 2)
    BY DEF SrvOpen, Serving
  <1>2. call[c].name \in Names /\ dirent \in [Names -> Inodes \cup {NoIno}]
    BY DEF TypeInv, TypeOK, Requests
  <1>3. \/ Answer(c, 0, FAILED) /\ fdt' = fdt
        \/ \E f \in Fds : /\ fdt[f] = NoIno /\ Answer(c, 0, f)
                          /\ \E i \in Inodes : fdt' = [fdt EXCEPT ![f] = i]
    BY <1>2 DEF SrvOpen, LowestFree, FreeInodes, fsVars
  <1>4. PICK n : Answer(c, 0, n) /\ (\/ n = FAILED /\ fdt' = fdt
                                     \/ /\ n \in Fds /\ fdt[n] = NoIno
                                        /\ \E i \in Inodes : fdt' = [fdt EXCEPT ![n] = i])
    BY <1>3
  <1>5. /\ Alone(c) /\ phase'[c] = "replied" /\ reply'[c].size = n
        /\ root' = root /\ file' = file /\ call' = call
    BY <1>4, AnswerAlone
  <1>6. Opening(c)' /\ \A s \in Slots : ~Closing(c, s)'
    BY <1>1, <1>5 DEF Opening, Closing, Replied
  <1>7. Held(c, NewHolder)' = n
    BY <1>5, <1>6, HeldElsewhere
  <1>8. \A t \in Holders \ {NewHolder} : Held(c, t)' = Held(c, t)
    BY <1>1, <1>5, <1>6, AnswerHeld
  <1> QED
    BY <1>4, <1>5, <1>7, <1>8, NotFds

LEMMA SrvOpenKeeps ==
    ASSUME TypeInv, HandleIsolation, NEW c \in Clients, SrvOpen(c)
    PROVE  HandleIsolation'
  <1>1. /\ Alone(c)
        /\ \A t \in Holders \ {NewHolder} : Held(c, t)' = Held(c, t)
    BY SrvOpenHandles
  <1>2. CASE fdt' = fdt /\ Held(c, NewHolder)' \notin Fds
    BY <1>1, <1>2, QuietKeeps DEF Quiet
  <1>3. CASE \E f \in Fds : /\ fdt[f] = NoIno
                            /\ \E i \in Inodes : fdt' = [fdt EXCEPT ![f] = i]
                            /\ Held(c, NewHolder)' = f
    <2>1. PICK f \in Fds : /\ fdt[f] = NoIno
                           /\ \E i \in Inodes : fdt' = [fdt EXCEPT ![f] = i]
                           /\ Held(c, NewHolder)' = f
      BY <1>3
    <2>2. \A g \in Fds : fdt'[g] # NoIno <=> g = f \/ fdt[g] # NoIno
      BY <2>1 DEF TypeInv, TypeOK
    <2>3. \A d \in Clients, t \in Holders : <<d, t>> # <<c, NewHolder>> =>
              Held(d, t)' = Held(d, t) /\ Held(d, t) # f
      <3>1. \A d \in Clients, t \in Holders : Held(d, t) # f
        BY <2>1 DEF HandleIsolation
      <3> QED
        BY <1>1, <3>1, AloneHeld
    <2>4. ASSUME NEW d \in Clients, NEW e \in Clients, NEW t \in Holders, NEW u \in Holders,
                 Held(d, t)' \in Fds
          PROVE  /\ fdt'[Held(d, t)'] # NoIno
                 /\ <<d, t>> # <<e, u>> => Held(d, t)' # Held(e, u)'
      <3>1. CASE <<d, t>> = <<c, NewHolder>>
        BY <2>1, <2>2, <2>3, <3>1
      <3>2. CASE <<d, t>> # <<c, NewHolder>>
        <4>1. Held(d, t)' = Held(d, t) /\ Held(d, t) # f /\ Held(d, t) \in Fds
          BY <2>3, <2>4, <3>2
        <4>2. fdt'[Held(d, t)'] # NoIno
          BY <2>2, <4>1 DEF HandleIsolation
        <4>3. CASE <<e, u>> = <<c, NewHolder>>
          BY <2>1, <4>1, <4>2, <4>3
        <4>4. CASE <<e, u>> # <<c, NewHolder>>
          <5>1. Held(e, u)' = Held(e, u)
            BY <2>3, <4>4
          <5> QED
            BY <4>1, <4>2, <5>1 DEF HandleIsolation
        <4> QED
          BY <4>3, <4>4
      <3> QED
        BY <3>1, <3>2
    <2> QED
      BY <2>4 DEF HandleIsolation
  <1> QED
    BY <1>2, <1>3, SrvOpenHandles

\* The server's close takes the handle away from the one object that has it.
LEMMA SrvCloseHandles ==
    ASSUME TypeInv, HandleIsolation, NEW c \in Clients, SrvClose(c)
    PROVE  /\ Alone(c)
           /\ \E s \in Slots :
                 /\ Held(c, s) \in Fds /\ Held(c, s)' = Closed
                 /\ \A t \in Holders \ {s} : Held(c, t)' = Held(c, t)
                 /\ fdt' = [fdt EXCEPT ![Held(c, s)] = NoIno]
  <1>1. phase[c] = "sent" /\ call[c].op \in {"close", "drop"}
    BY DEF SrvClose, Serving
  <1>2. PICK s \in Slots : s = call[c].slot /\ file[c][s] \in Fds
    BY <1>1 DEF TypeInv, CallShapes, CallShape, ObjectCall
  <1>3. Held(c, s) = file[c][s]
    BY <1>1, <1>2, IdleHeld
  <1>4. fdt[file[c][s]] # NoIno
    BY <1>2, <1>3, HolderFacts DEF HandleIsolation
  <1>5. fdt' = [fdt EXCEPT ![file[c][s]] = NoIno] /\ Answer(c, 0, 0)
    BY <1>2, <1>4 DEF SrvClose, NodeOf, Fh
  <1>6. /\ Alone(c) /\ phase'[c] = "replied" /\ root' = root /\ file' = file /\ call' = call
    BY <1>5, AnswerAlone
  <1>7. ~Opening(c)' /\ Closing(c, s)' /\ \A t \in Slots \ {s} : ~Closing(c, t)'
    BY <1>1, <1>2, <1>6 DEF Opening, Closing, Replied
  <1>8. Held(c, s)' = Closed
    BY <1>2, <1>7, HeldBySlot
  <1>9. ASSUME NEW t \in Holders \ {s}
        PROVE  Held(c, t)' = Held(c, t)
    <2>1. CASE t = NewHolder
      BY <1>1, <1>7, <2>1, HeldElsewhere, IdleHeld
    <2>2. CASE t # NewHolder
      BY <1>1, <1>6, <1>7, <2>2, AnswerHeld
    <2> QED
      BY <2>1, <2>2
  <1>10. fdt' = [fdt EXCEPT ![Held(c, s)] = NoIno] /\ Held(c, s) \in Fds
    BY <1>2, <1>3, <1>5
  <1> QED
    BY <1>2, <1>6, <1>8, <1>9, <1>10

LEMMA SrvCloseKeeps ==
    ASSUME TypeInv, HandleIsolation, NEW c \in Clients, SrvClose(c)
    PROVE  HandleIsolation'
  <1>1. Alone(c)
    BY SrvCloseHandles
  <1>2. PICK s \in Slots : /\ Held(c, s) \in Fds /\ Held(c, s)' = Closed
                           /\ \A t \in Holders \ {s} : Held(c, t)' = Held(c, t)
                           /\ fdt' = [fdt EXCEPT ![Held(c, s)] = NoIno]
    BY SrvCloseHandles
  <1>3. s \in Holders
    BY HolderFacts
  <1>4. ASSUME NEW d \in Clients, NEW t \in Holders, Held(d, t)' \in Fds
        PROVE  /\ Held(d, t)' = Held(d, t) /\ Held(d, t) # Held(c, s)
    <2>1. <<d, t>> # <<c, s>>
      BY <1>2, <1>4, NotFds
    <2>2. Held(d, t)' = Held(d, t)
      BY <1>1, <1>2, <2>1, AloneHeld
    <2> QED
      BY <1>3, <1>4, <2>1, <2>2 DEF HandleIsolation
  <1>5. \A g \in Fds : g # Held(c, s) => fdt'[g] = fdt[g]
    BY <1>2 DEF TypeInv, TypeOK
  <1>6. ASSUME NEW d \in Clients, NEW e \in Clients, NEW t \in Holders, NEW u \in Holders,
               Held(d, t)' \in Fds
        PROVE  /\ fdt'[Held(d, t)'] # NoIno
               /\ <<d, t>> # <<e, u>> => Held(d, t)' # Held(e, u)'
    <2>1. Held(d, t)' = Held(d, t) /\ Held(d, t) # Held(c, s)
      BY <1>4, <1>6
    <2>2. fdt'[Held(d, t)'] # NoIno
      BY <1>5, <1>6, <2>1 DEF HandleIsolation
    <2>3. Held(e, u)' \in Fds => Held(e, u)' = Held(e, u)
      BY <1>4
    <2>4. <<d, t>> # <<e, u>> => Held(d, t) # Held(e, u)
      BY <1>6, <2>1 DEF HandleIsolation
    <2> QED
      BY <1>6, <2>1, <2>2, <2>3, <2>4
  <1> QED
    BY <1>6 DEF HandleIsolation

\* Replies that neither open nor close, and opens that fail, hold nothing new.
LEMMA ReplyQuiet ==
    ASSUME TypeInv, NEW c \in Clients, phase[c] = "replied", phase'[c] # "replied",
           root' = root, fdt' = fdt,
           \A d \in Clients \ {c} : /\ phase'[d] = phase[d] /\ call'[d] = call[d]
                                    /\ reply'[d] = reply[d] /\ file'[d] = file[d],
           \A s \in Slots : file'[c][s] = Held(c, s) \/ file'[c][s] \notin Fds
    PROVE  Alone(c) /\ Quiet(c)
  <1>1. Alone(c)
    BY DEF Alone
  <1>2. ASSUME NEW t \in Holders
        PROVE  Held(c, t)' = Held(c, t) \/ Held(c, t)' \notin Fds
    <2>1. CASE t = RootHolder
      BY <2>1, HeldElsewhere
    <2>2. CASE t = NewHolder
      BY <2>2, NoReplyHeld, NotFds
    <2>3. CASE t \in Slots
      BY <2>3, NoReplyHeld
    <2> QED
      BY <2>1, <2>2, <2>3, HolderFacts
  <1> QED
    BY <1>1, <1>2 DEF Quiet

\* A client whose reply is not to a close holds what its objects hold.
LEMMA NotClosingHeld ==
    ASSUME NEW c \in Clients, call[c].op \notin {"close", "drop"}, NEW s \in Slots
    PROVE  Held(c, s) = file[c][s]
  <1>1. ~Closing(c, s)
    BY DEF Closing, Replied
  <1> QED
    BY <1>1, HeldBySlot

LEMMA PlainReplyQuiet ==
    ASSUME TypeInv, NEW c \in Clients, PlainReply(c) \/ TransferReply(c)
    PROVE  Alone(c) /\ Quiet(c)
  <1> DEFINE Others == \A d \in Clients \ {c} : /\ phase'[d] = phase[d] /\ call'[d] = call[d]
                                                /\ reply'[d] = reply[d]
  <1>1. /\ phase[c] = "replied" /\ call[c].op \notin {"close", "drop"}
        /\ root' = root /\ file' = file /\ fdt' = fdt
    BY DEF PlainReply, TransferReply, Replied, fsVars
  <1>2. phase'[c] # "replied" /\ Others
    <2>1. CASE PlainReply(c)
      BY <2>1, ReturnAlone DEF PlainReply
    <2>2. CASE TransferReply(c)
      BY <2>2, ReturnAlone, TransferAlone DEF TransferReply
    <2> QED
      BY <2>1, <2>2
  <1>3. \A s \in Slots : file'[c][s] = Held(c, s)
    BY <1>1, NotClosingHeld
  <1> QED
    BY <1>1, <1>2, <1>3, ReplyQuiet

LEMMA CloseReplyQuiet ==
    ASSUME TypeInv, NEW c \in Clients, CloseReply(c)
    PROVE  Alone(c) /\ Quiet(c)
  <1>1. /\ phase[c] = "replied" /\ call[c].op \in {"close", "drop"}
        /\ root' = root /\ fdt' = fdt
    BY DEF CloseReply, Replied, fsVars
  <1>2. PICK o \in Slots, x \in {Closed, NoObject} :
            o = call[c].slot /\ file' = [file EXCEPT ![c][o] = x]
    BY <1>1 DEF CloseReply, TypeInv, CallShapes, CallShape, ObjectCall
  <1>3. /\ \A d \in Clients \ {c} : file'[d] = file[d]
        /\ file'[c][o] \notin Fds
        /\ \A s \in Slots \ {o} : file'[c][s] = file[c][s]
    BY <1>2, NotFds DEF TypeInv, TypeOK
  <1>4. ASSUME NEW s \in Slots \ {o}
        PROVE  Held(c, s) = file[c][s]
    BY <1>2, HeldBySlot DEF Closing
  <1>5. \A s \in Slots : file'[c][s] = Held(c, s) \/ file'[c][s] \notin Fds
    BY <1>3, <1>4
  <1>6. PICK v : Return(c, v)
    BY DEF CloseReply
  <1>7. /\ phase'[c] = "idle"
        /\ \A d \in Clients \ {c} : phase'[d] = phase[d] /\ call'[d] = call[d]
                                     /\ reply'[d] = reply[d]
    BY <1>6, ReturnAlone
  <1> QED
    BY <1>1, <1>3, <1>5, <1>7, ReplyQuiet

\* A new handle moves from the reply to the object or to the root directory.
LEMMA MoveKeeps ==
    ASSUME HandleIsolation, NEW c \in Clients, Alone(c), fdt' = fdt,
           NEW h \in Holders \ {NewHolder},
           Held(c, h)' = Held(c, NewHolder), Held(c, NewHolder)' \notin Fds,
           \A t \in Holders \ {h, NewHolder} : Held(c, t)' = Held(c, t)
    PROVE  HandleIsolation'
  <1>1. NewHolder \in Holders
    BY HolderFacts
  <1>2. ASSUME NEW d \in Clients, NEW t \in Holders, Held(d, t)' \in Fds, <<d, t>> # <<c, h>>
        PROVE  Held(d, t)' = Held(d, t) /\ <<d, t>> # <<c, NewHolder>>
    BY <1>2, AloneHeld
  <1>3. ASSUME NEW d \in Clients, NEW e \in Clients, NEW t \in Holders, NEW u \in Holders,
               Held(d, t)' \in Fds
        PROVE  /\ fdt'[Held(d, t)'] # NoIno
               /\ <<d, t>> # <<e, u>> => Held(d, t)' # Held(e, u)'
    <2>1. CASE <<d, t>> = <<c, h>>
      <3>1. Held(c, NewHolder) \in Fds /\ Held(d, t)' = Held(c, NewHolder)
        BY <1>3, <2>1
      <3>2. fdt'[Held(d, t)'] # NoIno
        BY <1>1, <3>1 DEF HandleIsolation
      <3>3. ASSUME <<e, u>> # <<c, h>>, Held(e, u)' \in Fds
            PROVE  Held(e, u)' # Held(c, NewHolder)
        <4>1. Held(e, u)' = Held(e, u) /\ <<e, u>> # <<c, NewHolder>>
          BY <1>2, <3>3
        <4> QED
          BY <1>1, <3>1, <4>1 DEF HandleIsolation
      <3> QED
        BY <2>1, <3>1, <3>2, <3>3
    <2>2. CASE <<d, t>> # <<c, h>>
      <3>1. Held(d, t)' = Held(d, t) /\ Held(d, t) \in Fds /\ <<d, t>> # <<c, NewHolder>>
        BY <1>2, <1>3, <2>2
      <3>2. fdt'[Held(d, t)'] # NoIno
        BY <3>1 DEF HandleIsolation
      <3>3. CASE <<e, u>> = <<c, h>>
        <4>1. Held(d, t) # Held(c, NewHolder)
          BY <1>1, <3>1 DEF HandleIsolation
        <4> QED
          BY <3>1, <3>2, <3>3, <4>1
      <3>4. CASE <<e, u>> # <<c, h>>
        <4>1. Held(e, u)' \in Fds => Held(e, u)' = Held(e, u)
          BY <1>2, <3>4
        <4>2. <<d, t>> # <<e, u>> => Held(d, t) # Held(e, u)
          BY <3>1 DEF HandleIsolation
        <4> QED
          BY <1>3, <3>1, <3>2, <4>1, <4>2
      <3> QED
        BY <3>3, <3>4
    <2> QED
      BY <2>1, <2>2
  <1> QED
    BY <1>3 DEF HandleIsolation

LEMMA MountReplyKeeps ==
    ASSUME TypeInv, HandleIsolation, NEW c \in Clients, MountReply(c)
    PROVE  HandleIsolation'
  <1> DEFINE Others == \A d \in Clients \ {c} : /\ phase'[d] = phase[d] /\ call'[d] = call[d]
                                                /\ reply'[d] = reply[d] /\ file'[d] = file[d]
  <1>1. /\ phase[c] = "replied" /\ call[c].op = "mount" /\ file' = file /\ fdt' = fdt
    BY DEF MountReply, Replied, fsVars
  <1>2. phase'[c] # "replied" /\ Others
    BY <1>1, ReturnAlone, SendAlone DEF MountReply
  <1>3. \A s \in Slots : file'[c][s] = Held(c, s)
    BY <1>1, NotClosingHeld
  <1>4. CASE root' = root
    <2>1. Alone(c) /\ Quiet(c)
      BY <1>1, <1>2, <1>3, <1>4, ReplyQuiet
    <2> QED
      BY <2>1, QuietKeeps
  <1>5. CASE call[c].i = 2 /\ root' = [root EXCEPT ![c] = reply[c].size]
    <2>1. root'[c] = reply[c].size /\ \A d \in Clients \ {c} : root'[d] = root[d]
      BY <1>5 DEF TypeInv, TypeOK
    <2>2. Alone(c)
      BY <1>2, <2>1 DEF Alone
    <2>3. Opening(c)
      BY <1>1, <1>5 DEF Opening, Replied
    <2>4. Held(c, RootHolder)' = Held(c, NewHolder)
      BY <2>1, <2>3, HeldElsewhere
    <2>5. Held(c, NewHolder)' \notin Fds
      BY <1>2, NoReplyHeld, NotFds
    <2>6. ASSUME NEW t \in Holders \ {RootHolder, NewHolder}
          PROVE  Held(c, t)' = Held(c, t)
      <3>1. t \in Slots
        BY HolderFacts
      <3> QED
        BY <1>2, <1>3, <3>1, NoReplyHeld
    <2>7. RootHolder \in Holders \ {NewHolder}
      BY HolderFacts
    <2> HIDE DEF Others
    <2> QED
      BY <1>1, <2>2, <2>4, <2>5, <2>6, <2>7, MoveKeeps
  <1> QED
    BY <1>4, <1>5 DEF MountReply

LEMMA GetEntryReplyKeeps ==
    ASSUME TypeInv, HandleIsolation, NEW c \in Clients, GetEntryReply(c)
    PROVE  HandleIsolation'
  <1>1. /\ phase[c] = "replied" /\ call[c].op = "get_entry" /\ root' = root /\ fdt' = fdt
    BY DEF GetEntryReply, Replied, fsVars
  <1>2. PICK v : Return(c, v)
    BY DEF GetEntryReply
  <1>3. /\ phase'[c] = "idle"
        /\ \A d \in Clients \ {c} : phase'[d] = phase[d] /\ call'[d] = call[d]
                                     /\ reply'[d] = reply[d]
    BY <1>2, ReturnAlone
  <1>4. CASE file' = file
    <2>1. \A s \in Slots : file'[c][s] = Held(c, s)
      BY <1>1, <1>4, NotClosingHeld
    <2>2. Alone(c) /\ Quiet(c)
      BY <1>1, <1>3, <1>4, <2>1, ReplyQuiet
    <2> QED
      BY <2>2, QuietKeeps
  <1>5. CASE file' = [file EXCEPT ![c][call[c].slot] = reply[c].size]
    <2>1. PICK o \in Slots : o = call[c].slot
      BY <1>1 DEF TypeInv, CallShapes, CallShape
    <2>2. /\ file'[c][o] = reply[c].size
          /\ \A s \in Slots \ {o} : file'[c][s] = file[c][s]
          /\ \A d \in Clients \ {c} : file'[d] = file[d]
      BY <1>5, <2>1 DEF TypeInv, TypeOK
    <2>3. Alone(c)
      BY <1>1, <1>3, <2>2 DEF Alone
    <2>4. Opening(c)
      BY <1>1 DEF Opening, Replied
    <2>5. Held(c, o)' = Held(c, NewHolder)
      BY <1>3, <2>2, <2>4, HeldElsewhere, NoReplyHeld
    <2>6. Held(c, NewHolder)' \notin Fds
      BY <1>3, NoReplyHeld, NotFds
    <2>7. ASSUME NEW t \in Holders \ {o, NewHolder}
          PROVE  Held(c, t)' = Held(c, t)
      <3>1. CASE t = RootHolder
        BY <1>1, <3>1, HeldElsewhere
      <3>2. CASE t \in Slots
        <4>1. Held(c, t)' = file'[c][t]
          BY <1>3, <3>2, NoReplyHeld
        <4>2. Held(c, t) = file[c][t]
          BY <1>1, <3>2, NotClosingHeld
        <4> QED
          BY <2>2, <3>2, <4>1, <4>2
      <3> QED
        BY <3>1, <3>2, HolderFacts
    <2>8. o \in Holders \ {NewHolder}
      BY HolderFacts
    <2> QED
      BY <1>1, <2>3, <2>5, <2>6, <2>7, <2>8, MoveKeeps
  <1> QED
    BY <1>4, <1>5 DEF GetEntryReply

LEMMA HandleInit == Init => HandleIsolation
  <1> SUFFICES ASSUME Init PROVE HandleIsolation
    OBVIOUS
  <1>1. ASSUME NEW c \in Clients, NEW t \in Holders
        PROVE  Held(c, t) \notin Fds
    BY <1>1, NotFds, IdleHeld, HolderFacts DEF Init
  <1> QED
    BY <1>1 DEF HandleIsolation

LEMMA HandleStep == TypeInv /\ HandleIsolation /\ [Next]_vars => HandleIsolation'
  <1> SUFFICES ASSUME TypeInv, HandleIsolation, [Next]_vars
               PROVE  HandleIsolation'
    OBVIOUS
  <1>1. CASE UNCHANGED vars
    BY <1>1 DEF vars, HandleIsolation, Held, Opening, Closing, Replied
  <1>2. ASSUME NEW c \in Clients, Invoke(c) PROVE HandleIsolation'
    BY <1>2, InvokeQuiet, QuietKeeps
  <1>3. ASSUME NEW c \in Clients, Dispatch(c) PROVE HandleIsolation'
    BY <1>3, DispatchQuiet, QuietKeeps, SrvOpenKeeps, SrvCloseKeeps
  <1>4. ASSUME NEW c \in Clients, TakeReply(c) PROVE HandleIsolation'
    BY <1>4, MountReplyKeeps, GetEntryReplyKeeps, PlainReplyQuiet, CloseReplyQuiet, QuietKeeps
       DEF TakeReply
  <1>5. ASSUME NEW c \in Clients, Kill(c) PROVE HandleIsolation'
    BY <1>5, KillQuiet, QuietKeeps
  <1> QED
    BY <1>1, <1>2, <1>3, <1>4, <1>5 DEF Next

\* Handles of file objects are isolated, for any number of clients, objects,
\* descriptors and files: no close(), destructor or killed client makes a live
\* object refer to a descriptor that the server has closed or given away.
THEOREM HandlesIsolated == Spec => []HandleIsolation
  <1>1. Init => HandleIsolation
    BY HandleInit
  <1>2. TypeInv /\ HandleIsolation /\ [Next]_vars => HandleIsolation'
    BY HandleStep
  <1> QED
    BY <1>1, <1>2, TypeInvHolds, PTL DEF Spec

\* Only open and close change the descriptor table; the one takes a
\* descriptor that nobody holds, the other one that its holder gives up.
LEMMA FdtSteps ==
    ASSUME TypeInv, HandleIsolation, [Next]_vars,
           NEW d \in Clients, NEW t \in Holders,
           Held(d, t) \in Fds, Held(d, t)' = Held(d, t)
    PROVE  fdt'[Held(d, t)] = fdt[Held(d, t)]
  <1>1. ASSUME NEW c \in Clients, SrvOpen(c)
        PROVE  fdt'[Held(d, t)] = fdt[Held(d, t)]
    <2>1. CASE fdt' = fdt
      BY <2>1
    <2>2. CASE \E f \in Fds : /\ fdt[f] = NoIno
                              /\ \E i \in Inodes : fdt' = [fdt EXCEPT ![f] = i]
      <3>1. PICK f \in Fds : /\ fdt[f] = NoIno
                             /\ \E i \in Inodes : fdt' = [fdt EXCEPT ![f] = i]
        BY <2>2
      <3>2. Held(d, t) # f
        BY <3>1 DEF HandleIsolation
      <3> QED
        BY <3>1, <3>2 DEF TypeInv, TypeOK
    <2> QED
      BY <1>1, <2>1, <2>2, SrvOpenHandles
  <1>2. ASSUME NEW c \in Clients, SrvClose(c)
        PROVE  fdt'[Held(d, t)] = fdt[Held(d, t)]
    <2>1. PICK s \in Slots : /\ Held(c, s) \in Fds /\ Held(c, s)' = Closed
                             /\ fdt' = [fdt EXCEPT ![Held(c, s)] = NoIno]
      BY <1>2, SrvCloseHandles
    <2>2. <<d, t>> # <<c, s>>
      BY <2>1, NotFds
    <2>3. Held(d, t) # Held(c, s)
      BY <2>2, HolderFacts DEF HandleIsolation
    <2> QED
      BY <2>1, <2>3 DEF TypeInv, TypeOK
  <1>3. ASSUME NEW c \in Clients, Dispatch(c), ~SrvOpen(c), ~SrvClose(c)
        PROVE  fdt' = fdt
    BY <1>3, DispatchQuiet DEF Quiet
  <1>4. ASSUME NEW c \in Clients, Invoke(c) \/ Kill(c)
        PROVE  fdt' = fdt
    BY <1>4, InvokeQuiet, KillQuiet DEF Quiet
  <1>5. ASSUME NEW c \in Clients, TakeReply(c)
        PROVE  fdt' = fdt
    BY <1>5 DEF TakeReply, MountReply, GetEntryReply, CloseReply, PlainReply,
                TransferReply, fsVars
  <1>6. CASE UNCHANGED vars
    BY <1>6 DEF vars
  <1> QED
    BY <1>1, <1>2, <1>3, <1>4, <1>5, <1>6 DEF Next

\* A handle names the same file for as long as a client holds it, whatever the
\* other clients open, close, rename or remove.
THEOREM HandlesStable == Spec => StableHandles
  <1>1. TypeInv /\ HandleIsolation /\ [Next]_vars =>
            [\A c \in Clients : \A t \in Holders :
                Held(c, t) \in Fds /\ Held(c, t)' = Held(c, t)
                    => fdt'[Held(c, t)] = fdt[Held(c, t)]]_vars
    BY FdtSteps
  <1> QED
    BY <1>1, TypeInvHolds, HandlesIsolated, PTL DEF Spec, StableHandles

-----------------------------------------------------------------------------
(* The shared buffer.  A client that has the server for itself finds in the *)
(* buffer what it put there.                                                *)

LEMMA RequestGone ==
    ASSUME NEW c \in Clients, phase'[c] # "sent" \/ call'[c].op \notin {"pwritev", "rename"}
    PROVE  RequestInBuffer(c)'
  BY DEF RequestInBuffer, Serving

LEMMA SentCall ==
    ASSUME TypeInv, NEW c \in Clients, NEW cl, Send(c, cl)
    PROVE  call'[c] = cl
  BY DEF Send, TypeInv, TypeOK

LEMMA TransferForwards ==
    ASSUME TypeInv, NEW c \in Clients, NEW cl \in Requests,
           cl.op \in {"preadv", "pwritev"}, Transfer(c, cl)
    PROVE  RequestInBuffer(c)'
  <1>1. CASE phase'[c] # "sent"
    BY <1>1, RequestGone
  <1>2. CASE Send(c, cl) /\ cl.op = "preadv"
    BY <1>2, SentCall, RequestGone
  <1>3. CASE /\ Send(c, cl) /\ cl.op = "pwritev" /\ cl.i <= Len(cl.iov)
             /\ Len(cl.iov[cl.i]) <= MaxBuf /\ rwBuf' = Overlay(rwBuf, cl.iov[cl.i])
    <2>1. call'[c] = cl
      BY <1>3, SentCall
    <2>2. cl.iov[cl.i] \in Seq(Cells)
      BY <1>3 DEF Requests, Buffers
    <2>3. \A k \in 1..Len(cl.iov[cl.i]) : rwBuf'[k] = cl.iov[cl.i][k]
      BY <1>3, <2>2 DEF Overlay
    <2>4. Serving(c, "pwritev")' => \A k \in 1..Len(cl.iov[cl.i]) : rwBuf'[k] = cl.iov[cl.i][k]
      BY <2>3
    <2>5. ~Serving(c, "rename")'
      BY <1>3, <2>1 DEF Serving
    <2> QED
      BY <2>1, <2>4, <2>5 DEF RequestInBuffer
  <1>4. (\E v : Return(c, v)) => phase'[c] # "sent"
    BY ReturnAlone
  <1>5. phase' = [phase EXCEPT ![c] = "faulted"] => phase'[c] # "sent"
    BY DEF TypeInv, TypeOK
  <1> QED
    BY <1>1, <1>2, <1>3, <1>4, <1>5 DEF Transfer

LEMMA InvokeForwards ==
    ASSUME TypeInv, NEW c \in Clients, Invoke(c)
    PROVE  RequestInBuffer(c)'
  <1>1. CASE Mount(c)
    <2>1. CASE \E v : Return(c, v)
      BY <2>1, ReturnAlone, RequestGone
    <2>2. CASE Send(c, [NoCall EXCEPT !.op = "mount", !.flags = {"O_DIRECTORY"}])
      <3>1. call'[c].op = "mount"
        BY <2>2, SentCall DEF NoCall
      <3> QED
        BY <3>1, RequestGone
    <2> QED
      BY <1>1, <2>1, <2>2 DEF Mount
  <1>2. ASSUME NEW p \in Names, NEW op \in Calls, PathCall(c, op, p)
        PROVE  RequestInBuffer(c)'
    <2>1. CASE \E v : Return(c, v)
      BY <2>1, ReturnAlone, RequestGone
    <2>2. CASE Send(c, [NoCall EXCEPT !.op = op, !.name = p])
      <3>1. call'[c].op = op
        BY <2>2, SentCall DEF NoCall
      <3> QED
        BY <1>2, <3>1, RequestGone DEF PathCall
    <2> QED
      BY <1>2, <2>1, <2>2 DEF PathCall
  <1>3. ASSUME NEW p \in Names, NEW q \in Names, NEW op \in Calls, TwoPathCall(c, op, p, q)
        PROVE  RequestInBuffer(c)'
    <2>1. CASE \E v : Return(c, v)
      BY <2>1, ReturnAlone, RequestGone
    <2>2. CASE /\ Send(c, [NoCall EXCEPT !.op = op, !.name = p, !.to = q])
               /\ rwBuf' = Overlay(rwBuf, <<q>>)
      <3>1. call'[c].op = op /\ call'[c].to = q
        BY <2>2, SentCall DEF NoCall
      <3>2. rwBuf'[1] = q
        BY <2>2 DEF Overlay
      <3>3. op # "pwritev"
        BY <1>3 DEF TwoPathCall
      <3> QED
        BY <3>1, <3>2, <3>3 DEF RequestInBuffer, Serving
    <2> QED
      BY <1>3, <2>1, <2>2 DEF TwoPathCall
  <1>4. ASSUME NEW s \in Slots, NEW p \in Names, NEW fl \in OpenFlags, GetEntry(c, s, p, fl)
        PROVE  RequestInBuffer(c)'
    <2>1. CASE \E v : Return(c, v)
      BY <2>1, ReturnAlone, RequestGone
    <2>2. CASE \E g : Send(c, [NoCall EXCEPT !.op = "get_entry", !.slot = s, !.name = p,
                                            !.flags = g])
      <3>1. call'[c].op = "get_entry"
        BY <2>2, SentCall DEF NoCall
      <3> QED
        BY <3>1, RequestGone
    <2> QED
      BY <1>4, <2>1, <2>2 DEF GetEntry
  <1>5. ASSUME NEW s \in Slots, NEW op \in Calls, HandleCall(c, op, s) \/ Close(c, op, s)
        PROVE  RequestInBuffer(c)'
    <2>1. CASE \E v : Return(c, v)
      BY <2>1, ReturnAlone, RequestGone
    <2>2. CASE Send(c, [NoCall EXCEPT !.op = op, !.slot = s])
      <3>1. call'[c].op = op
        BY <2>2, SentCall DEF NoCall
      <3> QED
        BY <1>5, <3>1, RequestGone DEF HandleCall, Close
    <2> QED
      BY <1>5, <2>1, <2>2 DEF HandleCall, Close
  <1>6. ASSUME NEW s \in Slots, NEW op \in Calls, NEW iov \in Iovs, NEW p \in Offsets,
               Vectored(c, op, s, iov, p)
        PROVE  RequestInBuffer(c)'
    <2> DEFINE cl == [NoCall EXCEPT !.op = op, !.slot = s, !.iov = iov, !.off = p]
    <2>1. cl \in Requests /\ cl.op = op /\ op \in {"preadv", "pwritev"}
      BY <1>6, NoCallType DEF Vectored, Requests, NoCall
    <2>2. Transfer(c, cl)
      BY <1>6 DEF Vectored
    <2> QED
      BY <2>1, <2>2, TransferForwards
  <1> QED
    BY <1>1, <1>2, <1>3, <1>4, <1>5, <1>6 DEF Invoke

LEMMA TakeReplyForwards ==
    ASSUME TypeInv, NEW c \in Clients, TakeReply(c)
    PROVE  RequestInBuffer(c)'
  <1>1. CASE \E v : Return(c, v)
    BY <1>1, ReturnAlone, RequestGone
  <1>2. CASE MountReply(c) /\ Send(c, [call[c] EXCEPT !.i = 2])
    <2>1. call[c] \in Requests /\ call[c].op = "mount"
      BY <1>2 DEF MountReply, Replied, TypeInv, TypeOK
    <2>2. call'[c].op = "mount"
      BY <1>2, <2>1, SentCall DEF Requests
    <2> QED
      BY <2>2, RequestGone
  <1>3. CASE TransferReply(c) /\ reply[c].ret = 0 /\ Transfer(c, Advanced(c))
    <2>1. phase[c] = "replied" /\ VectorCall(c) /\ call[c].op \in {"preadv", "pwritev"}
      BY <1>3 DEF TransferReply, Replied, VectorCall
    <2> QED
      BY <1>3, <2>1, AdvancedType, TransferForwards
  <1> QED
    BY <1>1, <1>2, <1>3
       DEF TakeReply, MountReply, GetEntryReply, CloseReply, PlainReply, TransferReply

OneClient == \A c, d \in Clients : c = d

LEMMA ForwardStep ==
    ASSUME OneClient, TypeInv, RequestsForwarded, [Next]_vars
    PROVE  RequestsForwarded'
  <1>1. CASE UNCHANGED vars
    BY <1>1 DEF vars, RequestsForwarded, RequestInBuffer, Serving
  <1>2. ASSUME NEW c \in Clients, Invoke(c) \/ Dispatch(c) \/ TakeReply(c) \/ Kill(c)
        PROVE  RequestInBuffer(c)'
    <2>1. CASE Invoke(c)
      BY <2>1, InvokeForwards
    <2>2. CASE TakeReply(c)
      BY <2>2, TakeReplyForwards
    <2>3. CASE Kill(c)
      BY <2>3, ReturnAlone, RequestGone DEF Kill
    <2>4. CASE Dispatch(c)
      <3>1. \E r, n : Answer(c, r, n)
        BY <2>4 DEF Dispatch, SrvInit, SrvOpen, SrvPread, SrvPwrite, SrvClose, SrvFstat64,
                    SrvDataspace, SrvRename, SrvUnlink, SrvRmdir, SrvRemove, SrvMkdir,
                    SrvUnimplemented
      <3> QED
        BY <3>1, AnswerAlone, RequestGone
    <2> QED
      BY <1>2, <2>1, <2>2, <2>3, <2>4
  <1> QED
    BY <1>1, <1>2 DEF Next, RequestsForwarded, OneClient

\* With one client at a time the server writes and renames what the client
\* passed, for every number of cells, names, objects and iovecs.  The run with
\* two clients shows that the assumption is needed.
THEOREM ExclusiveForwarding ==
    ASSUME OneClient
    PROVE  Spec => []RequestsForwarded
  <1>1. Init => RequestsForwarded
    BY DEF Init, RequestsForwarded, RequestInBuffer, Serving
  <1>2. TypeInv /\ RequestsForwarded /\ [Next]_vars => RequestsForwarded'
    BY ForwardStep
  <1> QED
    BY <1>1, <1>2, TypeInvHolds, PTL DEF Spec

-----------------------------------------------------------------------------
(* The backend implements FileService, as long as one client makes all the  *)
(* calls, or nobody makes a call whose data goes through the buffer.  Every *)
(* step of a client or of the server is a step of FileService or changes    *)
(* nothing there.  This part is about the mapping itself.                   *)

Unbuffered  == Calls \cap {"preadv", "pwritev", "rename"} = {}
Undisturbed == OneClient \/ Unbuffered

\* The parameters, codes and POSIX rules are those of L4fs.
LEMMA SameRules ==
    /\ FS!NoCall = NoCall /\ FS!Holders = Holders
    /\ FS!RootHolder = RootHolder /\ FS!NewHolder = NewHolder
    /\ FS!FAILED = FAILED /\ FS!ENOMEM = ENOMEM /\ FS!EBADF = EBADF
    /\ FS!EINVAL = EINVAL
    /\ FS!ENAMETOOLONG = ENAMETOOLONG /\ FS!ENOSYS = ENOSYS
  BY DEF FS!NoCall, NoCall, FS!Holders, Holders, FS!RootHolder, RootHolder, FS!NewHolder,
     NewHolder, FS!FAILED, FAILED, FS!ENOMEM, ENOMEM, FS!EBADF, EBADF, FS!EINVAL,
     EINVAL, FS!ENAMETOOLONG, ENAMETOOLONG, FS!ENOSYS, ENOSYS

LEMMA SameConflicts ==
    /\ \A D, K, p, fl : FS!OpenConflict(D, K, p, fl) <=> OpenConflict(D, K, p, fl)
    /\ \A D, K, p, q : FS!RenameOk(D, K, p, q) <=> RenameOk(D, K, p, q)
    /\ \A D, p, q : FS!Renamed(D, p, q) = Renamed(D, p, q)
    /\ \A D, K, p, k : FS!Removable(D, K, p, k) <=> Removable(D, K, p, k)
  BY DEF FS!OpenConflict, OpenConflict, FS!RenameOk, RenameOk, FS!Renamed, Renamed,
     FS!Removable, Removable

LEMMA SameTransfers ==
    /\ \A d, o, n : FS!Readable(d, o, n) = Readable(d, o, n)
    /\ \A o, n : FS!Writable(o, n) = Writable(o, n)
    /\ \A d, o, s : FS!Splice(d, o, s) = Splice(d, o, s)
    /\ \A s, b, n : FS!CopyOut(s, b, n) = CopyOut(s, b, n)
  BY DEF FS!Readable, Readable, FS!Writable, Writable, FS!Splice, Splice, FS!CopyOut, CopyOut

\* Nobody but client c moves, as FileService sees it.
AbsAlone(c) == \A d \in Clients \ {c} :
    AbsRef'[d] = AbsRef[d] /\ AbsPhase'[d] = AbsPhase[d]
    /\ AbsCall'[d] = AbsCall[d] /\ AbsAns'[d] = AbsAns[d]

LEMMA AbsFunctions ==
    /\ AbsRef = [d \in Clients |-> AbsRef[d]] /\ AbsRef' = [d \in Clients |-> AbsRef'[d]]
    /\ AbsPhase = [d \in Clients |-> AbsPhase[d]] /\ AbsPhase' = [d \in Clients |-> AbsPhase'[d]]
    /\ AbsCall = [d \in Clients |-> AbsCall[d]] /\ AbsCall' = [d \in Clients |-> AbsCall'[d]]
    /\ AbsAns = [d \in Clients |-> AbsAns[d]] /\ AbsAns' = [d \in Clients |-> AbsAns'[d]]
  <1>1. AbsRef = [d \in Clients |-> AbsRef[d]] /\ AbsRef' = [d \in Clients |-> AbsRef'[d]]
    BY DEF AbsRef
  <1>2. AbsPhase = [d \in Clients |-> AbsPhase[d]] /\ AbsPhase' = [d \in Clients |-> AbsPhase'[d]]
    BY DEF AbsPhase
  <1>3. AbsCall = [d \in Clients |-> AbsCall[d]] /\ AbsCall' = [d \in Clients |-> AbsCall'[d]]
    BY DEF AbsCall
  <1>4. AbsAns = [d \in Clients |-> AbsAns[d]] /\ AbsAns' = [d \in Clients |-> AbsAns'[d]]
    BY DEF AbsAns
  <1> QED
    BY <1>1, <1>2, <1>3, <1>4

LEMMA OneChange ==
    ASSUME NEW S, NEW f, NEW g, NEW c \in S, NEW v, g[c] = v,
           f = [d \in S |-> f[d]], g = [d \in S |-> g[d]],
           \A d \in S \ {c} : g[d] = f[d]
    PROVE  g = [f EXCEPT ![c] = v]
  OBVIOUS

LEMMA NoChange ==
    ASSUME NEW f, NEW g, NEW c \in Clients, g[c] = f[c],
           f = [d \in Clients |-> f[d]], g = [d \in Clients |-> g[d]],
           \A d \in Clients \ {c} : g[d] = f[d]
    PROVE  g = f
  OBVIOUS

\* What is the same for client c is the same; what changes, changes for c.
LEMMA AbsChange ==
    ASSUME NEW c \in Clients, AbsAlone(c)
    PROVE  /\ \A v : AbsRef'[c] = v => AbsRef' = [AbsRef EXCEPT ![c] = v]
           /\ \A v : AbsPhase'[c] = v => AbsPhase' = [AbsPhase EXCEPT ![c] = v]
           /\ \A v : AbsCall'[c] = v => AbsCall' = [AbsCall EXCEPT ![c] = v]
           /\ \A v : AbsAns'[c] = v => AbsAns' = [AbsAns EXCEPT ![c] = v]
           /\ AbsRef'[c] = AbsRef[c] => AbsRef' = AbsRef
           /\ AbsPhase'[c] = AbsPhase[c] => AbsPhase' = AbsPhase
           /\ AbsCall'[c] = AbsCall[c] => AbsCall' = AbsCall
           /\ AbsAns'[c] = AbsAns[c] => AbsAns' = AbsAns
  <1>1. ASSUME NEW v, AbsRef'[c] = v PROVE AbsRef' = [AbsRef EXCEPT ![c] = v]
    BY <1>1, AbsFunctions, OneChange DEF AbsAlone
  <1>2. ASSUME NEW v, AbsPhase'[c] = v PROVE AbsPhase' = [AbsPhase EXCEPT ![c] = v]
    BY <1>2, AbsFunctions, OneChange DEF AbsAlone
  <1>3. ASSUME NEW v, AbsCall'[c] = v PROVE AbsCall' = [AbsCall EXCEPT ![c] = v]
    BY <1>3, AbsFunctions, OneChange DEF AbsAlone
  <1>4. ASSUME NEW v, AbsAns'[c] = v PROVE AbsAns' = [AbsAns EXCEPT ![c] = v]
    BY <1>4, AbsFunctions, OneChange DEF AbsAlone
  <1>5. AbsRef'[c] = AbsRef[c] => AbsRef' = AbsRef
    BY AbsFunctions, NoChange DEF AbsAlone
  <1>6. AbsPhase'[c] = AbsPhase[c] => AbsPhase' = AbsPhase
    BY AbsFunctions, NoChange DEF AbsAlone
  <1>7. AbsCall'[c] = AbsCall[c] => AbsCall' = AbsCall
    BY AbsFunctions, NoChange DEF AbsAlone
  <1>8. AbsAns'[c] = AbsAns[c] => AbsAns' = AbsAns
    BY AbsFunctions, NoChange DEF AbsAlone
  <1> QED
    BY <1>1, <1>2, <1>3, <1>4, <1>5, <1>6, <1>7, <1>8

\* With the buffer undisturbed, a step of c is one of c alone in FileService as well.
LEMMA AloneIsAbsAlone ==
    ASSUME TypeInv, HandleIsolation, Undisturbed, [Next]_vars, NEW c \in Clients, Alone(c)
    PROVE  AbsAlone(c)
  <1> SUFFICES ASSUME NEW d \in Clients \ {c}
               PROVE  /\ AbsRef'[d] = AbsRef[d] /\ AbsPhase'[d] = AbsPhase[d]
                      /\ AbsCall'[d] = AbsCall[d] /\ AbsAns'[d] = AbsAns[d]
    BY DEF AbsAlone
  <1>1. phase'[d] = phase[d] /\ call'[d] = call[d] /\ reply'[d] = reply[d]
    BY DEF Alone
  <1>2. ~Vector(d) /\ ~Vector(d)'
    <2>1. Unbuffered
      BY DEF Undisturbed, OneClient
    <2>2. call[d].op \in Calls \cup {"none"}
      BY DEF TypeInv, TypeOK, Requests
    <2> QED
      BY <1>1, <2>1, <2>2 DEF Vector, Replied, Unbuffered
  <1>3. AbsRef'[d] = AbsRef[d]
    <2>1. ASSUME NEW t \in Holders
          PROVE  NodeOf(Held(d, t))' = NodeOf(Held(d, t))
      <3>1. Held(d, t)' = Held(d, t)
        BY AloneHeld
      <3>2. Held(d, t) \in Fds => fdt'[Held(d, t)] = fdt[Held(d, t)]
        BY <3>1, FdtSteps
      <3> QED
        BY <3>1, <3>2 DEF NodeOf
    <2> QED
      BY <2>1 DEF AbsRef
  <1>4. (Last(d)' <=> Last(d)) /\ (Opening(d)' <=> Opening(d))
    BY <1>1, <1>2 DEF Last, Opening, Replied
  <1>5. Outcome(d)' = Outcome(d)
    BY <1>1, <1>2, <1>4 DEF Outcome, Replied
  <1>6. AbsPhase'[d] = AbsPhase[d]
    BY <1>1, <1>4 DEF AbsPhase
  <1>7. AbsCall'[d] = AbsCall[d]
    BY <1>1, <1>2 DEF AbsCall
  <1>8. AbsAns'[d] = AbsAns[d]
    BY <1>4, <1>5 DEF AbsAns
  <1> QED
    BY <1>3, <1>6, <1>7, <1>8

-----------------------------------------------------------------------------
(* Where client c is, before and after a step. *)

\* A call that refers to a file object refers to one of the client's.
ObjectCalls == {"preadv", "pwritev", "fstat64", "close", "drop", "get_entry"}
SlotCalls == \A c \in Clients : call[c].op \in ObjectCalls => call[c].slot \in Slots

Faulted(c, cl) ==
    /\ phase' = [phase EXCEPT ![c] = "faulted"]
    /\ call' = [call EXCEPT ![c] = cl]
    /\ reply' = [reply EXCEPT ![c] = NoReply]
    /\ UNCHANGED res

\* The call record as FileService sees it: the two IPCs of a mount are one call there.
Plain(cl) == IF cl.op = "mount" THEN [cl EXCEPT !.i = 1] ELSE cl

LEMMA BeforeIdle ==
    ASSUME NEW c \in Clients, phase[c] = "idle"
    PROVE  AbsPhase[c] = "idle" /\ AbsAns[c] = 0
  BY DEF AbsPhase, AbsAns, Last

LEMMA BeforeSent ==
    ASSUME NEW c \in Clients, phase[c] = "sent"
    PROVE  AbsPhase[c] = "busy" /\ AbsAns[c] = 0 /\ AbsCall[c] = Plain(call[c])
  BY DEF AbsPhase, AbsAns, AbsCall, Last, Vector, Replied, Plain

LEMMA BeforeLast ==
    ASSUME NEW c \in Clients, phase[c] = "replied", Last(c)
    PROVE  AbsPhase[c] = "done" /\ AbsAns[c] = Outcome(c)
  BY DEF AbsPhase, AbsAns, Last

LEMMA BeforeMore ==
    ASSUME NEW c \in Clients, phase[c] = "replied", ~Last(c)
    PROVE  AbsPhase[c] = "busy" /\ AbsAns[c] = 0
  BY DEF AbsPhase, AbsAns, Last

LEMMA AfterSend ==
    ASSUME TypeInv, NEW c \in Clients, NEW cl \in Requests, Send(c, cl)
    PROVE  AbsPhase'[c] = "busy" /\ AbsAns'[c] = 0 /\ AbsCall'[c] = Plain(cl) /\ res' = res
  <1>1. phase'[c] = "sent" /\ call'[c] = cl /\ res' = res
    BY SendStep DEF Send
  <1> QED
    BY <1>1 DEF AbsPhase, AbsAns, AbsCall, Last, Vector, Replied, Plain

LEMMA AfterReturn ==
    ASSUME TypeInv, NEW c \in Clients, NEW v, Return(c, v)
    PROVE  /\ AbsPhase'[c] = "idle" /\ AbsAns'[c] = 0 /\ AbsCall'[c] = NoCall
           /\ res' = [res EXCEPT ![c] = v]
  <1>1. phase'[c] = "idle" /\ call'[c] = NoCall /\ NoCall.op = "none"
    BY DEF Return, TypeInv, TypeOK, NoCall
  <1> QED
    BY <1>1 DEF Return, AbsPhase, AbsAns, AbsCall, Last, Vector, Replied

LEMMA AfterFault ==
    ASSUME TypeInv, NEW c \in Clients, NEW cl, cl.op = "pwritev", Faulted(c, cl)
    PROVE  AbsPhase'[c] = "faulted" /\ AbsAns'[c] = 0 /\ AbsCall'[c] = cl /\ res' = res
  <1>1. phase'[c] = "faulted" /\ call'[c] = cl /\ res' = res
    BY DEF Faulted, TypeInv, TypeOK
  <1> QED
    BY <1>1 DEF AbsPhase, AbsAns, AbsCall, Last, Vector, Replied

\* An answer decides every call but a vectored one and the first IPC of a mount.
LEMMA AfterAnswer ==
    ASSUME TypeInv, NEW c \in Clients, NEW r \in Codes \cup {0}, NEW n \in Int,
           Answer(c, r, n), phase[c] = "sent",
           call[c].op \in {"preadv", "pwritev"} => r < 0,
           call[c].op = "mount" => call[c].i = 2
    PROVE  /\ AbsPhase'[c] = "done" /\ AbsCall'[c] = AbsCall[c] /\ res' = res
           /\ AbsAns'[c] = IF call[c].op \in {"get_entry", "mount"}
                           THEN IF n < 0 THEN n ELSE 0
                           ELSE IF call[c].op = "fstat64" /\ r = 0 THEN n ELSE r
  <1>1. /\ phase'[c] = "replied" /\ reply'[c].ret = r /\ reply'[c].size = n
        /\ call' = call /\ res' = res
    BY AnswerStep
  <1>2. Last(c)'
    BY <1>1 DEF Last, Vector, Replied
  <1>3. Vector(c)' /\ reply'[c].ret = 0 => FALSE
    BY <1>1 DEF Vector, Replied
  <1>4. Opening(c)' <=> call[c].op \in {"get_entry", "mount"}
    BY <1>1 DEF Opening, Replied
  <1>5. AbsCall'[c] = AbsCall[c]
    BY <1>1, <1>3 DEF AbsCall, Vector, Replied
  <1>6. AbsPhase'[c] = "done" /\ AbsAns'[c] = Outcome(c)'
    BY <1>1, <1>2 DEF AbsPhase, AbsAns
  <1>7. Outcome(c)' = IF call[c].op \in {"get_entry", "mount"}
                      THEN IF n < 0 THEN n ELSE 0
                      ELSE IF call[c].op = "fstat64" /\ r = 0 THEN n ELSE r
    BY <1>1, <1>3, <1>4 DEF Outcome, Replied
  <1> QED
    BY <1>1, <1>5, <1>6, <1>7

-----------------------------------------------------------------------------
(* The references behind the handles. *)

LEMMA RefIs ==
    ASSUME NEW c \in Clients
    PROVE  /\ AbsRef[c] = [t \in Holders |-> NodeOf(Held(c, t))]
           /\ AbsRef'[c] = [t \in Holders |-> NodeOf(Held(c, t))']
  BY DEF AbsRef

LEMMA RefOf ==
    ASSUME NEW c \in Clients, NEW t \in Holders
    PROVE  AbsRef[c][t] = NodeOf(Held(c, t)) /\ AbsRef'[c][t] = NodeOf(Held(c, t))'
  BY DEF AbsRef

LEMMA RefFunctions ==
    ASSUME NEW c \in Clients
    PROVE  /\ AbsRef[c] = [t \in Holders |-> AbsRef[c][t]]
           /\ AbsRef'[c] = [t \in Holders |-> AbsRef'[c][t]]
  BY DEF AbsRef

LEMMA SameValues ==
    ASSUME NEW S, NEW f, NEW g, f = [d \in S |-> f[d]], g = [d \in S |-> g[d]],
           \A d \in S : f[d] = g[d]
    PROVE  f = g
  OBVIOUS

LEMMA RefsStay ==
    ASSUME NEW c \in Clients, \A t \in Holders : NodeOf(Held(c, t))' = NodeOf(Held(c, t))
    PROVE  AbsRef'[c] = AbsRef[c]
  <1>1. \A t \in Holders : AbsRef'[c][t] = AbsRef[c][t]
    BY RefOf
  <1> QED
    <2>1. PICK f, g : f = AbsRef[c] /\ g = AbsRef'[c]
      OBVIOUS
    <2>2. f = [t \in Holders |-> f[t]] /\ g = [t \in Holders |-> g[t]]
      BY <2>1, RefFunctions
    <2>3. f = g
      BY <1>1, <2>1, <2>2, SameValues
    <2> QED
      BY <2>1, <2>3

LEMMA RefMoves ==
    ASSUME NEW c \in Clients, NEW u \in Holders, NEW v, NodeOf(Held(c, u))' = v,
           \A t \in Holders \ {u} : NodeOf(Held(c, t))' = NodeOf(Held(c, t))
    PROVE  AbsRef'[c] = [AbsRef[c] EXCEPT ![u] = v]
  <1>1. AbsRef'[c][u] = v /\ \A t \in Holders \ {u} : AbsRef'[c][t] = AbsRef[c][t]
    BY RefOf
  <1>2. PICK f, g : f = AbsRef[c] /\ g = AbsRef'[c]
    OBVIOUS
  <1>3. f = [t \in Holders |-> f[t]] /\ g = [t \in Holders |-> g[t]]
    BY <1>2, RefFunctions
  <1>4. g[u] = v /\ \A t \in Holders \ {u} : g[t] = f[t]
    BY <1>1, <1>2
  <1>5. g = [f EXCEPT ![u] = v]
    BY <1>3, <1>4, OneChange
  <1> QED
    BY <1>2, <1>5

\* The node behind a handle stays if the handle does and the table has not changed.
LEMMA NodeStays ==
    ASSUME NEW c \in Clients, NEW t \in Holders, fdt' = fdt,
           \/ Held(c, t)' = Held(c, t)
           \/ Held(c, t) \notin Fds /\ Held(c, t)' \notin Fds
    PROVE  NodeOf(Held(c, t))' = NodeOf(Held(c, t))
  BY DEF NodeOf

\* Therefore a client that has no reply before and after a step keeps its references, if
\* it keeps its objects or gives up an object without a handle.
LEMMA NoReplyRefs ==
    ASSUME TypeInv, NEW c \in Clients, phase[c] # "replied", phase'[c] # "replied",
           fdt' = fdt, root'[c] = root[c],
           \A s \in Slots : \/ file'[c][s] = file[c][s]
                            \/ file'[c][s] \notin Fds /\ file[c][s] \notin Fds
    PROVE  AbsRef'[c] = AbsRef[c]
  <1>1. ASSUME NEW t \in Holders
        PROVE  NodeOf(Held(c, t))' = NodeOf(Held(c, t))
    <2>1. \/ Held(c, t)' = Held(c, t)
          \/ Held(c, t) \notin Fds /\ Held(c, t)' \notin Fds
      <3>1. CASE t = RootHolder
        BY <3>1, HeldElsewhere
      <3>2. CASE t = NewHolder
        BY <3>2, IdleHeld, NoReplyHeld
      <3>3. CASE t \in Slots
        <4>1. Held(c, t) = file[c][t] /\ Held(c, t)' = file'[c][t]
          BY <3>3, IdleHeld, NoReplyHeld
        <4> QED
          BY <3>3, <4>1
      <3> QED
        BY <3>1, <3>2, <3>3, HolderFacts
    <2> QED
      BY <2>1, NodeStays
  <1> QED
    BY <1>1, RefsStay

-----------------------------------------------------------------------------
(* What the start of a call, and a round of a vectored one, comes to. *)

LEMMA TransferCases ==
    ASSUME NEW c \in Clients, NEW cl, cl.op \in {"preadv", "pwritev"}, Transfer(c, cl)
    PROVE  \/ cl.i > Len(cl.iov) /\ Return(c, cl.n)
           \/ cl.i <= Len(cl.iov) /\ Send(c, cl)
           \/ FS!Oversized(cl) /\ Return(c, ENOMEM)
           \/ FS!Oversized(cl) /\ cl.op = "pwritev" /\ Faulted(c, cl)
  BY DEF Transfer, Faulted, FS!Oversized

\* A new request is about an object of the client, if about any.
NewRequest(cl) == /\ cl.i = 1 /\ cl.n = 0
                  /\ cl.op \in ObjectCalls => cl.slot \in Slots

SendsNew(c) == \E cl \in Requests : NewRequest(cl) /\ Send(c, cl) /\ file' = file
Refuses(c) == \E v \in {0, ENAMETOOLONG, EBADF, EINVAL, ENOMEM} :
                  /\ Return(c, v)
                  /\ \A s \in Slots : \/ file'[c][s] = file[c][s]
                                      \/ file'[c][s] \notin Fds /\ file[c][s] \notin Fds
FaultsNew(c) == \E cl \in Requests : /\ NewRequest(cl) /\ cl.op = "pwritev"
                                     /\ FS!Oversized(cl) /\ Faulted(c, cl) /\ file' = file

LEMMA InvokeCases ==
    ASSUME TypeInv, NEW c \in Clients, Invoke(c)
    PROVE  /\ phase[c] = "idle" /\ UNCHANGED <<dirent, kind, data, fdt, root>>
           /\ SendsNew(c) \/ Refuses(c) \/ FaultsNew(c)
  <1> DEFINE Starts == phase[c] = "idle" /\ UNCHANGED <<dirent, kind, data, fdt, root>>
             Cases == SendsNew(c) \/ Refuses(c) \/ FaultsNew(c)
  <1>0. ASSUME NEW v \in {0, ENAMETOOLONG, EBADF, EINVAL, ENOMEM}, Return(c, v), file' = file
        PROVE  Cases
    BY <1>0 DEF Refuses
  <1>1. CASE Mount(c)
    <2> DEFINE cl == [NoCall EXCEPT !.op = "mount", !.flags = {"O_DIRECTORY"}]
    <2>1. cl \in Requests /\ NewRequest(cl)
      BY <1>1, NoCallType DEF Mount, CanCall, Requests, Flags, NoCall, NewRequest, ObjectCalls
    <2>2. Send(c, cl) \/ \E v \in {EINVAL, ENOMEM} : Return(c, v)
      BY <1>1 DEF Mount
    <2>3. Starts /\ file' = file
      BY <1>1 DEF Mount, CanCall, fsVars
    <2> QED
      BY <1>0, <2>1, <2>2, <2>3 DEF SendsNew
  <1>2. ASSUME NEW p \in Names, NEW op \in Calls, PathCall(c, op, p)
        PROVE  Starts /\ Cases
    <2> DEFINE cl == [NoCall EXCEPT !.op = op, !.name = p]
    <2>1. cl \in Requests /\ NewRequest(cl)
      BY <1>2, NoCallType DEF PathCall, Requests, NoCall, NewRequest, ObjectCalls
    <2>2. Send(c, cl) \/ Return(c, ENAMETOOLONG)
      BY <1>2 DEF PathCall
    <2>3. Starts /\ file' = file
      BY <1>2 DEF PathCall, CanCall, fsVars
    <2> QED
      BY <1>0, <2>1, <2>2, <2>3 DEF SendsNew
  <1>3. ASSUME NEW p \in Names, NEW q \in Names, NEW op \in Calls, TwoPathCall(c, op, p, q)
        PROVE  Starts /\ Cases
    <2> DEFINE cl == [NoCall EXCEPT !.op = op, !.name = p, !.to = q]
    <2>1. cl \in Requests /\ NewRequest(cl)
      BY <1>3, NoCallType DEF TwoPathCall, Requests, NoCall, NewRequest, ObjectCalls
    <2>2. Send(c, cl) \/ Return(c, ENAMETOOLONG)
      BY <1>3 DEF TwoPathCall
    <2>3. Starts /\ file' = file
      BY <1>3 DEF TwoPathCall, CanCall, fsVars
    <2> QED
      BY <1>0, <2>1, <2>2, <2>3 DEF SendsNew
  <1>4. ASSUME NEW s \in Slots, NEW p \in Names, NEW fl \in OpenFlags, GetEntry(c, s, p, fl)
        PROVE  Starts /\ Cases
    <2> DEFINE cl == [NoCall EXCEPT !.op = "get_entry", !.slot = s, !.name = p,
                          !.flags = IF p = Root THEN fl \cup {"O_DIRECTORY"} ELSE fl]
    <2>1. cl \in Requests /\ NewRequest(cl)
      BY <1>4, NoCallType DEF GetEntry, CanCall, Requests, Flags, NoCall, NewRequest, ObjectCalls
    <2>2. Send(c, cl) \/ Return(c, ENAMETOOLONG)
      BY <1>4 DEF GetEntry
    <2>3. Starts /\ file' = file
      BY <1>4 DEF GetEntry, CanCall, fsVars
    <2> QED
      BY <1>0, <2>1, <2>2, <2>3 DEF SendsNew
  <1>5. ASSUME NEW s \in Slots, NEW op \in Calls, HandleCall(c, op, s)
        PROVE  Starts /\ Cases
    <2> DEFINE cl == [NoCall EXCEPT !.op = op, !.slot = s]
    <2>1. cl \in Requests /\ NewRequest(cl)
      BY <1>5, NoCallType DEF HandleCall, Requests, NoCall, NewRequest, ObjectCalls
    <2>2. Send(c, cl) /\ Starts /\ file' = file
      BY <1>5 DEF HandleCall, CanCall, fsVars
    <2> QED
      BY <2>1, <2>2 DEF SendsNew
  <1>6. ASSUME NEW s \in Slots, NEW op \in Calls, Close(c, op, s)
        PROVE  Starts /\ Cases
    <2> DEFINE cl == [NoCall EXCEPT !.op = op, !.slot = s]
    <2>1. cl \in Requests /\ NewRequest(cl)
      BY <1>6, NoCallType DEF Close, Requests, NoCall, NewRequest, ObjectCalls
    <2>2. Starts
      BY <1>6 DEF Close, CanCall, fsVars
    <2>3. CASE Send(c, cl) /\ file' = file
      BY <2>1, <2>2, <2>3 DEF SendsNew
    <2>4. CASE /\ file[c][s] = Closed /\ Return(c, EBADF)
               /\ file' = [file EXCEPT ![c][s] = IF op = "drop" THEN NoObject ELSE @]
      <3>1. \A u \in Slots : \/ file'[c][u] = file[c][u]
                             \/ file'[c][u] \notin Fds /\ file[c][u] \notin Fds
        BY <2>4, NotFds DEF TypeInv, TypeOK
      <3> QED
        BY <2>2, <2>4, <3>1 DEF Refuses
    <2> QED
      BY <1>6, <2>3, <2>4 DEF Close
  <1>7. ASSUME NEW s \in Slots, NEW op \in Calls, NEW iov \in Iovs, NEW p \in Offsets,
               Vectored(c, op, s, iov, p)
        PROVE  Starts /\ Cases
    <2> DEFINE cl == [NoCall EXCEPT !.op = op, !.slot = s, !.iov = iov, !.off = p]
    <2>1. cl \in Requests /\ NewRequest(cl) /\ cl.op \in {"preadv", "pwritev"}
      BY <1>7, NoCallType DEF Vectored, Requests, NoCall, NewRequest
    <2>2. Transfer(c, cl) /\ Starts /\ file' = file
      BY <1>7 DEF Vectored, CanCall, fsVars
    <2> HIDE DEF cl
    <2>3. CASE Return(c, cl.n)
      BY <1>0, <2>1, <2>2, <2>3 DEF NewRequest
    <2>4. CASE Send(c, cl)
      BY <2>1, <2>2, <2>4 DEF SendsNew
    <2>5. CASE Return(c, ENOMEM)
      BY <1>0, <2>2, <2>5
    <2>6. CASE FS!Oversized(cl) /\ cl.op = "pwritev" /\ Faulted(c, cl)
      BY <2>1, <2>2, <2>6 DEF FaultsNew
    <2> QED
      BY <2>1, <2>2, <2>3, <2>4, <2>5, <2>6, TransferCases
  <1> QED
    BY <1>1, <1>2, <1>3, <1>4, <1>5, <1>6, <1>7 DEF Invoke

\* SlotCalls is an invariant: requests start so, and answers and rounds leave op and slot.
LEMMA SlotCallsStep ==
    ASSUME TypeInv, SlotCalls, [Next]_vars
    PROVE  SlotCalls'
  <1>1. ASSUME NEW c \in Clients, Alone(c), call'[c].op \in ObjectCalls => call'[c].slot \in Slots
        PROVE  SlotCalls'
    BY <1>1 DEF SlotCalls, Alone
  <1>2. ASSUME NEW c \in Clients, NEW v, Return(c, v)
        PROVE  call'[c].op \in ObjectCalls => call'[c].slot \in Slots
    <2>1. call'[c] = NoCall
      BY <1>2 DEF Return, TypeInv, TypeOK
    <2> QED
      BY <2>1 DEF NoCall, ObjectCalls
  <1>3. ASSUME NEW c \in Clients, NEW cl, Send(c, cl) \/ Faulted(c, cl),
               cl.op \in ObjectCalls => cl.slot \in Slots
        PROVE  call'[c].op \in ObjectCalls => call'[c].slot \in Slots
    BY <1>3 DEF Send, Faulted, TypeInv, TypeOK
  <1>4. ASSUME NEW c \in Clients, Invoke(c) PROVE SlotCalls'
    <2>1. Alone(c) /\ (SendsNew(c) \/ Refuses(c) \/ FaultsNew(c))
      BY <1>4, InvokeQuiet, InvokeCases
    <2> QED
      BY <1>1, <1>2, <1>3, <2>1 DEF SendsNew, Refuses, FaultsNew, NewRequest
  <1>5. ASSUME NEW c \in Clients, Dispatch(c) PROVE SlotCalls'
    <2>1. \E r, n : Answer(c, r, n)
      BY <1>5 DEF Dispatch, SrvInit, SrvOpen, SrvPread, SrvPwrite, SrvClose, SrvFstat64,
                  SrvDataspace, SrvRename, SrvUnlink, SrvRmdir, SrvRemove, SrvMkdir,
                  SrvUnimplemented
    <2> QED
      BY <2>1, AnswerAlone DEF SlotCalls
  <1>6. ASSUME NEW c \in Clients, TakeReply(c) PROVE SlotCalls'
    <2>1. CASE \E v : Return(c, v)
      <3>1. \A d \in Clients \ {c} : call'[d] = call[d]
        BY <2>1, ReturnAlone
      <3> QED
        BY <1>2, <2>1, <3>1 DEF SlotCalls
    <2>2. CASE MountReply(c) /\ Send(c, [call[c] EXCEPT !.i = 2])
      <3>1. \A d \in Clients \ {c} : call'[d] = call[d]
        BY <2>2, SendAlone
      <3>2. call[c] \in Requests /\ call[c].op = "mount"
        BY <2>2 DEF MountReply, Replied, TypeInv, TypeOK
      <3>3. call'[c].op = "mount"
        BY <2>2, <3>2, SentCall DEF Requests
      <3> QED
        BY <3>1, <3>3 DEF SlotCalls, ObjectCalls
    <2>3. CASE TransferReply(c) /\ reply[c].ret = 0 /\ Transfer(c, Advanced(c))
      <3>1. \A d \in Clients \ {c} : call'[d] = call[d]
        BY <2>3, TransferAlone
      <3>2. phase[c] = "replied" /\ VectorCall(c) /\ call[c].op \in {"preadv", "pwritev"}
        BY <2>3 DEF TransferReply, Replied, VectorCall
      <3>3. Advanced(c).op = call[c].op /\ Advanced(c).slot = call[c].slot
        BY DEF Advanced, TypeInv, TypeOK, Requests
      <3>4. call[c].slot \in Slots
        BY <3>2 DEF SlotCalls, ObjectCalls
      <3>5. \/ \E v : Return(c, v)
            \/ Send(c, Advanced(c)) \/ Faulted(c, Advanced(c))
        BY <2>3, <3>2, <3>3, TransferCases
      <3> QED
        BY <1>2, <1>3, <3>1, <3>3, <3>4, <3>5 DEF SlotCalls
    <2> QED
      BY <1>6, <2>1, <2>2, <2>3
         DEF TakeReply, MountReply, GetEntryReply, CloseReply, PlainReply, TransferReply
  <1>7. ASSUME NEW c \in Clients, Kill(c) PROVE SlotCalls'
    BY <1>1, <1>2, <1>7, KillQuiet DEF Kill
  <1>8. CASE UNCHANGED vars
    BY <1>8 DEF vars, SlotCalls
  <1> QED
    BY <1>4, <1>5, <1>6, <1>7, <1>8 DEF Next

-----------------------------------------------------------------------------
(* The steps of a client. *)

LEMMA EndIs ==
    ASSUME TypeInv, NEW c \in Clients, AbsAlone(c), NEW v, Return(c, v)
    PROVE  FS!End(c, v)
  BY AfterReturn, AbsChange, SameRules DEF FS!End

LEMMA OnlyChanges ==
    ASSUME NEW c \in Clients, AbsAlone(c)
    PROVE  FS!OnlyOf(c, AbsCall, AbsCall')
  BY DEF AbsAlone, FS!OnlyOf

\* A call returns at once, or a vectored call does whose next buffer is too large,
\* or a mount does between its two IPCs.
LEMMA RefuseIs ==
    ASSUME TypeInv, NEW c \in Clients, AbsAlone(c),
           NEW v \in {0, ENAMETOOLONG, EBADF, EINVAL, ENOMEM}, Return(c, v),
           \/ AbsPhase[c] = "idle"
           \/ AbsPhase[c] = "busy" /\ FS!Oversized(AbsCall[c])
           \/ FS!Busy(c, "mount") /\ v # 0,
           UNCHANGED <<dirent, kind, data>>, AbsRef' = AbsRef
    PROVE  FS!Refuse(c)
  <1>1. FS!End(c, v)
    BY EndIs
  <1>2. res'[c] = v /\ \A d \in Clients \ {c} : res'[d] = res[d]
    BY DEF Return, TypeInv, TypeOK
  <1> QED
    BY <1>1, <1>2, SameRules DEF FS!Refuse, FS!OnlyOf, FS!tree

LEMMA FaultIs ==
    ASSUME TypeInv, NEW c \in Clients, AbsAlone(c), NEW cl, cl.op = "pwritev",
           FS!Oversized(cl), Faulted(c, cl), AbsPhase[c] \in {"idle", "busy"}, AbsAns[c] = 0,
           UNCHANGED <<dirent, kind, data>>, AbsRef' = AbsRef
    PROVE  FS!Fault(c)
  <1>1. AbsPhase'[c] = "faulted" /\ AbsAns'[c] = 0 /\ AbsCall'[c] = cl /\ res' = res
    BY AfterFault
  <1>2. AbsPhase' = [AbsPhase EXCEPT ![c] = "faulted"] /\ AbsAns' = AbsAns
    BY <1>1, AbsChange
  <1> QED
    BY <1>1, <1>2, OnlyChanges DEF FS!Fault, FS!tree

LEMMA InvokeIs ==
    ASSUME TypeInv, NEW c \in Clients, AbsAlone(c), Invoke(c)
    PROVE  FS!Invoke(c) \/ FS!Refuse(c) \/ FS!Fault(c)
  <1>1. /\ phase[c] = "idle" /\ UNCHANGED <<dirent, kind, data, fdt, root>>
        /\ SendsNew(c) \/ Refuses(c) \/ FaultsNew(c)
    BY InvokeCases
  <1>2. AbsPhase[c] = "idle" /\ AbsAns[c] = 0
    BY <1>1, BeforeIdle
  <1>3. phase'[c] \in {"sent", "idle", "faulted"}
    BY <1>1 DEF SendsNew, Refuses, FaultsNew, Send, Return, Faulted, TypeInv, TypeOK
  <1>4. \A s \in Slots : \/ file'[c][s] = file[c][s]
                         \/ file'[c][s] \notin Fds /\ file[c][s] \notin Fds
    BY <1>1 DEF SendsNew, Refuses, FaultsNew
  <1>5. AbsRef' = AbsRef
    BY <1>1, <1>3, <1>4, NoReplyRefs, AbsChange
  <1>6. CASE SendsNew(c)
    <2>1. PICK cl \in Requests : NewRequest(cl) /\ Send(c, cl)
      BY <1>6 DEF SendsNew
    <2>2. AbsPhase'[c] = "busy" /\ AbsAns'[c] = 0 /\ AbsCall'[c] = Plain(cl) /\ res' = res
      BY <2>1, AfterSend
    <2>3. Plain(cl).i = 1 /\ Plain(cl).n = 0
      BY <2>1 DEF Plain, NewRequest, Requests
    <2>4. AbsPhase' = [AbsPhase EXCEPT ![c] = "busy"] /\ AbsAns' = AbsAns
      BY <1>2, <2>2, AbsChange
    <2> QED
      BY <1>1, <1>2, <1>5, <2>2, <2>3, <2>4, OnlyChanges DEF FS!Invoke, FS!tree
  <1>7. CASE Refuses(c)
    BY <1>1, <1>2, <1>5, <1>7, RefuseIs DEF Refuses
  <1>8. CASE FaultsNew(c)
    BY <1>1, <1>2, <1>5, <1>8, FaultIs DEF FaultsNew
  <1> QED
    BY <1>1, <1>6, <1>7, <1>8

LEMMA KillIs ==
    ASSUME TypeInv, NEW c \in Clients, AbsAlone(c), Kill(c)
    PROVE  FS!Kill(c)
  <1>1. /\ phase'[c] = "idle" /\ root'[c] = Closed
        /\ \A s \in Slots : file'[c][s] = NoObject
    BY ReturnAlone DEF Kill, TypeInv, TypeOK
  <1>2. \A t \in Holders : Held(c, t)' \notin Fds
    BY <1>1, NoReplyHeld, NotFds, HolderFacts
  <1>3. \A t \in Holders : NodeOf(Held(c, t))' = NoIno
    BY <1>2 DEF NodeOf
  <1>4. AbsRef'[c] = [t \in Holders |-> NoIno]
    BY <1>3, RefIs
  <1>5. AbsRef' = [AbsRef EXCEPT ![c] = [t \in Holders |-> NoIno]]
    BY <1>4, AbsChange
  <1>6. FS!End(c, 0)
    BY EndIs DEF Kill
  <1> QED
    BY <1>5, <1>6, SameRules DEF FS!Kill, FS!tree, Kill, fsVars

\* A decided call that has no new reference returns.
LEMMA ReturnIs ==
    ASSUME TypeInv, NEW c \in Clients, AbsAlone(c), phase[c] = "replied", Last(c),
           ~Opening(c), Return(c, Outcome(c)), UNCHANGED <<dirent, kind, data>>,
           AbsRef'[c] = AbsRef[c]
    PROVE  FS!Return(c)
  <1>1. AbsPhase[c] = "done" /\ AbsAns[c] = Outcome(c)
    BY BeforeLast
  <1>2. FS!End(c, AbsAns[c])
    BY <1>1, EndIs
  <1>3. AbsRef[c][NewHolder] = NoIno
    <2>1. Held(c, NewHolder) = Closed
      BY HeldElsewhere
    <2>2. NodeOf(Held(c, NewHolder)) = NoIno
      BY <2>1, NotFds DEF NodeOf
    <2> QED
      BY <2>2, RefOf, HolderFacts
  <1>4. AbsRef' = AbsRef
    BY AbsChange
  <1> QED
    BY <1>1, <1>2, <1>3, <1>4, SameRules DEF FS!Return, FS!tree

\* What the server's open answers is a descriptor or negative.
LEMMA OpenAnswer ==
    ASSUME NEW x \in Fds \cup {FAILED}
    PROVE  IF x < 0 THEN x \notin Fds ELSE x \in Fds /\ x >= 0
  BY DEF FAILED

\* The reply to an open: its handle moves to object t, or is lost.
LEMMA OpenReturns ==
    ASSUME TypeInv, HandleIsolation, NEW c \in Clients, AbsAlone(c), Opening(c), fdt' = fdt,
           UNCHANGED <<dirent, kind, data>>, phase'[c] # "replied",
           NEW t \in Holders \ {NewHolder},
           t = IF call[c].op = "mount" THEN RootHolder ELSE call[c].slot,
           \A u \in Holders \ {t, NewHolder} : Held(c, u)' = Held(c, u),
           \/ reply[c].size < 0 /\ Return(c, reply[c].size) /\ Held(c, t)' = Held(c, t)
           \/ reply[c].size >= 0 /\ Return(c, 0) /\ Held(c, t)' = reply[c].size
           \/ /\ reply[c].size >= 0 /\ Return(c, ENOMEM) /\ Held(c, t)' = Held(c, t)
              /\ call[c].op = "get_entry"
           \/ /\ reply[c].size >= 0 /\ Return(c, 0) /\ Held(c, t)' = Held(c, t)
              /\ call[c].op = "mount"
    PROVE  FS!Return(c)
  <1>1. phase[c] = "replied" /\ Last(c)
    BY DEF Opening, Last, Replied, Vector
  <1>2. AbsPhase[c] = "done" /\ AbsAns[c] = IF reply[c].size < 0 THEN reply[c].size ELSE 0
    BY <1>1, BeforeLast DEF Outcome
  <1>3. AbsCall[c].op = call[c].op /\ AbsCall[c].slot = call[c].slot
    <2>1. call[c] \in Requests /\ ~Vector(c)
      BY DEF TypeInv, TypeOK, Opening, Vector, Replied
    <2> QED
      BY <2>1 DEF AbsCall, Requests
  <1>4. Held(c, NewHolder) = reply[c].size /\ Held(c, NewHolder)' = Closed
    BY HeldElsewhere, NoReplyHeld
  <1>5. reply[c].size \in Fds \cup {FAILED}
    BY DEF TypeInv, CallShapes, CallShape
  <1>6. /\ AbsRef[c][NewHolder] = NodeOf(reply[c].size)
        /\ NodeOf(Held(c, NewHolder))' = NoIno
        /\ reply[c].size < 0 => NodeOf(reply[c].size) = NoIno
    <2>1. AbsRef[c][NewHolder] = NodeOf(reply[c].size)
      <3>1. AbsRef[c][NewHolder] = NodeOf(Held(c, NewHolder))
        BY RefOf, HolderFacts
      <3> QED
        BY <1>4, <3>1
    <2>2. NodeOf(Held(c, NewHolder))' = NoIno
      BY <1>4, NotFds DEF NodeOf
    <2>3. reply[c].size < 0 => NodeOf(reply[c].size) = NoIno
      <3>1. reply[c].size < 0 => reply[c].size \notin Fds
        BY <1>5, OpenAnswer
      <3> QED
        BY <3>1 DEF NodeOf
    <2> QED
      BY <2>1, <2>2, <2>3
  <1>7. reply[c].size >= 0 => NodeOf(reply[c].size) # NoIno
    <2>1. reply[c].size >= 0 => reply[c].size \in Fds
      BY <1>5 DEF FAILED
    <2>2. reply[c].size \in Fds => fdt[reply[c].size] # NoIno
      BY <1>4, HolderFacts DEF HandleIsolation
    <2> QED
      BY <2>1, <2>2 DEF NodeOf
  <1>8. \A u \in Holders \ {t, NewHolder} : NodeOf(Held(c, u))' = NodeOf(Held(c, u))
    BY NodeStays
  <1>9. Held(c, t)' = Held(c, t) => NodeOf(Held(c, t))' = NodeOf(Held(c, t))
    BY NodeStays
  <1>10. reply[c].size >= 0 => AbsAns[c] = 0
    <2>1. reply[c].size >= 0 => ~(reply[c].size < 0)
      <3>1. PICK x \in Fds \cup {FAILED} : x = reply[c].size
        BY <1>5
      <3>2. x \in Int
        BY <3>1 DEF FAILED
      <3> QED
        BY <3>1, <3>2
    <2> QED
      BY <1>2, <2>1
  <1>11. CASE reply[c].size < 0 /\ Return(c, reply[c].size) /\ Held(c, t)' = Held(c, t)
    <2>1. NodeOf(Held(c, NewHolder))' = NodeOf(Held(c, NewHolder))
      BY <1>4, <1>6, <1>11
    <2>2. AbsRef'[c] = AbsRef[c]
      BY <1>8, <1>9, <1>11, <2>1, RefsStay
    <2>3. AbsRef' = AbsRef /\ FS!End(c, AbsAns[c])
      BY <1>2, <1>11, <2>2, AbsChange, EndIs
    <2> QED
      BY <1>2, <1>6, <1>11, <2>3, SameRules DEF FS!Return, FS!tree
  <1>12. CASE reply[c].size >= 0 /\ Return(c, 0) /\ Held(c, t)' = reply[c].size
    <2>1. NodeOf(Held(c, t))' = NodeOf(reply[c].size)
      BY <1>12 DEF NodeOf
    <2>2. AbsRef'[c] = [AbsRef[c] EXCEPT ![t] = NodeOf(reply[c].size), ![NewHolder] = NoIno]
      <3>1. AbsRef'[c] = [u \in Holders |-> NodeOf(Held(c, u))']
        BY RefIs
      <3>2. AbsRef[c] = [u \in Holders |-> NodeOf(Held(c, u))]
        BY RefIs
      <3>3. /\ AbsRef'[c][t] = NodeOf(reply[c].size) /\ AbsRef'[c][NewHolder] = NoIno
            /\ \A u \in Holders \ {t, NewHolder} : AbsRef'[c][u] = AbsRef[c][u]
        BY <1>6, <1>8, <2>1, <3>1, <3>2, HolderFacts
      <3>4. AbsRef'[c] = [u \in Holders |-> AbsRef'[c][u]]
        BY <3>1
      <3>5. AbsRef[c] = [u \in Holders |-> AbsRef[c][u]]
        BY <3>2
      <3>6. PICK f, g : f = AbsRef[c] /\ g = AbsRef'[c]
        OBVIOUS
      <3>7. g = [f EXCEPT ![t] = NodeOf(reply[c].size), ![NewHolder] = NoIno]
        BY <3>3, <3>4, <3>5, <3>6, HolderFacts
      <3> QED
        BY <3>6, <3>7
    <2>3. AbsRef' = [AbsRef EXCEPT ![c] = [AbsRef[c] EXCEPT ![t] = NodeOf(reply[c].size),
                                                            ![NewHolder] = NoIno]]
      BY <2>2, AbsChange
    <2>4. AbsRef' = [AbsRef EXCEPT ![c][t] = NodeOf(reply[c].size), ![c][NewHolder] = NoIno]
      <3>1. PICK f : f = AbsRef /\ f = [d \in Clients |-> f[d]]
        BY AbsFunctions
      <3>2. [f EXCEPT ![c] = [f[c] EXCEPT ![t] = NodeOf(reply[c].size), ![NewHolder] = NoIno]]
             = [f EXCEPT ![c][t] = NodeOf(reply[c].size), ![c][NewHolder] = NoIno]
        BY <3>1
      <3> QED
        BY <2>3, <3>1, <3>2
    <2>5. FS!End(c, AbsAns[c])
      BY <1>12, <1>10, EndIs
    <2> QED
      BY <1>2, <1>3, <1>6, <1>7, <1>12, <2>4, <2>5, SameRules DEF FS!Return, FS!tree
  <1>13. CASE /\ reply[c].size >= 0 /\ Held(c, t)' = Held(c, t)
              /\ \/ Return(c, ENOMEM) /\ call[c].op = "get_entry"
                 \/ Return(c, 0) /\ call[c].op = "mount"
    <2>1. \A u \in Holders \ {NewHolder} : NodeOf(Held(c, u))' = NodeOf(Held(c, u))
      BY <1>8, <1>9, <1>13
    <2>2. AbsRef'[c] = [AbsRef[c] EXCEPT ![NewHolder] = NoIno]
      BY <1>6, <2>1, RefMoves, HolderFacts
    <2>3. AbsRef' = [AbsRef EXCEPT ![c] = [AbsRef[c] EXCEPT ![NewHolder] = NoIno]]
      BY <2>2, AbsChange
    <2>4. AbsRef' = [AbsRef EXCEPT ![c][NewHolder] = NoIno]
      BY <2>3
    <2>5. FS!End(c, IF AbsCall[c].op = "mount" THEN AbsAns[c] ELSE ENOMEM)
      BY <1>3, <1>13, <1>10, EndIs
    <2> QED
      BY <1>2, <1>3, <1>6, <1>7, <1>13, <2>4, <2>5, SameRules DEF FS!Return, FS!tree
  <1> QED
    BY <1>11, <1>12, <1>13

\* A reply that is not to an open leaves the references, if the objects keep what they hold.
LEMMA ReplyRefs ==
    ASSUME NEW c \in Clients, phase'[c] # "replied", ~Opening(c), fdt' = fdt,
           root'[c] = root[c],
           \A s \in Slots : \/ file'[c][s] = Held(c, s)
                            \/ file'[c][s] \notin Fds /\ Held(c, s) \notin Fds
    PROVE  AbsRef'[c] = AbsRef[c]
  <1>1. ASSUME NEW t \in Holders
        PROVE  NodeOf(Held(c, t))' = NodeOf(Held(c, t))
    <2>1. \/ Held(c, t)' = Held(c, t)
          \/ Held(c, t) \notin Fds /\ Held(c, t)' \notin Fds
      <3>1. CASE t = RootHolder
        BY <3>1, HeldElsewhere
      <3>2. CASE t = NewHolder
        BY <3>2, HeldElsewhere, NoReplyHeld
      <3>3. CASE t \in Slots
        <4>1. Held(c, t)' = file'[c][t]
          BY <3>3, NoReplyHeld
        <4> QED
          BY <3>3, <4>1
      <3> QED
        BY <3>1, <3>2, <3>3, HolderFacts
    <2> QED
      BY <2>1, NodeStays
  <1> QED
    BY <1>1, RefsStay

LEMMA MountReplyIs ==
    ASSUME TypeInv, HandleIsolation, NEW c \in Clients, AbsAlone(c), MountReply(c)
    PROVE  FS!Return(c) \/ FS!Refuse(c) \/ UNCHANGED FS!vars
  <1>1. /\ phase[c] = "replied" /\ call[c].op = "mount" /\ call[c] \in Requests
        /\ UNCHANGED <<dirent, kind, data, fdt, file>>
    BY DEF MountReply, Replied, fsVars, TypeInv, TypeOK
  <1>2. \A s \in Slots : Held(c, s) = file[c][s]
    BY <1>1, NotClosingHeld
  <1>3. CASE call[c].i = 1 /\ Send(c, [call[c] EXCEPT !.i = 2]) /\ root' = root
    <2>1. [call[c] EXCEPT !.i = 2] \in Requests /\ [call[c] EXCEPT !.i = 2].op = "mount"
      <3>1. PICK k \in Nat \ {0} : k = 2
        OBVIOUS
      <3>2. [call[c] EXCEPT !.i = k] \in Requests /\ [call[c] EXCEPT !.i = k].op = "mount"
        BY <1>1, RoundType
      <3> QED
        BY <3>1, <3>2
    <2>2. /\ AbsPhase'[c] = "busy" /\ AbsAns'[c] = 0 /\ res' = res
          /\ AbsCall'[c] = Plain([call[c] EXCEPT !.i = 2])
      BY <1>3, <2>1, AfterSend
    <2>3. Plain([call[c] EXCEPT !.i = 2]) = Plain(call[c])
      BY <1>1, <2>1 DEF Plain, Requests
    <2>4. ~Last(c) /\ ~Opening(c) /\ ~Vector(c)
      BY <1>1, <1>3 DEF Last, Opening, Replied, Vector
    <2>5. AbsPhase[c] = "busy" /\ AbsAns[c] = 0
      BY <1>1, <2>4, BeforeMore
    <2>6. AbsCall[c] = Plain(call[c])
      BY <2>4 DEF AbsCall, Plain
    <2>7. phase'[c] = "sent"
      BY <1>3, SendAlone
    <2>8. AbsRef'[c] = AbsRef[c]
      BY <1>1, <1>2, <1>3, <2>4, <2>7, ReplyRefs
    <2> QED
      BY <1>1, <2>2, <2>3, <2>5, <2>6, <2>8, AbsChange DEF FS!vars
  <1>4. CASE call[c].i = 2
    <2>1. Opening(c)
      BY <1>1, <1>4 DEF Opening, Replied
    <2>2. \/ reply[c].size < 0 /\ Return(c, reply[c].size) /\ root' = root
          \/ reply[c].size >= 0 /\ Return(c, 0) /\ root' = [root EXCEPT ![c] = reply[c].size]
          \/ reply[c].size >= 0 /\ Return(c, 0) /\ root' = root
      BY <1>4 DEF MountReply
    <2>3. phase'[c] = "idle"
      BY <2>2, ReturnAlone
    <2>4. \A s \in Slots : Held(c, s)' = Held(c, s)
      BY <1>1, <1>2, <2>3, NoReplyHeld
    <2>5. /\ Held(c, RootHolder) = root[c] /\ Held(c, RootHolder)' = root'[c]
          /\ \A u \in Holders \ {RootHolder, NewHolder} : Held(c, u)' = Held(c, u)
      BY <2>4, HeldElsewhere, HolderFacts
    <2>7. \/ /\ reply[c].size < 0 /\ Return(c, reply[c].size)
             /\ Held(c, RootHolder)' = Held(c, RootHolder)
          \/ reply[c].size >= 0 /\ Return(c, 0) /\ Held(c, RootHolder)' = reply[c].size
          \/ /\ reply[c].size >= 0 /\ Return(c, 0)
             /\ Held(c, RootHolder)' = Held(c, RootHolder)
      <3>1. CASE reply[c].size < 0 /\ Return(c, reply[c].size) /\ root' = root
        BY <2>5, <3>1
      <3>2. CASE reply[c].size >= 0 /\ Return(c, 0) /\ root' = [root EXCEPT ![c] = reply[c].size]
        <4>1. root'[c] = reply[c].size
          BY <3>2 DEF TypeInv, TypeOK
        <4> QED
          BY <2>5, <3>2, <4>1
      <3>3. CASE reply[c].size >= 0 /\ Return(c, 0) /\ root' = root
        BY <2>5, <3>3
      <3> QED
        BY <2>2, <3>1, <3>2, <3>3
    <2>8. RootHolder \in Holders \ {NewHolder}
      BY HolderFacts
    <2> QED
      BY <1>1, <2>1, <2>3, <2>5, <2>7, <2>8, OpenReturns
  <1>5. CASE call[c].i = 1 /\ Return(c, ENOMEM) /\ root' = root
    <2>1. ~Last(c) /\ ~Opening(c) /\ ~Vector(c)
      BY <1>1, <1>5 DEF Last, Opening, Replied, Vector
    <2>2. AbsPhase[c] = "busy" /\ AbsCall[c].op = "mount"
      BY <1>1, <2>1, BeforeMore DEF AbsCall, Requests
    <2>3. phase'[c] = "idle"
      BY <1>5, ReturnAlone
    <2>4. AbsRef' = AbsRef
      <3>1. AbsRef'[c] = AbsRef[c]
        BY <1>1, <1>2, <1>5, <2>1, <2>3, ReplyRefs
      <3> QED
        BY <3>1, AbsChange
    <2>5. ENOMEM # 0
      BY DEF ENOMEM
    <2> QED
      BY <1>1, <1>5, <2>2, <2>4, <2>5, RefuseIs DEF FS!Busy
  <1> QED
    BY <1>3, <1>4, <1>5 DEF MountReply

LEMMA GetEntryReplyIs ==
    ASSUME TypeInv, HandleIsolation, NEW c \in Clients, AbsAlone(c), GetEntryReply(c)
    PROVE  FS!Return(c)
  <1>1. /\ phase[c] = "replied" /\ call[c].op = "get_entry"
        /\ UNCHANGED <<dirent, kind, data, fdt, root>>
    BY DEF GetEntryReply, Replied, fsVars
  <1>2. \A s \in Slots : Held(c, s) = file[c][s]
    BY <1>1, NotClosingHeld
  <1>3. PICK o \in Slots : o = call[c].slot
    BY <1>1 DEF TypeInv, CallShapes, CallShape
  <1>4. \/ reply[c].size < 0 /\ Return(c, reply[c].size) /\ file' = file
        \/ /\ reply[c].size >= 0 /\ Return(c, 0)
           /\ file' = [file EXCEPT ![c][o] = reply[c].size]
        \/ reply[c].size >= 0 /\ Return(c, ENOMEM) /\ file' = file
    BY <1>3 DEF GetEntryReply
  <1>5. phase'[c] = "idle"
    BY <1>4, ReturnAlone
  <1>6. \A s \in Slots : Held(c, s)' = file'[c][s]
    BY <1>5, NoReplyHeld
  <1>7. \A s \in Slots \ {o} : file'[c][s] = file[c][s]
    BY <1>4 DEF TypeInv, TypeOK
  <1>8. \A u \in Holders \ {o, NewHolder} : Held(c, u)' = Held(c, u)
    <2>1. Held(c, RootHolder)' = Held(c, RootHolder)
      BY <1>1, HeldElsewhere
    <2>2. \A s \in Slots \ {o} : Held(c, s)' = Held(c, s)
      BY <1>2, <1>6, <1>7
    <2> QED
      BY <2>1, <2>2, HolderFacts
  <1>9. /\ file' = file => Held(c, o)' = Held(c, o)
        /\ file' = [file EXCEPT ![c][o] = reply[c].size] => Held(c, o)' = reply[c].size
    <2>1. Held(c, o) = file[c][o] /\ Held(c, o)' = file'[c][o]
      BY <1>2, <1>6
    <2>2. file' = [file EXCEPT ![c][o] = reply[c].size] => file'[c][o] = reply[c].size
      BY DEF TypeInv, TypeOK
    <2> QED
      BY <2>1, <2>2
  <1>10. o \in Holders \ {NewHolder} /\ Opening(c) /\ call[c].op # "mount"
    BY <1>1, HolderFacts DEF Opening, Replied
  <1> QED
    BY <1>1, <1>3, <1>4, <1>5, <1>8, <1>9, <1>10, OpenReturns

LEMMA CloseReplyIs ==
    ASSUME TypeInv, NEW c \in Clients, AbsAlone(c), CloseReply(c)
    PROVE  FS!Return(c)
  <1>1. /\ phase[c] = "replied" /\ call[c].op \in {"close", "drop"}
        /\ UNCHANGED <<dirent, kind, data, fdt, root>>
        /\ Return(c, reply[c].ret)
    BY DEF CloseReply, Replied, fsVars
  <1>2. PICK o \in Slots : o = call[c].slot
    BY <1>1 DEF TypeInv, CallShapes, CallShape, ObjectCall
  <1>3. Last(c) /\ ~Opening(c) /\ Outcome(c) = reply[c].ret
    BY <1>1 DEF Last, Opening, Outcome, Replied, Vector
  <1>4. phase'[c] = "idle"
    BY <1>1, ReturnAlone
  <1>5. /\ file'[c][o] \in {Closed, NoObject}
        /\ \A s \in Slots \ {o} : file'[c][s] = file[c][s]
    BY <1>2 DEF CloseReply, TypeInv, TypeOK
  <1>6. /\ Held(c, o) = Closed
        /\ \A s \in Slots \ {o} : Held(c, s) = file[c][s]
    BY <1>1, <1>2, HeldBySlot DEF Closing, Replied
  <1>7. AbsRef'[c] = AbsRef[c]
    BY <1>1, <1>3, <1>4, <1>5, <1>6, NotFds, ReplyRefs
  <1> QED
    BY <1>1, <1>3, <1>7, ReturnIs

LEMMA PlainReplyIs ==
    ASSUME TypeInv, NEW c \in Clients, AbsAlone(c), PlainReply(c)
    PROVE  FS!Return(c)
  <1>1. /\ phase[c] = "replied" /\ UNCHANGED <<dirent, kind, data, fdt, root, file>>
        /\ call[c].op \notin {"mount", "get_entry", "preadv", "pwritev", "close", "drop"}
        /\ Return(c, IF call[c].op = "fstat64" /\ reply[c].ret = 0
                     THEN reply[c].size ELSE reply[c].ret)
    BY DEF PlainReply, Replied, fsVars
  <1>2. Last(c) /\ ~Opening(c)
    BY <1>1 DEF Last, Opening, Replied, Vector
  <1>3. Outcome(c) = IF call[c].op = "fstat64" /\ reply[c].ret = 0
                     THEN reply[c].size ELSE reply[c].ret
    BY <1>1, <1>2 DEF Outcome, Replied, Vector
  <1>4. phase'[c] = "idle"
    BY <1>1, ReturnAlone
  <1>5. \A s \in Slots : file'[c][s] = Held(c, s)
    BY <1>1, NotClosingHeld
  <1>6. AbsRef'[c] = AbsRef[c]
    BY <1>1, <1>2, <1>4, <1>5, ReplyRefs
  <1> QED
    BY <1>1, <1>2, <1>3, <1>6, ReturnIs

LEMMA TransferReplyIs ==
    ASSUME TypeInv, NEW c \in Clients, AbsAlone(c), TransferReply(c)
    PROVE  FS!Return(c) \/ FS!Refuse(c) \/ FS!Fault(c) \/ UNCHANGED FS!vars
  <1>1. /\ phase[c] = "replied" /\ call[c].op \in {"preadv", "pwritev"} /\ Vector(c)
        /\ VectorCall(c) /\ UNCHANGED <<dirent, kind, data, fdt, root, file>>
    BY DEF TransferReply, Replied, Vector, VectorCall, fsVars
  <1>2. /\ ~Opening(c) /\ (Last(c) <=> \/ reply[c].ret < 0
                                       \/ call[c].i = Len(call[c].iov)
                                       \/ /\ call[c].op = "pwritev"
                                          /\ reply[c].size # Len(call[c].iov[call[c].i]))
    BY <1>1 DEF Last, Opening, Replied
  <1>3. Outcome(c) = IF reply[c].ret = 0 THEN Advanced(c).n ELSE reply[c].ret
    BY <1>1, <1>2 DEF Outcome, Replied
  <1>4. \A s \in Slots : file'[c][s] = Held(c, s)
    BY <1>1, NotClosingHeld
  <1>5. phase'[c] # "replied"
    BY ReturnAlone, TransferAlone DEF TransferReply
  <1>6. AbsRef'[c] = AbsRef[c]
    BY <1>1, <1>2, <1>4, <1>5, ReplyRefs
  <1>7. CASE reply[c].ret < 0 /\ Return(c, reply[c].ret)
    <2>1. Outcome(c) = reply[c].ret
      BY <1>3, <1>7
    <2> QED
      BY <1>1, <1>2, <1>6, <1>7, <2>1, ReturnIs
  <1>8. CASE /\ reply[c].ret = 0 /\ Return(c, Advanced(c).n)
             /\ call[c].op = "pwritev" /\ reply[c].size # Len(call[c].iov[call[c].i])
    BY <1>1, <1>2, <1>3, <1>6, <1>8, ReturnIs
  <1>9. CASE /\ reply[c].ret = 0 /\ Transfer(c, Advanced(c))
             /\ call[c].op = "pwritev" => reply[c].size = Len(call[c].iov[call[c].i])
    <2>1. /\ Advanced(c) \in Requests /\ Advanced(c).op = call[c].op
          /\ Advanced(c).i = call[c].i + 1 /\ Len(Advanced(c).iov) = Len(call[c].iov)
      <3>1. Advanced(c) \in Requests /\ Advanced(c).op = call[c].op
        BY <1>1, <1>9, AdvancedType
      <3>2. Advanced(c).i = call[c].i + 1 /\ Len(Advanced(c).iov) = Len(call[c].iov)
        BY DEF Advanced, TypeInv, TypeOK, Requests
      <3> QED
        BY <3>1, <3>2
    <2>2. /\ call[c].i \in Nat \ {0} /\ call[c].i <= Len(call[c].iov)
          /\ Len(call[c].iov) \in Nat
      BY <1>1 DEF TypeInv, TypeOK, Requests, CallShapes, CallShape
    <2>3. Last(c) <=> call[c].i = Len(call[c].iov)
      BY <1>2, <1>9
    <2>4. AbsCall[c] = Advanced(c)
      BY <1>1, <1>9 DEF AbsCall
    <2>5. Advanced(c).i <= Len(Advanced(c).iov) => ~Last(c)
      BY <2>1, <2>2, <2>3
    <2>6. ~Last(c) => AbsPhase[c] = "busy" /\ AbsAns[c] = 0
      BY <1>1, BeforeMore
    <2>7. CASE Advanced(c).i > Len(Advanced(c).iov) /\ Return(c, Advanced(c).n)
      <3>1. Last(c)
        BY <2>1, <2>2, <2>3, <2>7
      <3> QED
        BY <1>1, <1>2, <1>3, <1>6, <1>9, <2>7, <3>1, ReturnIs
    <2>8. CASE Advanced(c).i <= Len(Advanced(c).iov) /\ Send(c, Advanced(c))
      <3>1. /\ AbsPhase'[c] = "busy" /\ AbsAns'[c] = 0 /\ res' = res
            /\ AbsCall'[c] = Plain(Advanced(c))
        BY <2>1, <2>8, AfterSend
      <3>2. Plain(Advanced(c)) = AbsCall[c]
        BY <1>1, <2>1, <2>4 DEF Plain
      <3>3. AbsPhase'[c] = AbsPhase[c] /\ AbsAns'[c] = AbsAns[c] /\ AbsCall'[c] = AbsCall[c]
        BY <2>5, <2>6, <2>8, <3>1, <3>2
      <3>4. AbsRef' = AbsRef /\ AbsPhase' = AbsPhase /\ AbsAns' = AbsAns /\ AbsCall' = AbsCall
        BY <1>6, <3>3, AbsChange
      <3> QED
        BY <1>1, <3>1, <3>4 DEF FS!vars
    <2>9. CASE FS!Oversized(Advanced(c)) /\ Return(c, ENOMEM)
      <3>1. AbsPhase[c] = "busy"
        BY <2>5, <2>6, <2>9 DEF FS!Oversized
      <3>2. AbsRef' = AbsRef
        BY <1>6, AbsChange
      <3> QED
        BY <1>1, <2>4, <2>9, <3>1, <3>2, RefuseIs
    <2>10. CASE /\ FS!Oversized(Advanced(c)) /\ Advanced(c).op = "pwritev"
                /\ Faulted(c, Advanced(c))
      <3>1. AbsPhase[c] = "busy" /\ AbsAns[c] = 0
        BY <2>5, <2>6, <2>10 DEF FS!Oversized
      <3>2. AbsRef' = AbsRef
        BY <1>6, AbsChange
      <3> QED
        BY <1>1, <2>10, <3>1, <3>2, FaultIs
    <2> QED
      BY <1>1, <1>9, <2>1, <2>7, <2>8, <2>9, <2>10, TransferCases
  <1> QED
    BY <1>7, <1>8, <1>9 DEF TransferReply
-----------------------------------------------------------------------------
(* The steps of the server. *)

\* What the server serves, and the node behind the handle it is given.
LEMMA ServedCall ==
    ASSUME TypeInv, NEW c \in Clients, phase[c] = "sent", call[c].op # "mount"
    PROVE  /\ AbsCall[c] = call[c] /\ \A op : FS!Busy(c, op) <=> Serving(c, op)
           /\ call[c].slot \in Slots => AbsRef[c][call[c].slot] = NodeOf(Fh(c))
  <1>1. AbsCall[c] = call[c] /\ AbsPhase[c] = "busy"
    BY BeforeSent DEF Plain
  <1>2. \A op : FS!Busy(c, op) <=> Serving(c, op)
    BY <1>1 DEF FS!Busy, Serving
  <1>3. ASSUME call[c].slot \in Slots
        PROVE  AbsRef[c][call[c].slot] = NodeOf(Fh(c))
    <2>1. PICK s \in Slots : s = call[c].slot
      BY <1>3
    <2>2. Held(c, s) = Fh(c)
      BY <2>1, IdleHeld DEF Fh
    <2>3. AbsRef[c][s] = NodeOf(Held(c, s))
      BY RefOf, HolderFacts
    <2> QED
      BY <2>1, <2>2, <2>3
  <1> QED
    BY <1>1, <1>2, <1>3

\* An answer that leaves the table leaves the references, except to a close and an open.
LEMMA AnswerRefs ==
    ASSUME TypeInv, NEW c \in Clients, AbsAlone(c), NEW r, NEW n, Answer(c, r, n),
           phase[c] = "sent", call[c].op \notin {"close", "drop"}, fdt' = fdt,
           Opening(c)' => n \notin Fds
    PROVE  AbsRef' = AbsRef
  <1>1. /\ phase'[c] = "replied" /\ root' = root /\ file' = file /\ call' = call
        /\ reply'[c].size = n
    BY AnswerAlone
  <1>2. \A s \in Slots : ~Closing(c, s)'
    BY <1>1 DEF Closing, Replied
  <1>3. ASSUME NEW t \in Holders
        PROVE  NodeOf(Held(c, t))' = NodeOf(Held(c, t))
    <2>1. CASE t = NewHolder
      <3>1. Held(c, t) \notin Fds
        BY <2>1, IdleHeld, NotFds
      <3>2. Held(c, t)' \notin Fds
        BY <1>1, <2>1, HeldElsewhere, NotFds
      <3> QED
        BY <3>1, <3>2, NodeStays
    <2>2. CASE t # NewHolder
      BY <1>1, <1>2, <2>2, AnswerHeld, NodeStays
    <2> QED
      BY <2>1, <2>2
  <1> QED
    BY <1>3, RefsStay, AbsChange

\* An answer that decides the call.
LEMMA DecideIs ==
    ASSUME TypeInv, NEW c \in Clients, AbsAlone(c), NEW r \in Codes \cup {0}, NEW n \in Int,
           Answer(c, r, n), phase[c] = "sent",
           call[c].op \in {"preadv", "pwritev"} => r < 0,
           call[c].op = "mount" => call[c].i = 2
    PROVE  FS!Decide(c, IF call[c].op \in {"get_entry", "mount"}
                        THEN IF n < 0 THEN n ELSE 0
                        ELSE IF call[c].op = "fstat64" /\ r = 0 THEN n ELSE r)
  <1> DEFINE v == IF call[c].op \in {"get_entry", "mount"}
                  THEN IF n < 0 THEN n ELSE 0
                  ELSE IF call[c].op = "fstat64" /\ r = 0 THEN n ELSE r
  <1>1. /\ AbsPhase'[c] = "done" /\ AbsCall'[c] = AbsCall[c] /\ res' = res
        /\ AbsAns'[c] = v
    BY AfterAnswer
  <1> HIDE DEF v
  <1>2. FS!Decide(c, v)
    BY <1>1, AbsChange DEF FS!Decide
  <1> QED
    BY <1>2 DEF v

\* The calls that are decided by one answer and neither open nor close.
LEMMA PlainDecideIs ==
    ASSUME TypeInv, NEW c \in Clients, AbsAlone(c), NEW r \in Codes \cup {0}, NEW n \in Int,
           Answer(c, r, n), phase[c] = "sent", fdt' = fdt,
           call[c].op \notin {"mount", "get_entry", "close", "drop"},
           call[c].op \in {"preadv", "pwritev"} => r < 0
    PROVE  /\ AbsRef' = AbsRef
           /\ FS!Decide(c, IF call[c].op = "fstat64" /\ r = 0 THEN n ELSE r)
  <1>1. call' = call
    BY AnswerStep
  <1>2. ~Opening(c)'
    BY <1>1 DEF Opening, Replied
  <1> QED
    BY <1>2, AnswerRefs, DecideIs

\* The calls whose answer is just a code.
LEMMA CodeDecideIs ==
    ASSUME TypeInv, NEW c \in Clients, AbsAlone(c), NEW r \in Codes \cup {0}, Answer(c, r, 0),
           phase[c] = "sent", fdt' = fdt,
           call[c].op \notin {"mount", "get_entry", "close", "drop", "fstat64", "preadv", "pwritev"}
    PROVE  AbsRef' = AbsRef /\ FS!Decide(c, r)
  <1>1. PICK n \in Int : n = 0
    OBVIOUS
  <1>2. /\ AbsRef' = AbsRef
        /\ FS!Decide(c, IF call[c].op = "fstat64" /\ r = 0 THEN n ELSE r)
    BY <1>1, PlainDecideIs
  <1> QED
    BY <1>2

LEMMA SrvInitIs ==
    ASSUME TypeInv, NEW c \in Clients, AbsAlone(c), SrvInit(c)
    PROVE  UNCHANGED FS!vars
  <1>1. /\ phase[c] = "sent" /\ call[c].op = "mount" /\ call[c].i = 1 /\ Answer(c, 0, 0)
        /\ UNCHANGED <<dirent, kind, data, fdt>>
    BY DEF SrvInit, Serving, fsVars
  <1>2. phase'[c] = "replied" /\ call' = call /\ res' = res
    BY <1>1, AnswerAlone DEF Answer
  <1>3. ~Last(c)' /\ ~Vector(c)' /\ ~Vector(c) /\ ~Last(c) /\ ~Opening(c)'
    BY <1>1, <1>2 DEF Last, Vector, Opening, Replied
  <1>4. AbsPhase'[c] = AbsPhase[c] /\ AbsAns'[c] = AbsAns[c] /\ AbsCall'[c] = AbsCall[c]
    BY <1>1, <1>2, <1>3 DEF AbsPhase, AbsAns, AbsCall
  <1>5. AbsRef' = AbsRef
    BY <1>1, <1>3, AnswerRefs
  <1> QED
    BY <1>1, <1>2, <1>4, <1>5, AbsChange DEF FS!vars

LEMMA SrvFstat64Is ==
    ASSUME TypeInv, SlotCalls, NEW c \in Clients, AbsAlone(c), SrvFstat64(c)
    PROVE  FS!Stat(c)
  <1>1. /\ phase[c] = "sent" /\ call[c].op = "fstat64" /\ Serving(c, "fstat64")
        /\ UNCHANGED <<dirent, kind, data, fdt>> /\ call[c].slot \in Slots
    BY DEF SrvFstat64, Serving, fsVars, SlotCalls, ObjectCalls
  <1>2. AbsCall[c] = call[c] /\ FS!Busy(c, "fstat64") /\ AbsRef[c][call[c].slot] = NodeOf(Fh(c))
    BY <1>1, ServedCall
  <1>3. CASE NodeOf(Fh(c)) = NoIno /\ Answer(c, FAILED, 0)
    <2>1. AbsRef' = AbsRef /\ FS!Decide(c, FAILED)
      BY <1>1, <1>3, PlainDecideIs, CodeFacts
    <2> QED
      BY <1>1, <1>2, <1>3, <2>1, SameRules DEF FS!Stat, FS!tree
  <1>4. CASE NodeOf(Fh(c)) # NoIno /\ Answer(c, 0, Len(data[NodeOf(Fh(c))]))
    <2>1. NodeOf(Fh(c)) \in Inodes
      BY <1>4, NodeOfType
    <2>2. Len(data[NodeOf(Fh(c))]) \in Int
      BY <2>1 DEF TypeInv, TypeOK
    <2>3. AbsRef' = AbsRef /\ FS!Decide(c, Len(data[NodeOf(Fh(c))]))
      BY <1>1, <1>4, <2>2, PlainDecideIs, CodeFacts
    <2> QED
      BY <1>1, <1>2, <1>4, <2>3 DEF FS!Stat, FS!tree
  <1> QED
    BY <1>3, <1>4 DEF SrvFstat64

LEMMA SrvOtherIs ==
    ASSUME TypeInv, NEW c \in Clients, AbsAlone(c), SrvDataspace(c) \/ SrvUnimplemented(c)
    PROVE  FS!Other(c)
  <1>1. UNCHANGED <<dirent, kind, data, fdt>>
    BY DEF SrvDataspace, SrvUnimplemented, fsVars
  <1>2. CASE SrvDataspace(c)
    <2>1. phase[c] = "sent" /\ call[c].op = "data_space" /\ Answer(c, 0, 0)
      BY <1>2 DEF SrvDataspace, Serving
    <2>2. AbsRef' = AbsRef /\ FS!Decide(c, 0)
      <3>1. PICK r \in Codes \cup {0} : Answer(c, r, 0) /\ r = 0
        BY <2>1, CodeFacts
      <3> QED
        BY <1>1, <2>1, <3>1, CodeDecideIs
    <2>3. FS!Busy(c, "data_space")
      BY <2>1, ServedCall DEF Serving
    <2> QED
      BY <1>1, <2>2, <2>3 DEF FS!Other, FS!tree
  <1>3. CASE SrvUnimplemented(c)
    <2>1. PICK op \in {"link", "symlink", "readlink", "fsync", "ftruncate64"} : Serving(c, op)
      BY <1>3 DEF SrvUnimplemented
    <2>2. phase[c] = "sent" /\ call[c].op = op /\ Answer(c, ENOSYS, 0)
      BY <1>3, <2>1 DEF SrvUnimplemented, Serving
    <2>3. AbsRef' = AbsRef /\ FS!Decide(c, ENOSYS)
      BY <1>1, <2>2, CodeDecideIs, CodeFacts
    <2>4. FS!Busy(c, op)
      BY <2>1, <2>2, ServedCall
    <2> QED
      BY <1>1, <2>3, <2>4, SameRules DEF FS!Other, FS!tree
  <1> QED
    BY <1>2, <1>3

LEMMA SrvRemoveIs ==
    ASSUME TypeInv, NEW c \in Clients, AbsAlone(c), SrvUnlink(c) \/ SrvRmdir(c)
    PROVE  FS!Remove(c)
  <1> DEFINE k == IF call[c].op = "unlink" THEN "file" ELSE "dir"
             ok == Removable(dirent, kind, call[c].name, k)
  <1>1. /\ phase[c] = "sent" /\ call[c].op \in {"unlink", "rmdir"}
        /\ UNCHANGED <<kind, data, fdt>>
        /\ IF ok THEN dirent' = [dirent EXCEPT ![call[c].name] = NoIno] /\ Answer(c, 0, 0)
                 ELSE UNCHANGED dirent /\ Answer(c, FAILED, 0)
    BY DEF SrvUnlink, SrvRmdir, SrvRemove, Serving
  <1>2. AbsCall[c] = call[c] /\ (FS!Busy(c, "unlink") \/ FS!Busy(c, "rmdir"))
    BY <1>1, ServedCall DEF Serving
  <1>3. PICK r \in Codes \cup {0} :
            /\ Answer(c, r, 0)
            /\ IF ok THEN dirent' = [dirent EXCEPT ![call[c].name] = NoIno] /\ r = 0
                     ELSE UNCHANGED dirent /\ r = FAILED
    BY <1>1, CodeFacts
  <1>4. AbsRef' = AbsRef /\ FS!Decide(c, r)
    <2>1. Answer(c, r, 0)
      BY <1>3
    <2> QED
      BY <1>1, <2>1, CodeDecideIs
  <1>5. ok <=> FS!Removable(dirent, kind, AbsCall[c].name,
                            IF AbsCall[c].op = "unlink" THEN "file" ELSE "dir")
    BY <1>2, SameConflicts
  <1> HIDE DEF ok
  <1> QED
    BY <1>1, <1>2, <1>3, <1>4, <1>5, SameRules DEF FS!Remove

LEMMA SrvRenameIs ==
    ASSUME TypeInv, NEW c \in Clients, AbsAlone(c), RequestInBuffer(c), SrvRename(c)
    PROVE  FS!Rename(c)
  <1> DEFINE ok == RenameOk(dirent, kind, call[c].name, call[c].to)
  <1>1. phase[c] = "sent" /\ call[c].op = "rename" /\ UNCHANGED <<kind, data, fdt>>
    BY DEF SrvRename, Serving
  <1>2. rwBuf[1] = call[c].to /\ call[c].to \in Names
    BY <1>1 DEF RequestInBuffer, Serving, TypeInv, TypeOK, Requests
  <1>3. IF ok THEN dirent' = Renamed(dirent, call[c].name, call[c].to) /\ Answer(c, 0, 0)
              ELSE UNCHANGED dirent /\ Answer(c, FAILED, 0)
    BY <1>2 DEF SrvRename
  <1>4. AbsCall[c] = call[c] /\ FS!Busy(c, "rename")
    BY <1>1, ServedCall DEF Serving
  <1>5. PICK r \in Codes \cup {0} :
            /\ Answer(c, r, 0)
            /\ IF ok THEN dirent' = Renamed(dirent, call[c].name, call[c].to) /\ r = 0
                     ELSE UNCHANGED dirent /\ r = FAILED
    BY <1>3, CodeFacts
  <1>6. AbsRef' = AbsRef /\ FS!Decide(c, r)
    <2>1. Answer(c, r, 0)
      BY <1>5
    <2> QED
      BY <1>1, <2>1, CodeDecideIs
  <1>7. ok <=> FS!RenameOk(dirent, kind, AbsCall[c].name, AbsCall[c].to)
    BY <1>4, SameConflicts
  <1>8. Renamed(dirent, call[c].name, call[c].to)
            = FS!Renamed(dirent, AbsCall[c].name, AbsCall[c].to)
    BY <1>4, SameConflicts
  <1> HIDE DEF ok
  <1> QED
    BY <1>1, <1>4, <1>5, <1>6, <1>7, <1>8, SameRules DEF FS!Rename

\* A node that nothing refers to on the server is referred to by no client.
LEMMA FreeIsUnreferenced ==
    ASSUME TypeInv, NEW i \in FreeInodes
    PROVE  i \in FS!Unreferenced
  <1>1. /\ i \in Inodes \ {RootIno} /\ i # NoIno /\ \A p \in Names : dirent[p] # i
        /\ \A f \in Fds : fdt[f] # i
    BY DEF FreeInodes
  <1>2. \A c \in Clients : \A t \in Holders : AbsRef[c][t] # i
    <2>1. ASSUME NEW c \in Clients, NEW t \in Holders
          PROVE  AbsRef[c][t] # i
      <3>1. NodeOf(Held(c, t)) # i
        BY <1>1 DEF NodeOf
      <3>2. AbsRef[c][t] = NodeOf(Held(c, t))
        BY RefOf
      <3> QED
        BY <3>1, <3>2
    <2> QED
      BY <2>1
  <1> QED
    BY <1>1, <1>2, SameRules DEF FS!Unreferenced

LEMMA SrvMkdirIs ==
    ASSUME TypeInv, NEW c \in Clients, AbsAlone(c), SrvMkdir(c)
    PROVE  FS!Mkdir(c)
  <1>1. /\ phase[c] = "sent" /\ call[c].op = "mkdir" /\ fdt' = fdt
    BY DEF SrvMkdir, Serving, fsVars
  <1>2. AbsCall[c] = call[c] /\ FS!Busy(c, "mkdir")
    BY <1>1, ServedCall DEF Serving
  <1>3. CASE Answer(c, FAILED, 0) /\ UNCHANGED fsVars
    <2>1. AbsRef' = AbsRef /\ FS!Decide(c, FAILED)
      BY <1>1, <1>3, CodeDecideIs, CodeFacts
    <2> QED
      BY <1>2, <1>3, <2>1, SameRules DEF FS!Mkdir, FS!tree, fsVars
  <1>4. CASE /\ dirent[call[c].name] = NoIno /\ Answer(c, 0, 0)
             /\ \E i \in FreeInodes :
                   /\ dirent' = [dirent EXCEPT ![call[c].name] = i]
                   /\ kind' = [kind EXCEPT ![i] = "dir"]
                   /\ data' = [data EXCEPT ![i] = <<>>]
    <2>1. AbsRef' = AbsRef /\ FS!Decide(c, 0)
      <3>1. PICK r \in Codes \cup {0} : Answer(c, r, 0) /\ r = 0
        BY <1>4, CodeFacts
      <3> QED
        BY <1>1, <3>1, CodeDecideIs
    <2>2. \E i \in FS!Unreferenced :
              /\ dirent' = [dirent EXCEPT ![AbsCall[c].name] = i]
              /\ kind' = [kind EXCEPT ![i] = "dir"]
              /\ data' = [data EXCEPT ![i] = <<>>]
      BY <1>2, <1>4, FreeIsUnreferenced
    <2> QED
      BY <1>2, <1>4, <2>1, <2>2 DEF FS!Mkdir
  <1> QED
    BY <1>3, <1>4 DEF SrvMkdir

LEMMA SrvCloseIs ==
    ASSUME TypeInv, HandleIsolation, SlotCalls, NEW c \in Clients, AbsAlone(c), SrvClose(c)
    PROVE  FS!Close(c)
  <1>1. /\ phase[c] = "sent" /\ call[c].op \in {"close", "drop"}
        /\ UNCHANGED <<dirent, kind, data>>
    BY DEF SrvClose, Serving
  <1>2. AbsCall[c] = call[c] /\ (FS!Busy(c, "close") \/ FS!Busy(c, "drop"))
    BY <1>1, ServedCall DEF Serving
  <1>3. PICK s \in Slots : s = call[c].slot /\ file[c][s] \in Fds
    BY <1>1 DEF TypeInv, CallShapes, CallShape, ObjectCall
  <1>4. Held(c, s) = file[c][s]
    BY <1>1, IdleHeld
  <1>5. PICK f \in Fds : f = file[c][s]
    BY <1>3
  <1>6. fdt[f] # NoIno
    BY <1>4, <1>5, HolderFacts DEF HandleIsolation
  <1>7. fdt' = [fdt EXCEPT ![f] = NoIno] /\ Answer(c, 0, 0)
    BY <1>3, <1>5, <1>6 DEF SrvClose, NodeOf, Fh
  <1>8. /\ phase'[c] = "replied" /\ root' = root /\ file' = file /\ call' = call
    BY <1>7, AnswerAlone
  <1>9. ~Opening(c)' /\ Closing(c, s)' /\ \A t \in Slots \ {s} : ~Closing(c, t)'
    BY <1>1, <1>3, <1>8 DEF Opening, Closing, Replied
  <1>10. NodeOf(Held(c, s))' = NoIno
    <2>1. Held(c, s)' = Closed
      BY <1>9, HeldBySlot
    <2> QED
      BY <2>1, NotFds DEF NodeOf
  <1>11. ASSUME NEW t \in Holders \ {s}
         PROVE  NodeOf(Held(c, t))' = NodeOf(Held(c, t))
    <2>1. Held(c, t)' = Held(c, t)
      <3>1. CASE t = NewHolder
        BY <1>1, <1>9, <3>1, HeldElsewhere, IdleHeld
      <3>2. CASE t # NewHolder
        BY <1>1, <1>8, <1>9, <3>2, AnswerHeld
      <3> QED
        BY <3>1, <3>2
    <2>2. Held(c, t) \in Fds => Held(c, t) # f
      BY <1>4, <1>5, HolderFacts DEF HandleIsolation
    <2>3. Held(c, t) \in Fds => fdt'[Held(c, t)] = fdt[Held(c, t)]
      BY <1>7, <2>2 DEF TypeInv, TypeOK
    <2> QED
      BY <2>1, <2>3 DEF NodeOf
  <1>12. AbsRef' = [AbsRef EXCEPT ![c] = [AbsRef[c] EXCEPT ![s] = NoIno]]
    <2>1. AbsRef'[c] = [AbsRef[c] EXCEPT ![s] = NoIno]
      BY <1>10, <1>11, RefMoves, HolderFacts
    <2> QED
      BY <2>1, AbsChange
  <1>13. AbsRef' = [AbsRef EXCEPT ![c][AbsCall[c].slot] = NoIno]
    BY <1>2, <1>3, <1>12
  <1>14. AbsRef[c][AbsCall[c].slot] # NoIno
    <2>1. AbsRef[c][call[c].slot] = NodeOf(Fh(c))
      BY <1>1, <1>3, ServedCall
    <2>2. NodeOf(Fh(c)) # NoIno
      BY <1>3, <1>5, <1>6 DEF Fh, NodeOf
    <2> QED
      BY <1>2, <2>1, <2>2
  <1>15. FS!Decide(c, 0)
    <2>1. PICK r \in Codes \cup {0}, n \in Int : Answer(c, r, n) /\ r = 0 /\ n = 0
      BY <1>7, CodeFacts
    <2> QED
      BY <1>1, <2>1, DecideIs
  <1> QED
    BY <1>1, <1>2, <1>13, <1>14, <1>15 DEF FS!Close, FS!tree

\* An open gives its new holder the node that the server opened.
LEMMA OpenRefs ==
    ASSUME TypeInv, HandleIsolation, NEW c \in Clients, AbsAlone(c), phase[c] = "sent",
           call[c].op = "get_entry" \/ (call[c].op = "mount" /\ call[c].i = 2),
           NEW f \in Fds, fdt[f] = NoIno, NEW i, fdt' = [fdt EXCEPT ![f] = i],
           Answer(c, 0, f)
    PROVE  AbsRef' = [AbsRef EXCEPT ![c][NewHolder] = i]
  <1>1. /\ phase'[c] = "replied" /\ reply'[c].size = f
        /\ root' = root /\ file' = file /\ call' = call
    BY AnswerAlone
  <1>2. Opening(c)' /\ \A s \in Slots : ~Closing(c, s)'
    BY <1>1 DEF Opening, Closing, Replied
  <1>3. NodeOf(Held(c, NewHolder))' = i
    <2>1. Held(c, NewHolder)' = f
      BY <1>1, <1>2, HeldElsewhere
    <2>2. fdt'[f] = i
      BY DEF TypeInv, TypeOK
    <2> QED
      BY <2>1, <2>2 DEF NodeOf
  <1>4. ASSUME NEW t \in Holders \ {NewHolder}
        PROVE  NodeOf(Held(c, t))' = NodeOf(Held(c, t))
    <2>1. Held(c, t)' = Held(c, t)
      BY <1>1, <1>2, AnswerHeld
    <2>2. Held(c, t) # f
      BY DEF HandleIsolation
    <2>3. Held(c, t) \in Fds => fdt'[Held(c, t)] = fdt[Held(c, t)]
      BY <2>2 DEF TypeInv, TypeOK
    <2> QED
      BY <2>1, <2>3 DEF NodeOf
  <1>5. AbsRef'[c] = [AbsRef[c] EXCEPT ![NewHolder] = i]
    BY <1>3, <1>4, RefMoves, HolderFacts
  <1>6. AbsRef' = [AbsRef EXCEPT ![c] = [AbsRef[c] EXCEPT ![NewHolder] = i]]
    BY <1>5, AbsChange
  <1> QED
    BY <1>6

LEMMA SrvOpenIs ==
    ASSUME TypeInv, HandleIsolation, NEW c \in Clients, AbsAlone(c), SrvOpen(c)
    PROVE  FS!Open(c)
  <1> DEFINE p == call[c].name
             fl == call[c].flags
  <1>1. /\ phase[c] = "sent"
        /\ call[c].op = "get_entry" \/ (call[c].op = "mount" /\ call[c].i = 2)
    BY DEF SrvOpen, Serving
  <1>2. AbsCall[c].name = p /\ AbsCall[c].flags = fl /\ AbsCall[c].op = call[c].op
    <2>1. call[c] \in Requests /\ AbsCall[c] = Plain(call[c])
      BY <1>1, BeforeSent DEF TypeInv, TypeOK
    <2> QED
      BY <2>1 DEF Plain, Requests
  <1>3. FS!Busy(c, "get_entry") \/ FS!Busy(c, "mount")
    BY <1>1, <1>2, BeforeSent DEF FS!Busy
  <1>4. CASE Answer(c, 0, FAILED) /\ UNCHANGED fsVars
    <2>1. fdt' = fdt
      BY <1>4 DEF fsVars
    <2>2. AbsRef' = AbsRef
      BY <1>1, <1>4, <2>1, NotFds, AnswerRefs
    <2>3. FS!Decide(c, FAILED)
      <3>1. PICK r \in Codes \cup {0}, n \in Int : Answer(c, r, n) /\ n = FAILED
        BY <1>4, CodeFacts
      <3>2. FS!Decide(c, IF n < 0 THEN n ELSE 0)
        BY <1>1, <3>1, DecideIs
      <3> QED
        BY <3>1, <3>2, CodeFacts
    <2> QED
      BY <1>3, <1>4, <2>2, <2>3, SameRules DEF FS!Open, FS!tree, fsVars
  <1>5. ASSUME NEW f \in Fds, Answer(c, 0, f)
        PROVE  FS!Decide(c, 0)
    <2>1. PICK r \in Codes \cup {0}, n \in Int : Answer(c, r, n) /\ n = f
      BY <1>5, CodeFacts
    <2>2. FS!Decide(c, IF n < 0 THEN n ELSE 0)
      BY <1>1, <2>1, DecideIs
    <2>3. ~(n < 0)
      BY <2>1
    <2> QED
      BY <2>2, <2>3
  <1>6. ~OpenRefused(p, fl) => ~FS!OpenConflict(dirent, kind, p, fl)
    BY SameConflicts DEF OpenRefused
  <1>7. CASE /\ ~OpenRefused(p, fl) /\ dirent[p] # NoIno
             /\ \E f \in Fds : /\ LowestFree(f) /\ fdt' = [fdt EXCEPT ![f] = dirent[p]]
                               /\ Answer(c, 0, f)
             /\ data' = IF "O_TRUNC" \in fl THEN [data EXCEPT ![dirent[p]] = <<>>] ELSE data
             /\ UNCHANGED <<dirent, kind>>
    <2>1. PICK f \in Fds : /\ fdt[f] = NoIno /\ fdt' = [fdt EXCEPT ![f] = dirent[p]]
                           /\ Answer(c, 0, f)
      BY <1>7 DEF LowestFree
    <2>2. AbsRef' = [AbsRef EXCEPT ![c][NewHolder] = dirent[p]]
      BY <1>1, <2>1, OpenRefs
    <2>3. FS!Decide(c, 0)
      BY <1>5, <2>1
    <2> QED
      BY <1>2, <1>3, <1>6, <1>7, <2>2, <2>3, SameRules DEF FS!Open
  <1>8. CASE /\ ~OpenRefused(p, fl) /\ dirent[p] = NoIno
             /\ \E f \in Fds, i \in FreeInodes :
                   /\ LowestFree(f) /\ fdt' = [fdt EXCEPT ![f] = i]
                   /\ dirent' = [dirent EXCEPT ![p] = i]
                   /\ kind' = [kind EXCEPT ![i] = "file"]
                   /\ data' = [data EXCEPT ![i] = <<>>]
                   /\ Answer(c, 0, f)
    <2>1. PICK f \in Fds, i \in FreeInodes :
              /\ fdt[f] = NoIno /\ fdt' = [fdt EXCEPT ![f] = i]
              /\ dirent' = [dirent EXCEPT ![p] = i]
              /\ kind' = [kind EXCEPT ![i] = "file"]
              /\ data' = [data EXCEPT ![i] = <<>>]
              /\ Answer(c, 0, f)
      BY <1>8 DEF LowestFree
    <2>2. AbsRef' = [AbsRef EXCEPT ![c][NewHolder] = i]
      BY <1>1, <2>1, OpenRefs
    <2>3. FS!Decide(c, 0)
      BY <1>5, <2>1
    <2>4. i \in FS!Unreferenced
      BY FreeIsUnreferenced
    <2> QED
      BY <1>2, <1>3, <1>6, <1>8, <2>1, <2>2, <2>3, <2>4, SameRules DEF FS!Open
  <1> QED
    BY <1>4, <1>7, <1>8 DEF SrvOpen

\* One buffer of a vectored call is done.
LEMMA RoundIs ==
    ASSUME TypeInv, NEW c \in Clients, AbsAlone(c), NEW n \in Nat, Answer(c, 0, n),
           phase[c] = "sent", call[c].op \in {"preadv", "pwritev"}, NEW last,
           last <=> \/ call[c].i = Len(call[c].iov)
                    \/ call[c].op = "pwritev" /\ n # Len(call[c].iov[call[c].i])
    PROVE  FS!Progress(c, last,
               FS!Moved(c, n, IF call[c].op = "preadv"
                              THEN CopyOut(call[c].iov[call[c].i], rwBuf', n)
                              ELSE call[c].iov[call[c].i]))
  <1> DEFINE buf == IF call[c].op = "preadv" THEN CopyOut(call[c].iov[call[c].i], rwBuf', n)
                    ELSE call[c].iov[call[c].i]
             cl == FS!Moved(c, n, buf)
  <1>1. /\ phase'[c] = "replied" /\ reply'[c].ret = 0 /\ reply'[c].size = n
        /\ call' = call /\ res' = res
    BY AnswerStep, CodeFacts
  <1>2. AbsPhase[c] = "busy" /\ AbsAns[c] = 0 /\ AbsCall[c] = call[c]
    BY BeforeSent DEF Plain
  <1>3. Vector(c)' /\ ~Opening(c)' /\ (Last(c)' <=> last)
    BY <1>1 DEF Vector, Opening, Last, Replied
  <1>4. Advanced(c)' = cl
    <2>1. CASE call[c].op = "preadv"
      BY <1>1, <1>2, <2>1 DEF Advanced, FS!Moved, CopyOut
    <2>2. CASE call[c].op = "pwritev"
      BY <1>1, <1>2, <2>2 DEF Advanced, FS!Moved
    <2> QED
      BY <2>1, <2>2
  <1> HIDE DEF cl
  <1>5. AbsCall'[c] = cl
    BY <1>1, <1>3, <1>4 DEF AbsCall
  <1>6. AbsPhase'[c] = IF last THEN "done" ELSE "busy"
    BY <1>1, <1>3 DEF AbsPhase
  <1>7. AbsAns'[c] = IF last THEN cl.n ELSE 0
    BY <1>1, <1>3, <1>4 DEF AbsAns, Outcome
  <1>8. FS!Progress(c, last, cl)
    <2>1. CASE last
      BY <1>1, <1>5, <1>6, <1>7, <2>1, AbsChange DEF FS!Progress
    <2>2. CASE ~last
      BY <1>1, <1>2, <1>5, <1>6, <1>7, <2>2, AbsChange DEF FS!Progress
    <2> QED
      BY <2>1, <2>2
  <1> QED
    BY <1>8 DEF cl

\* A vectored call that the server serves, as FileService sees it.
LEMMA ServedVector ==
    ASSUME TypeInv, SlotCalls, NEW c \in Clients, phase[c] = "sent",
           call[c].op \in {"preadv", "pwritev"}
    PROVE  /\ AbsCall[c] = call[c] /\ FS!Busy(c, call[c].op) /\ ~FS!Oversized(AbsCall[c])
           /\ FS!Chunk(c) = call[c].iov[call[c].i]
           /\ AbsRef[c][AbsCall[c].slot] = NodeOf(Fh(c))
           /\ FS!LastChunk(c) <=> call[c].i = Len(call[c].iov)
           /\ \A ino : FS!IsFile(ino) <=> IsFile(ino)
  <1>1. AbsCall[c] = call[c] /\ FS!Busy(c, call[c].op)
    BY ServedCall DEF Serving
  <1>2. AbsRef[c][AbsCall[c].slot] = NodeOf(Fh(c))
    BY <1>1, ServedCall DEF SlotCalls, ObjectCalls
  <1>3. Len(call[c].iov[call[c].i]) \in 0..MaxBuf
    BY ChunkFacts DEF VectorCall
  <1>4. ~FS!Oversized(AbsCall[c])
    BY <1>1, <1>3 DEF FS!Oversized
  <1>5. \A ino : FS!IsFile(ino) <=> IsFile(ino)
    BY DEF FS!IsFile, IsFile
  <1> QED
    BY <1>1, <1>2, <1>4, <1>5 DEF FS!Chunk, FS!LastChunk

LEMMA ReadSlice ==
    ASSUME NEW d \in Seq(Cells), NEW off \in Nat, NEW m \in Nat, NEW n \in 0..m,
           n > 0 => off + n <= Len(d)
    PROVE  SubSeq(d, off + 1, off + n) \in Seq(Cells) /\ Len(SubSeq(d, off + 1, off + n)) = n
  OBVIOUS

\* What a client copies out of a buffer into which s was copied is s.
LEMMA CopiedThrough ==
    ASSUME NEW chunk \in Seq(Cells), Len(chunk) <= MaxBuf, NEW s \in Seq(Cells),
           NEW n \in 0..Len(chunk), Len(s) = n
    PROVE  CopyOut(chunk, Overlay(rwBuf, s), n) = CopyOut(chunk, s, n)
  <1>1. \A k \in 1..Len(chunk) : k <= n => Overlay(rwBuf, s)[k] = s[k]
    BY DEF Overlay
  <1> QED
    BY <1>1 DEF CopyOut

LEMMA SrvPreadIs ==
    ASSUME TypeInv, SlotCalls, NEW c \in Clients, AbsAlone(c), SrvPread(c)
    PROVE  FS!Read(c)
  <1> DEFINE ino == NodeOf(Fh(c))
             off == call[c].off
             chunk == call[c].iov[call[c].i]
             n == Readable(data[ino], off, Len(chunk))
             found == SubSeq(data[ino], off + 1, off + n)
  <1>1. /\ phase[c] = "sent" /\ call[c].op = "preadv" /\ VectorCall(c)
        /\ UNCHANGED <<dirent, kind, data, fdt>>
    BY DEF SrvPread, Serving, VectorCall, fsVars
  <1>2. /\ AbsCall[c] = call[c] /\ FS!Busy(c, "preadv") /\ ~FS!Oversized(AbsCall[c])
        /\ FS!Chunk(c) = chunk /\ AbsRef[c][AbsCall[c].slot] = ino
        /\ FS!LastChunk(c) <=> call[c].i = Len(call[c].iov)
        /\ FS!IsFile(ino) <=> IsFile(ino)
    BY <1>1, ServedVector
  <1>3. /\ off \in Int /\ chunk \in Seq(Cells) /\ Len(chunk) \in 0..MaxBuf
        /\ ino \in Inodes \cup {NoIno} /\ data \in [Inodes -> Seq(Cells)]
    BY <1>1, ChunkFacts, NodeOfType DEF TypeInv, TypeOK
  <1>4. AbsRef' = AbsRef
    <2>1. ~Opening(c)'
      <3>1. call' = call
        BY DEF SrvPread, Answer
      <3> QED
        BY <1>1, <3>1 DEF Opening, Replied
    <2>2. \E r, m : Answer(c, r, m)
      BY DEF SrvPread
    <2> QED
      BY <1>1, <2>1, <2>2, AnswerRefs
  <1>5. CASE /\ ~IsFile(ino) \/ off < 0
             /\ Answer(c, FAILED, FAILED)
    <2>1. FS!Decide(c, FAILED)
      BY <1>1, <1>5, PlainDecideIs, CodeFacts
    <2>2. ~(FS!IsFile(ino) /\ off >= 0)
      BY <1>2, <1>3, <1>5
    <2> QED
      BY <1>1, <1>2, <1>4, <2>1, <2>2, SameRules DEF FS!Read, FS!tree
  <1>6. CASE /\ IsFile(ino) /\ off >= 0
             /\ rwBuf' = Overlay(rwBuf, found) /\ Answer(c, 0, n)
    <2>1. ino \in Inodes /\ off \in Nat /\ Len(chunk) \in Nat /\ data[ino] \in Seq(Cells)
      BY <1>3, <1>6 DEF IsFile
    <2>2. n \in 0..Len(chunk) /\ (n > 0 => off + n <= Len(data[ino]))
      BY <2>1, ReadableRange
    <2>3. n = FS!Readable(data[ino], off, Len(chunk))
      BY SameTransfers
    <2> HIDE DEF n
    <2>4. found \in Seq(Cells) /\ Len(found) = n
      <3>1. PICK d \in Seq(Cells) : d = data[ino]
        BY <2>1
      <3>2. /\ off \in Nat /\ Len(chunk) \in Nat /\ n \in 0..Len(chunk)
            /\ n > 0 => off + n <= Len(d)
        BY <2>1, <2>2, <3>1
      <3> HIDE DEF off, chunk, ino
      <3>3. SubSeq(d, off + 1, off + n) \in Seq(Cells) /\ Len(SubSeq(d, off + 1, off + n)) = n
        BY <3>2, ReadSlice
      <3> QED
        BY <3>1, <3>3
    <2>5. CopyOut(chunk, rwBuf', n) = FS!CopyOut(chunk, found, n)
      <3>1. CopyOut(chunk, Overlay(rwBuf, found), n) = CopyOut(chunk, found, n)
        <4>1. Len(chunk) <= MaxBuf /\ chunk \in Seq(Cells) /\ n \in 0..Len(chunk)
          BY <1>3, <2>2
        <4> HIDE DEF chunk, found
        <4> QED
          BY <2>4, <4>1, CopiedThrough
      <3> QED
        BY <1>6, <3>1, SameTransfers
    <2>6. FS!Progress(c, FS!LastChunk(c), FS!Moved(c, n, CopyOut(chunk, rwBuf', n)))
      <3>1. n \in Nat
        BY <2>1, <2>2
      <3>2. PICK l : l = FS!LastChunk(c)
        OBVIOUS
      <3>3. l <=> call[c].i = Len(call[c].iov)
        BY <1>2, <3>2
      <3>4. FS!Progress(c, l, FS!Moved(c, n, CopyOut(chunk, rwBuf', n)))
        BY <1>1, <1>6, <3>1, <3>3, RoundIs
      <3> QED
        BY <3>2, <3>4
    <2> HIDE DEF chunk, found, ino, off
    <2>7. FS!IsFile(ino) /\ off >= 0
      BY <1>2, <1>6
    <2> USE DEF chunk, off
    <2>8. FS!Readable(data[ino], AbsCall[c].off, Len(FS!Chunk(c))) = n
      BY <1>2, <2>3
    <2>9. SubSeq(data[ino], AbsCall[c].off + 1, AbsCall[c].off + n) = found
      BY <1>2 DEF found
    <2> HIDE DEF chunk, off
    <2>10. FS!Progress(c, FS!LastChunk(c), FS!Moved(c, n, FS!CopyOut(FS!Chunk(c), found, n)))
      BY <1>2, <2>5, <2>6
    <2>11. AbsCall[c].off >= 0
      BY <1>2, <2>7 DEF off
    <2> QED
      BY <1>1, <1>2, <1>4, <2>7, <2>8, <2>9, <2>10, <2>11 DEF FS!Read, FS!tree
  <1> QED
    BY <1>5, <1>6 DEF SrvPread

LEMMA SrvPwriteIs ==
    ASSUME TypeInv, SlotCalls, NEW c \in Clients, AbsAlone(c), RequestInBuffer(c),
           SrvPwrite(c)
    PROVE  FS!Write(c)
  <1> DEFINE ino == NodeOf(Fh(c))
             off == call[c].off
             chunk == call[c].iov[call[c].i]
             n == Writable(off, Len(chunk))
  <1>1. /\ phase[c] = "sent" /\ call[c].op = "pwritev" /\ VectorCall(c)
        /\ UNCHANGED <<dirent, kind, fdt, rwBuf>>
    BY DEF SrvPwrite, Serving, VectorCall
  <1>2. /\ AbsCall[c] = call[c] /\ FS!Busy(c, "pwritev") /\ ~FS!Oversized(AbsCall[c])
        /\ FS!Chunk(c) = chunk /\ AbsRef[c][AbsCall[c].slot] = ino
        /\ FS!LastChunk(c) <=> call[c].i = Len(call[c].iov)
        /\ FS!IsFile(ino) <=> IsFile(ino)
    BY <1>1, ServedVector
  <1>3. /\ off \in Int /\ chunk \in Seq(Cells) /\ Len(chunk) \in 0..MaxBuf
        /\ rwBuf \in [1..MaxBuf -> Cells]
    BY <1>1, ChunkFacts DEF TypeInv, TypeOK
  <1>4. AbsRef' = AbsRef
    <2>1. ~Opening(c)'
      <3>1. call' = call
        BY DEF SrvPwrite, Answer
      <3> QED
        BY <1>1, <3>1 DEF Opening, Replied
    <2>2. \E r, m : Answer(c, r, m)
      BY DEF SrvPwrite
    <2> QED
      BY <1>1, <2>1, <2>2, AnswerRefs
  <1>5. n = FS!Writable(AbsCall[c].off, Len(FS!Chunk(c)))
    BY <1>2, SameTransfers
  <1> DEFINE done == FS!IsFile(ino) /\ off >= 0 /\ (n > 0 \/ Len(chunk) = 0)
             new == Splice(data[ino], off, SubSeq(chunk, 1, n))
  <1>6. CASE /\ ~IsFile(ino) \/ off < 0 \/ (n = 0 /\ Len(chunk) > 0)
             /\ Answer(c, FAILED, FAILED) /\ UNCHANGED data
    <2>1. FS!Decide(c, FAILED)
      BY <1>1, <1>6, PlainDecideIs, CodeFacts
    <2>2. ~done
      BY <1>2, <1>3, <1>6
    <2> HIDE DEF n
    <2> QED
      BY <1>1, <1>2, <1>4, <1>5, <1>6, <2>1, <2>2, SameRules DEF FS!Write
  <1>7. CASE /\ IsFile(ino) /\ off >= 0 /\ (n > 0 \/ Len(chunk) = 0) /\ Answer(c, 0, n)
             /\ data' = IF n = 0 THEN data
                        ELSE [data EXCEPT ![ino] = Splice(@, off, SubSeq(rwBuf, 1, n))]
    <2>1. n \in 0..Len(chunk)
      BY <1>3, <1>7, WritableRange
    <2> HIDE DEF n
    <2>2. SubSeq(rwBuf, 1, n) = SubSeq(chunk, 1, n)
      <3>1. \A k \in 1..Len(chunk) : rwBuf[k] = chunk[k]
        BY <1>1 DEF RequestInBuffer, Serving
      <3>2. n <= MaxBuf /\ n <= Len(chunk) /\ n \in Nat
        BY <1>3, <2>1
      <3>3. rwBuf \in Seq(Cells) /\ Len(rwBuf) = MaxBuf
        BY <1>3
      <3> HIDE DEF chunk
      <3> QED
        BY <1>3, <3>1, <3>2, <3>3
    <2>3. data' = IF n = 0 THEN data ELSE [data EXCEPT ![ino] = new]
      BY <1>7, <2>2
    <2>4. new = FS!Splice(data[ino], AbsCall[c].off, SubSeq(FS!Chunk(c), 1, n))
      BY <1>2, SameTransfers
    <2>5. FS!Progress(c, FS!LastChunk(c) \/ n < Len(FS!Chunk(c)), FS!Moved(c, n, FS!Chunk(c)))
      <3>1. n \in Nat
        BY <1>3, <2>1
      <3>2. PICK l : l = (FS!LastChunk(c) \/ n < Len(FS!Chunk(c)))
        OBVIOUS
      <3>3. l <=> call[c].i = Len(call[c].iov) \/ n # Len(chunk)
        <4>1. n < Len(chunk) <=> n # Len(chunk)
          BY <1>3, <2>1
        <4> QED
          BY <1>2, <3>2, <4>1
      <3>4. FS!Progress(c, l, FS!Moved(c, n, chunk))
        BY <1>1, <1>7, <3>1, <3>3, RoundIs
      <3> QED
        BY <1>2, <3>2, <3>4
    <2>6. done
      BY <1>2, <1>7
    <2> HIDE DEF chunk, ino, new, done
    <2>7. data' = IF n = 0 THEN data
                  ELSE [data EXCEPT ![ino] = FS!Splice(@, AbsCall[c].off,
                                                       SubSeq(FS!Chunk(c), 1, n))]
      BY <2>3, <2>4
    <2> QED
      BY <1>1, <1>2, <1>4, <1>5, <2>5, <2>6, <2>7 DEF FS!Write, done
  <1> QED
    BY <1>6, <1>7 DEF SrvPwrite

-----------------------------------------------------------------------------
(* All steps together. *)

\* Nobody else moves in a step of c.
LEMMA StepAlone ==
    ASSUME TypeInv, HandleIsolation, NEW c \in Clients,
           Invoke(c) \/ Dispatch(c) \/ TakeReply(c) \/ Kill(c)
    PROVE  Alone(c)
  <1>1. CASE Invoke(c)
    BY <1>1, InvokeQuiet
  <1>2. CASE Dispatch(c)
    BY <1>2, SrvOpenHandles, SrvCloseHandles, DispatchQuiet
  <1>3. CASE Kill(c)
    BY <1>3, KillQuiet
  <1>4. CASE MountReply(c)
    <2>1. \A d \in Clients \ {c} : /\ phase'[d] = phase[d] /\ call'[d] = call[d]
                                   /\ reply'[d] = reply[d]
      BY <1>4, ReturnAlone, SendAlone DEF MountReply
    <2>2. \A d \in Clients \ {c} : root'[d] = root[d] /\ file'[d] = file[d]
      BY <1>4 DEF MountReply, TypeInv, TypeOK
    <2> QED
      BY <2>1, <2>2 DEF Alone
  <1>5. CASE GetEntryReply(c)
    <2>1. \A d \in Clients \ {c} : /\ phase'[d] = phase[d] /\ call'[d] = call[d]
                                   /\ reply'[d] = reply[d]
      BY <1>5, ReturnAlone DEF GetEntryReply
    <2>2. \A d \in Clients \ {c} : root'[d] = root[d] /\ file'[d] = file[d]
      BY <1>5 DEF GetEntryReply, TypeInv, TypeOK
    <2> QED
      BY <2>1, <2>2 DEF Alone
  <1>6. CASE CloseReply(c) \/ PlainReply(c) \/ TransferReply(c)
    BY <1>6, CloseReplyQuiet, PlainReplyQuiet
  <1> QED
    BY <1>1, <1>2, <1>3, <1>4, <1>5, <1>6 DEF TakeReply

\* What the server reads from the buffer is what c put there, if it reads anything.
BufferIsOwn == OneClient => RequestsForwarded

LEMMA ServerReadsOwn ==
    ASSUME TypeInv, Undisturbed, BufferIsOwn, NEW c \in Clients, SrvPwrite(c) \/ SrvRename(c)
    PROVE  RequestInBuffer(c)
  <1>1. CASE OneClient
    BY <1>1 DEF BufferIsOwn, RequestsForwarded
  <1>2. CASE Unbuffered
    <2>1. call[c].op \in Calls \cup {"none"}
      BY DEF TypeInv, TypeOK, Requests
    <2> QED
      BY <1>2, <2>1 DEF Unbuffered, SrvPwrite, SrvRename, Serving
  <1> QED
    BY <1>1, <1>2 DEF Undisturbed

LEMMA DispatchIs ==
    ASSUME TypeInv, HandleIsolation, SlotCalls, Undisturbed, BufferIsOwn,
           NEW c \in Clients, AbsAlone(c), Dispatch(c)
    PROVE  \/ FS!Open(c) \/ FS!Read(c) \/ FS!Write(c) \/ FS!Close(c) \/ FS!Stat(c)
           \/ FS!Rename(c) \/ FS!Remove(c) \/ FS!Mkdir(c) \/ FS!Other(c)
           \/ UNCHANGED FS!vars
  <1>1. SrvPwrite(c) => FS!Write(c)
    BY SrvPwriteIs, ServerReadsOwn
  <1>2. SrvRename(c) => FS!Rename(c)
    BY SrvRenameIs, ServerReadsOwn
  <1>3. /\ SrvInit(c) => UNCHANGED FS!vars
        /\ SrvOpen(c) => FS!Open(c)
        /\ SrvPread(c) => FS!Read(c)
        /\ SrvClose(c) => FS!Close(c)
        /\ SrvFstat64(c) => FS!Stat(c)
    BY SrvInitIs, SrvOpenIs, SrvPreadIs, SrvCloseIs, SrvFstat64Is
  <1>4. /\ SrvDataspace(c) \/ SrvUnimplemented(c) => FS!Other(c)
        /\ SrvUnlink(c) \/ SrvRmdir(c) => FS!Remove(c)
        /\ SrvMkdir(c) => FS!Mkdir(c)
    BY SrvOtherIs, SrvRemoveIs, SrvMkdirIs
  <1> QED
    BY <1>1, <1>2, <1>3, <1>4 DEF Dispatch

LEMMA StepIs ==
    ASSUME TypeInv, HandleIsolation, SlotCalls, Undisturbed, BufferIsOwn, [Next]_vars
    PROVE  [FS!Next]_(FS!vars)
  <1>1. ASSUME NEW c \in Clients, Invoke(c) \/ Dispatch(c) \/ TakeReply(c) \/ Kill(c)
        PROVE  [FS!Next]_(FS!vars)
    <2>1. AbsAlone(c)
      BY <1>1, StepAlone, AloneIsAbsAlone
    <2>2. CASE Invoke(c)
      BY <2>1, <2>2, InvokeIs DEF FS!Next
    <2>3. CASE Dispatch(c)
      BY <2>1, <2>3, DispatchIs DEF FS!Next
    <2>4. CASE TakeReply(c)
      <3>1. FS!Return(c) \/ FS!Refuse(c) \/ FS!Fault(c) \/ UNCHANGED FS!vars
        BY <2>1, <2>4, MountReplyIs, GetEntryReplyIs, CloseReplyIs, PlainReplyIs,
           TransferReplyIs DEF TakeReply
      <3> QED
        BY <3>1 DEF FS!Next
    <2>5. CASE Kill(c)
      BY <2>1, <2>5, KillIs DEF FS!Next
    <2> QED
      BY <1>1, <2>2, <2>3, <2>4, <2>5
  <1>2. CASE UNCHANGED vars
    <2>1. \A c \in Clients : \A t \in Holders : Held(c, t)' = Held(c, t)
      BY <1>2 DEF vars, Held, Opening, Closing, Replied
    <2>2. AbsRef' = AbsRef
      BY <1>2, <2>1 DEF vars, AbsRef, NodeOf
    <2>3. AbsPhase' = AbsPhase
      BY <1>2 DEF vars, AbsPhase, Last, Vector, Replied
    <2>4. AbsCall' = AbsCall
      BY <1>2 DEF vars, AbsCall, Vector, Replied, Advanced, CopyOut
    <2>5. AbsAns' = AbsAns
      BY <1>2 DEF vars, AbsAns, Last, Outcome, Opening, Vector, Replied, Advanced
    <2> QED
      BY <1>2, <2>2, <2>3, <2>4, <2>5 DEF vars, FS!vars
  <1> QED
    BY <1>1, <1>2 DEF Next

LEMMA InitIs == Init => FS!Init /\ SlotCalls /\ BufferIsOwn
  <1> SUFFICES ASSUME Init
               PROVE  FS!Init /\ SlotCalls /\ BufferIsOwn
    OBVIOUS
  <1>1. \A c \in Clients : phase[c] = "idle" /\ call[c] = NoCall /\ NoCall.op = "none"
    BY DEF Init, NoCall
  <1>2. SlotCalls
    BY <1>1 DEF SlotCalls, ObjectCalls
  <1>3. BufferIsOwn
    BY <1>1 DEF BufferIsOwn, RequestsForwarded, RequestInBuffer, Serving
  <1>4. AbsRef = [c \in Clients |-> [t \in Holders |-> NoIno]]
    <2>1. ASSUME NEW c \in Clients, NEW t \in Holders
          PROVE  NodeOf(Held(c, t)) = NoIno
      <3>1. Held(c, t) \notin Fds
        <4>1. root[c] = Closed /\ \A s \in Slots : file[c][s] = NoObject
          BY DEF Init
        <4>2. phase[c] # "replied"
          BY <1>1
        <4>3. CASE t \in Slots
          BY <4>1, <4>2, <4>3, IdleHeld, NotFds
        <4>4. CASE t \in {RootHolder, NewHolder}
          BY <4>1, <4>2, <4>4, IdleHeld, NotFds
        <4> QED
          BY <4>3, <4>4, HolderFacts
      <3> QED
        BY <3>1 DEF NodeOf
    <2> QED
      BY <2>1 DEF AbsRef
  <1>5. AbsPhase = [c \in Clients |-> "idle"]
    BY <1>1 DEF AbsPhase
  <1>6. AbsCall = [c \in Clients |-> NoCall]
    BY <1>1 DEF AbsCall, Vector, Replied
  <1>7. AbsAns = [c \in Clients |-> 0]
    BY <1>1 DEF AbsAns, Last
  <1>8. FS!Init
    BY <1>4, <1>5, <1>6, <1>7, SameRules DEF Init, FsInit, FS!Init
  <1> QED
    BY <1>2, <1>3, <1>8

\* L4fs_file_system, L4fs_dir and L4fs_file keep what the backend promises, for
\* every number of objects, descriptors, paths, nodes and cells, whatever fails
\* or is killed: every step of a client or of fs_srv is one of FileService or
\* changes nothing there.  They do so as long as the shared buffer serves one
\* client, or no client makes a call that passes data through it.
THEOREM Refinement ==
    ASSUME Undisturbed
    PROVE  Spec => ImplementsFileService
  <1>1. Init => FS!Init /\ SlotCalls /\ BufferIsOwn
    BY InitIs
  <1>2. TypeInv /\ SlotCalls /\ BufferIsOwn /\ [Next]_vars => SlotCalls' /\ BufferIsOwn'
    BY SlotCallsStep, ForwardStep DEF BufferIsOwn, OneClient
  <1>3. TypeInv /\ HandleIsolation /\ SlotCalls /\ BufferIsOwn /\ [Next]_vars
            => [FS!Next]_(FS!vars)
    BY StepIs
  <1> QED
    BY <1>1, <1>2, <1>3, TypeInvHolds, HandlesIsolated, PTL
       DEF Spec, ImplementsFileService, FS!Spec
=============================================================================
