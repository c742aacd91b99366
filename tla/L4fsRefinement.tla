--------------------------- MODULE L4fsRefinement ---------------------------
(***************************************************************************)
(* How the states of L4fs are states of FileService.  A call takes effect  *)
(* when the server dispatches its request, so a client whose reply is on   *)
(* the way has done that part of its call already.                         *)
(***************************************************************************)
EXTENDS L4fs

Vector(c) == Replied(c, "preadv") \/ Replied(c, "pwritev")

\* The reply that c is about to take is the last one of its call.
Last(c) ==
    /\ phase[c] = "replied"
    /\ Replied(c, "mount") => call[c].i = 2
    /\ Vector(c) => \/ reply[c].ret < 0
                    \/ call[c].i = Len(call[c].iov)
                    \/ /\ call[c].op = "pwritev"
                       /\ reply[c].size # Len(call[c].iov[call[c].i])

\* What the call returns when c takes that reply.
Outcome(c) ==
    IF Opening(c) THEN IF reply[c].size < 0 THEN reply[c].size ELSE 0
    ELSE IF Vector(c) /\ reply[c].ret = 0 THEN Advanced(c).n
    ELSE IF Replied(c, "fstat64") /\ reply[c].ret = 0 THEN reply[c].size
    ELSE reply[c].ret

AbsRef == [c \in Clients |-> [t \in Holders |-> NodeOf(Held(c, t))]]
AbsPhase == [c \in Clients |->
                IF phase[c] = "sent" THEN "busy"
                ELSE IF phase[c] # "replied" THEN phase[c]
                ELSE IF Last(c) THEN "done" ELSE "busy"]
AbsCall == [c \in Clients |->
                IF Vector(c) /\ reply[c].ret = 0 THEN Advanced(c)
                ELSE IF call[c].op = "mount" THEN [call[c] EXCEPT !.i = 1]
                ELSE call[c]]
AbsAns == [c \in Clients |-> IF Last(c) THEN Outcome(c) ELSE 0]

FS == INSTANCE FileService
      WITH ref <- AbsRef, phase <- AbsPhase, call <- AbsCall, ans <- AbsAns

\* The backend keeps what it promises: every behaviour of clients and server
\* is one of the abstract file service.
ImplementsFileService == FS!Spec
=============================================================================
