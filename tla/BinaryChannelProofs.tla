------------------------ MODULE BinaryChannelProofs ------------------------
(***************************************************************************)
(* What is proved of BinaryChannel, for any number of connections, binaries *)
(* of any size and any size of the handler's buffer: the handler and the   *)
(* sender stay in step, and what arrives is stored in order.               *)
(***************************************************************************)
EXTENDS BinaryChannel, SequenceTheorems, TLAPS

-----------------------------------------------------------------------------
(* The inductive invariant, connection by connection. *)

\* Nothing will arrive any more.
Lost(c) == up[c] = "down" /\ toServer[c] = <<>>

\* A connection has a handler while it is up; one that is not used has no state.
Connected(c) ==
    /\ up[c] = "up" => handler[c] \in {"name", "size", "data", "write"}
    /\ handler[c] = "none" => /\ toServer[c] = <<>> /\ toClient[c] = <<>>
                              /\ sent[c] = <<>> /\ client[c] = "idle" /\ served[c] = 0
    /\ up[c] = "unused" <=> handler[c] = "none"

\* A client only sends its own uploads, and waits for the GO of the last one.
OwnUploads(c) ==
    /\ \A i \in 1..Len(sent[c]) : sent[c][i] \in Uploads /\ sent[c][i].conn = c
    /\ up[c] = "up" /\ client[c] = "waiting" =>
          Len(sent[c]) > 0 /\ cur[c] = sent[c][Len(sent[c])]

\* What is on its way to the handler: the last rem units of the content of upload k,
\* then the header of upload k + 1 without its first off units, if that was sent; if
\* the connection is down, what is left of that.
Stream(c, k, rem, off) ==
    /\ k <= Len(sent[c]) /\ Len(sent[c]) <= k + 1
    /\ Len(toServer[c]) <= rem + (IF Len(sent[c]) = k + 1 THEN 3 - off ELSE 0)
    /\ \A i \in 1..Len(toServer[c]) :
          toServer[c][i] = IF i <= rem
                           THEN sent[c][k].data[Len(sent[c][k].data) - rem + i]
                           ELSE Header(sent[c][k + 1])[i - rem + off]
    /\ up[c] = "up" =>
          /\ Len(toServer[c]) = rem + (IF Len(sent[c]) = k + 1 THEN 3 - off ELSE 0)
          /\ toClient[c] = <<>>
          /\ client[c] = "waiting" <=> Len(sent[c]) = k + 1

\* The client has not seen the GO yet.
GoPending(c) ==
    /\ toServer[c] = <<>> /\ Len(sent[c]) = served[c] + 1
    /\ handler[c] = "data" /\ left[c] = size[c] /\ buf[c] = <<>>
    /\ up[c] = "up" => client[c] = "waiting" /\ toClient[c] = <<GO_SEND>>

InFlow(c) ==
    /\ handler[c] = "name" =>
          served[c] <= Len(sent[c]) /\ (Lost(c) \/ Stream(c, served[c], 0, 0))
    /\ handler[c] = "size" =>
          Lost(c) \/ (Len(sent[c]) = served[c] + 1 /\ Stream(c, served[c], 0, 2))
    /\ handler[c] \in {"data", "write"} =>
          /\ size[c] # 0
          /\ Serving(c).loads =>
                Lost(c) \/ GoPending(c) \/ Stream(c, served[c] + 1, Due(c), 0)

\* Where the handler is in the content d of a binary.
InData(c, d) ==
    /\ 0 < left[c] /\ left[c] <= Len(d) /\ Len(buf[c]) < Wanted(c)
    /\ \A i \in 1..Len(buf[c]) : buf[c][i] = d[Len(d) - left[c] + i]
    /\ clean[c] /\ file[c] => pos[c] = Len(d) - left[c]
InWrite(c, d) ==
    /\ received[c] = Len(buf[c]) /\ left[c] + received[c] <= Len(d)
    /\ \A i \in 1..Len(buf[c]) : buf[c][i] = d[Len(d) - left[c] - received[c] + i]
    /\ clean[c] => written[c] <= received[c]
    /\ clean[c] /\ file[c] => pos[c] = Len(d) - left[c] - received[c] + written[c]

Chunks(c) ==
    handler[c] \in {"data", "write"} /\ Serving(c).loads =>
        LET d == Serving(c).data
        IN  /\ handler[c] = "data" => (Lost(c) /\ ~clean[c]) \/ InData(c, d)
            /\ handler[c] = "write" =>
                  \/ 0 < received[c] /\ received[c] <= MaxChunk /\ InWrite(c, d)
                  \/ /\ received[c] = 0 /\ Lost(c)
                     /\ clean[c] => /\ 0 < left[c] /\ left[c] <= Len(d)
                                    /\ file[c] => pos[c] = Len(d) - left[c]
                  \/ /\ received[c] > MaxChunk /\ Lost(c)
                     /\ clean[c] => /\ written[c] = 0
                                    /\ file[c] => pos[c] <= Len(d)

\* The path, the size and the position are those of the upload the handler is at, or
\* has just received.
AtUpload(c) ==
    /\ handler[c] \in {"size", "data", "write"} =>
          /\ served[c] < Len(sent[c])
          /\ path[c] = Serving(c).name
          /\ handler[c] # "size" => size[c] = SizeOf(Serving(c))
          /\ handler[c] = "size" => pos[c] = 0
    /\ handler[c] = "name" /\ served[c] > 0 => path[c] = sent[c][served[c]].name

\* A chunk that is written is in the buffer.
Buffered(c) == handler[c] = "write" /\ 0 < received[c] /\ received[c] <= MaxChunk =>
                  received[c] = Len(buf[c])

\* The invariant of one connection.
Kept(c) == /\ Connected(c) /\ OwnUploads(c) /\ AtUpload(c) /\ InFlow(c) /\ Chunks(c)
           /\ Buffered(c)

\* A position is never behind the end of its file, and content is a function.
Positions == \A c \in Conns :
    file[c] => content[path[c]] # NoFile /\ pos[c] <= Len(content[path[c]])
FileSystem == content = [p \in Names |-> content[p]]

BInv == TypeOK /\ FileSystem /\ Positions /\ \A c \in Conns : Kept(c)

-----------------------------------------------------------------------------
(* Facts about the constants and about size_t arithmetic. *)

LEMMA Sizes ==
    /\ Word \in Nat \ {0} /\ MaxChunk \in Nat \ {0}
    /\ Word - 1 >= Word \div 2
BY WordAssumption, ChunkAssumption

LEMMA AsSize ==
    ASSUME NEW x \in Int
    PROVE  x % Word \in 0..Word - 1 /\ (x \in 0..Word - 1 => x % Word = x)
BY WordAssumption

\* -errno as a size_t is 0, or more than rwBuffer holds.
LEMMA ErrnoAsSize ==
    ASSUME NEW e \in Errnos
    PROVE  (-e) % Word = 0 \/ (-e) % Word > MaxChunk
<1>1. e \in Nat /\ MaxChunk < Word - e - 1 BY WordAssumption
<1>2. CASE e = 0 BY <1>2, WordAssumption
<1>3. CASE e # 0
  <2>1. Word \in Nat /\ e < Word /\ MaxChunk \in Nat BY <1>1, WordAssumption, ChunkAssumption
  <2>2. (-e) % Word = Word - e BY <1>1, <1>3, <2>1
  <2>. QED BY <1>1, <2>1, <2>2
<1>. QED BY <1>2, <1>3

LEMMA UploadFacts ==
    ASSUME NEW u \in Uploads
    PROVE  /\ u.conn \in Conns /\ u.name \in Names /\ u.data \in Seq(Cells)
           /\ u.loads \in BOOLEAN /\ u \in UploadType
           /\ SizeOf(u) \in 0..Word - 1
           /\ u.loads => SizeOf(u) = Len(u.data) /\ SizeOf(u) < Word \div 2
           /\ ~u.loads => SizeOf(u) = Word - 1
<1>1. u \in UploadType BY UploadsAssumption
<1>2. /\ u.conn \in Conns /\ u.name \in Names /\ u.data \in Seq(Cells)
      /\ u.loads \in BOOLEAN
      BY <1>1 DEF UploadType
<1>3. Len(u.data) \in Nat /\ Len(u.data) < Word \div 2 BY <1>2, WordAssumption
<1>4. Word \div 2 <= Word /\ Word \div 2 \in Nat BY Sizes
<1>5. Word \in Nat \ {0} BY Sizes
<1>6. CASE u.loads
  <2>1. SizeOf(u) = Len(u.data) BY <1>6 DEF SizeOf
  <2>. QED BY <1>1, <1>2, <1>3, <1>4, <1>5, <1>6, <2>1
<1>7. CASE ~u.loads
  <2>1. SizeOf(u) = Word - 1 BY <1>7 DEF SizeOf
  <2>. QED BY <1>1, <1>2, <1>5, <1>7, <2>1
<1>. QED BY <1>6, <1>7

\* The units of a header.
LEMMA HeaderFacts ==
    ASSUME NEW u \in Uploads
    PROVE  /\ Header(u) \in Seq(Units) /\ Len(Header(u)) = 3
           /\ Header(u)[1] = 1 /\ Header(u)[2] = u.name /\ Header(u)[3] = SizeOf(u)
<1>1. 1 \in Units /\ u.name \in Units /\ SizeOf(u) \in Units
  <2>1. u.name \in Names /\ SizeOf(u) \in 0..Word - 1 BY UploadFacts
  <2>2. 0..Word - 1 \subseteq Nat /\ 1 \in Nat BY Sizes
  <2>. QED BY <2>1, <2>2 DEF Units
<1>. QED BY <1>1 DEF Header

LEMMA DataFacts ==
    ASSUME NEW u \in Uploads
    PROVE  u.data \in Seq(Units) /\ Len(u.data) \in Nat
<1>1. u.data \in Seq(Cells) /\ Cells \subseteq Units BY UploadFacts DEF Units
<1>. QED BY <1>1, SeqMonotonic

-----------------------------------------------------------------------------
(* One connection does not disturb another. *)

State(c) == <<up[c], toServer[c], toClient[c], client[c], cur[c], sent[c], handler[c],
              path[c], file[c], size[c], left[c], buf[c], received[c], written[c],
              pos[c], clean[c], served[c]>>

LEMMA Frame ==
    ASSUME NEW c \in Conns, Kept(c), State(c)' = State(c)
    PROVE  Kept(c)'
<1>. USE DEF State
<1>1. Connected(c)' BY DEF Kept, Connected
<1>2. OwnUploads(c)' BY DEF Kept, OwnUploads
<1>3. AtUpload(c)' BY DEF Kept, AtUpload, Serving
<1>4. Lost(c)' <=> Lost(c) BY DEF Lost
<1>5. InFlow(c)'
  <2>1. \A k, r, o : Stream(c, k, r, o) => Stream(c, k, r, o)' BY DEF Stream
  <2>2. GoPending(c) => GoPending(c)' BY DEF GoPending
  <2>3. Due(c)' = Due(c) BY DEF Due
  <2>. QED BY <1>4, <2>1, <2>2, <2>3 DEF Kept, InFlow, Serving
<1>6. Chunks(c)'
  <2>1. \A d : InData(c, d) => InData(c, d)' BY DEF InData, Wanted
  <2>2. \A d : InWrite(c, d) => InWrite(c, d)' BY DEF InWrite
  <2>. QED BY <1>4, <2>1, <2>2 DEF Kept, Chunks, Serving
<1>7. Buffered(c)' BY DEF Kept, Buffered
<1>. QED BY <1>1, <1>2, <1>3, <1>5, <1>6, <1>7 DEF Kept

-----------------------------------------------------------------------------
(* Types. *)

LEMMA Types ==
    ASSUME TypeOK, NEW c \in Conns
    PROVE  /\ up[c] \in {"unused", "up", "down"}
           /\ toServer[c] \in Seq(Units) /\ Len(toServer[c]) \in Nat
           /\ toClient[c] \in Seq({GO_SEND}) /\ client[c] \in {"idle", "waiting"}
           /\ sent[c] \in Seq(UploadType) /\ Len(sent[c]) \in Nat /\ reported[c] \in Nat
           /\ handler[c] \in {"none", "name", "size", "data", "write", "closed", "crashed"}
           /\ path[c] \in Names /\ file[c] \in BOOLEAN /\ clean[c] \in BOOLEAN
           /\ size[c] \in Nat /\ left[c] \in Nat /\ received[c] \in Nat /\ written[c] \in Nat
           /\ left[c] \in 0..Word - 1 /\ received[c] \in 0..Word - 1 
           /\ written[c] \in 0..Word - 1
           /\ buf[c] \in Seq(Units) /\ Len(buf[c]) \in Nat
           /\ pos[c] \in Nat /\ served[c] \in Nat
<1>1. Word \in Nat BY Sizes
<1>2. toServer[c] \in Seq(Units) /\ toClient[c] \in Seq({GO_SEND}) /\ sent[c] \in Seq(UploadType)
      /\ buf[c] \in Seq(Units)
      BY DEF TypeOK
<1>3. Len(toServer[c]) \in Nat /\ Len(sent[c]) \in Nat /\ Len(buf[c]) \in Nat BY <1>2
<1>4. /\ up[c] \in {"unused", "up", "down"}
      /\ client[c] \in {"idle", "waiting"} /\ reported[c] \in Nat
      /\ handler[c] \in {"none", "name", "size", "data", "write", "closed", "crashed"}
      /\ path[c] \in Names /\ file[c] \in BOOLEAN /\ clean[c] \in BOOLEAN
      /\ size[c] \in 0..Word - 1
      /\ left[c] \in 0..Word - 1 /\ received[c] \in 0..Word - 1 
      /\ written[c] \in 0..Word - 1
      /\ pos[c] \in Nat /\ served[c] \in Nat
      BY DEF TypeOK
<1>. QED BY <1>1, <1>2, <1>3, <1>4

\* Rest takes the first n units away.
LEMMA RestFacts ==
    ASSUME TypeOK, NEW c \in Conns, NEW n \in Nat, Arrived(c, n), toServer' = Rest(c, n)
    PROVE  /\ toServer' \in [Conns -> Seq(Units)]
           /\ Len(toServer'[c]) = Len(toServer[c]) - n
           /\ \A i \in 1..Len(toServer'[c]) : toServer'[c][i] = toServer[c][n + i]
           /\ \A d \in Conns : d # c => toServer'[d] = toServer[d]
<1>. DEFINE s == toServer[c]
            t == SubSeq(s, n + 1, Len(s))
<1>1. toServer \in [Conns -> Seq(Units)] /\ s \in Seq(Units) /\ Len(s) \in Nat /\ n <= Len(s)
      BY DEF TypeOK, Arrived
<1>2. \A i \in n + 1..Len(s) : s[i] \in Units BY <1>1
<1>3. /\ t \in Seq(Units)
      /\ Len(t) = IF n + 1 <= Len(s) THEN Len(s) - (n + 1) + 1 ELSE 0
      /\ \A i \in 1..Len(s) - (n + 1) + 1 : t[i] = s[n + 1 + i - 1]
      BY <1>1, <1>2, SubSeqProperties
<1>. HIDE DEF s, t
<1>4. Len(t) = Len(s) - n /\ \A i \in 1..Len(t) : t[i] = s[n + i]
  <2>1. Len(t) = Len(s) - n BY <1>1, <1>3
  <2>2. ASSUME NEW i \in 1..Len(t) PROVE t[i] = s[n + i]
    <3>1. i \in 1..Len(s) - (n + 1) + 1 /\ n + 1 + i - 1 = n + i BY <1>1, <2>1
    <3>. QED BY <1>3, <3>1
  <2>. QED BY <2>1, <2>2
<1>5. toServer' = [toServer EXCEPT ![c] = t] BY DEF Rest, s, t
<1>6. /\ toServer' \in [Conns -> Seq(Units)] /\ toServer'[c] = t
      /\ \A d \in Conns : d # c => toServer'[d] = toServer[d]
      BY <1>1, <1>3, <1>5
<1>. QED BY <1>4, <1>6 DEF s

\* n elements of a sequence after the first a.
LEMMA Slice ==
    ASSUME NEW s \in Seq(Units), NEW a \in Nat, NEW n \in Nat, a + n <= Len(s)
    PROVE  /\ SubSeq(s, a + 1, a + n) \in Seq(Units) /\ Len(SubSeq(s, a + 1, a + n)) = n
           /\ \A k \in 1..n : SubSeq(s, a + 1, a + n)[k] = s[a + k]
<1>1. PICK x \in Int, y \in Int : x = a + 1 /\ y = a + n OBVIOUS
<1>2. \A i \in x..y : s[i] \in Units BY <1>1, ElementOfSeq
<1>3. PICK t : t = SubSeq(s, x, y) OBVIOUS
<1>4. /\ t \in Seq(Units) /\ Len(t) = IF x <= y THEN y - x + 1 ELSE 0
      /\ \A i \in 1..y - x + 1 : t[i] = s[x + i - 1]
      BY <1>2, <1>3, SubSeqProperties
<1>5. Len(t) = n BY <1>1, <1>4
<1>6. ASSUME NEW k \in 1..n PROVE t[k] = s[a + k]
  <2>1. k \in 1..y - x + 1 /\ x + k - 1 = a + k BY <1>1
  <2>. QED BY <1>4, <2>1
<1>. QED BY <1>1, <1>3, <1>4, <1>5, <1>6

\* What is kept of a path's content by a write.
LEMMA WriteAtFacts ==
    ASSUME NEW d \in Seq(Units), NEW p \in Nat, p <= Len(d), NEW s \in Seq(Units)
    PROVE  /\ WriteAt(d, p, s) \in Seq(Units)
           /\ Len(WriteAt(d, p, s)) >= Len(d) /\ Len(WriteAt(d, p, s)) >= p + Len(s)
           /\ Len(WriteAt(d, p, s)) \in Nat
           /\ \A k \in 1..p : WriteAt(d, p, s)[k] = d[k]
           /\ \A k \in 1..Len(s) : WriteAt(d, p, s)[p + k] = s[k]
<1>1. Len(d) \in Nat /\ Len(s) \in Nat OBVIOUS
<1>2. PICK m \in Nat : m = IF p + Len(s) > Len(d) THEN p + Len(s) ELSE Len(d) BY <1>1
<1>3. PICK w : w = [k \in 1..m |-> IF k > p /\ k <= p + Len(s) THEN s[k - p] ELSE d[k]]
      OBVIOUS
<1>4. \A k \in 1..m : w[k] \in Units
  <2>1. ASSUME NEW k \in 1..m PROVE w[k] \in Units
    <3>1. CASE k > p /\ k <= p + Len(s)
      <4>1. k - p \in 1..Len(s) BY <1>1, <3>1
      <4>2. s[k - p] \in Units BY <4>1, ElementOfSeq
      <4>. QED BY <1>3, <3>1, <4>2
    <3>2. CASE ~(k > p /\ k <= p + Len(s))
      <4>1. k \in 1..Len(d) BY <1>1, <1>2, <3>2
      <4>2. d[k] \in Units BY <4>1, ElementOfSeq
      <4>. QED BY <1>3, <3>2, <4>2
    <3>. QED BY <3>1, <3>2
  <2>. QED BY <2>1
<1>5. w \in [1..m -> Units] BY <1>3, <1>4
<1>6. w \in Seq(Units) /\ Len(w) = m BY <1>5, <1>2
<1>7. WriteAt(d, p, s) = w BY <1>2, <1>3 DEF WriteAt
<1>8. m >= Len(d) /\ m >= p + Len(s) BY <1>1, <1>2
<1>9. \A k \in 1..p : w[k] = d[k] BY <1>1, <1>2, <1>3, <1>8
<1>10. \A k \in 1..Len(s) : w[p + k] = s[k]
  <2>1. ASSUME NEW k \in 1..Len(s) PROVE w[p + k] = s[k]
    <3>1. p + k \in 1..m /\ p + k > p /\ p + k <= p + Len(s) /\ (p + k) - p = k
          BY <1>1, <1>8
    <3>. QED BY <1>3, <3>1
  <2>. QED BY <2>1
<1>. QED BY <1>6, <1>7, <1>8, <1>9, <1>10

-----------------------------------------------------------------------------
(* What arrives at the handler is what it takes it for. *)

LEMMA NameArrives ==
    ASSUME TypeOK, NEW c \in Conns, Kept(c), handler[c] = "name", Arrived(c, 2)
    PROVE  /\ Stream(c, served[c], 0, 0) /\ Len(sent[c]) = served[c] + 1
           /\ Serving(c) \in Uploads /\ Serving(c).conn = c
           /\ toServer[c][2] = Serving(c).name /\ Serving(c).name \in Names
<1>1. /\ toServer[c] \in Seq(Units) /\ Len(toServer[c]) \in Nat /\ Len(sent[c]) \in Nat
      /\ served[c] \in Nat
      BY Types
<1>2. Len(toServer[c]) >= 2 /\ toServer[c] # <<>> BY DEF Arrived
<1>3. Stream(c, served[c], 0, 0) BY <1>2 DEF Kept, InFlow, Lost
<1>4. Len(sent[c]) = served[c] + 1 BY <1>1, <1>2, <1>3 DEF Stream
<1>5. Serving(c) \in Uploads /\ Serving(c).conn = c
  <2>1. served[c] + 1 \in 1..Len(sent[c]) BY <1>1, <1>4
  <2>. QED BY <2>1 DEF Kept, OwnUploads, Serving
<1>6. toServer[c][2] = Header(Serving(c))[2]
  <2>1. 2 \in 1..Len(toServer[c]) /\ ~(2 <= 0) /\ (2 - 0) + 0 = 2 BY <1>1, <1>2
  <2>. QED BY <1>3, <2>1 DEF Stream, Serving
<1>. QED BY <1>3, <1>4, <1>5, <1>6, HeaderFacts, UploadFacts

LEMMA SizeArrives ==
    ASSUME TypeOK, NEW c \in Conns, Kept(c), handler[c] = "size", Arrived(c, 1)
    PROVE  /\ Stream(c, served[c], 0, 2) /\ Len(sent[c]) = served[c] + 1
           /\ Serving(c) \in Uploads /\ Serving(c).conn = c
           /\ toServer[c][1] = SizeOf(Serving(c)) /\ SizeOf(Serving(c)) \in 0..Word - 1
<1>1. /\ toServer[c] \in Seq(Units) /\ Len(toServer[c]) \in Nat /\ Len(sent[c]) \in Nat
      /\ served[c] \in Nat
      BY Types
<1>2. Len(toServer[c]) >= 1 /\ toServer[c] # <<>> BY DEF Arrived
<1>3. Stream(c, served[c], 0, 2) /\ Len(sent[c]) = served[c] + 1
      BY <1>2 DEF Kept, InFlow, Lost
<1>5. Serving(c) \in Uploads /\ Serving(c).conn = c
  <2>1. served[c] + 1 \in 1..Len(sent[c]) BY <1>1, <1>3
  <2>. QED BY <2>1 DEF Kept, OwnUploads, Serving
<1>6. toServer[c][1] = Header(Serving(c))[3]
  <2>1. 1 \in 1..Len(toServer[c]) /\ ~(1 <= 0) /\ (1 - 0) + 2 = 3 BY <1>1, <1>2
  <2>. QED BY <1>3, <2>1 DEF Stream, Serving
<1>. QED BY <1>3, <1>5, <1>6, HeaderFacts, UploadFacts

\* The upload the handler is at.
LEMMA AtOwn ==
    ASSUME TypeOK, NEW c \in Conns, Kept(c), handler[c] \in {"size", "data", "write"}
    PROVE  /\ Serving(c) \in Uploads /\ Serving(c).conn = c /\ path[c] = Serving(c).name
           /\ served[c] + 1 \in 1..Len(sent[c])
           /\ handler[c] # "size" => size[c] = SizeOf(Serving(c))
<1>1. Len(sent[c]) \in Nat /\ served[c] \in Nat BY Types
<1>2. /\ served[c] < Len(sent[c]) /\ path[c] = Serving(c).name
      /\ handler[c] # "size" => size[c] = SizeOf(Serving(c))
      BY DEF Kept, AtUpload
<1>3. served[c] + 1 \in 1..Len(sent[c]) BY <1>1, <1>2
<1>. QED BY <1>2, <1>3 DEF Kept, OwnUploads, Serving

\* What the arrival of a path changes: the file is opened, or it is not.
LEMMA NameReceived ==
    ASSUME NEW c \in Conns, ReceiveName(c), Arrived(c, 2)
    PROVE  \E ok \in BOOLEAN :
               /\ ok => opened < MaxOpen
               /\ toServer' = Rest(c, 2) /\ up' = up
               /\ path' = [path EXCEPT ![c] = toServer[c][2]]
               /\ file' = [file EXCEPT ![c] = ok]
               /\ pos' = [pos EXCEPT ![c] = 0]
               /\ clean' = [clean EXCEPT ![c] = TRUE]
               /\ handler' = [handler EXCEPT ![c] = "size"]
               /\ ok => /\ opened' = opened + 1
                        /\ content' = [content EXCEPT ![toServer[c][2]] =
                               IF content[toServer[c][2]] = NoFile THEN <<>>
                               ELSE content[toServer[c][2]]]
               /\ ~ok => UNCHANGED fsVars
<1>1. ~NeverArrives(c, 2)
  <2>1. \/ Len(toServer[c]) >= 2 /\ ~(Len(toServer[c]) < 2)
        \/ ~NeverArrives(c, 2)
        BY DEF Arrived, NeverArrives
  <2>. QED BY <2>1 DEF NeverArrives
<1>2. PICK ok \in BOOLEAN :
          /\ ok => opened < MaxOpen
          /\ file' = [file EXCEPT ![c] = ok]
          /\ IF ok
             THEN /\ opened' = opened + 1
                  /\ content' = [content EXCEPT ![toServer[c][2]] =
                                    IF @ = NoFile THEN <<>> ELSE @]
             ELSE UNCHANGED fsVars
      BY <1>1 DEF ReceiveName
<1>3. /\ toServer' = Rest(c, 2) /\ up' = up
      /\ path' = [path EXCEPT ![c] = toServer[c][2]]
      /\ pos' = [pos EXCEPT ![c] = 0]
      /\ clean' = [clean EXCEPT ![c] = TRUE]
      /\ handler' = [handler EXCEPT ![c] = "size"]
      BY <1>1 DEF ReceiveName
<1>. QED BY <1>2, <1>3

-----------------------------------------------------------------------------
(* The type invariant is kept. *)

\* What one write of n units does to the file system.
LEMMA Written ==
    ASSUME TypeOK, FileSystem, Positions, NEW c \in Conns, Kept(c), handler[c] = "write",
           NEW n \in 1..(received[c] - written[c]), file[c], received[c] <= MaxChunk,
           content' = [content EXCEPT ![path[c]] =
                   WriteAt(@, pos[c], SubSeq(buf[c], written[c] + 1, written[c] + n))]
    PROVE  /\ content'[path[c]] \in Seq(Units) /\ content'[path[c]] # NoFile
           /\ Len(content'[path[c]]) \in Nat
           /\ Len(content'[path[c]]) >= pos[c] + n
           /\ Len(content'[path[c]]) >= Len(content[path[c]])
           /\ \A k \in 1..pos[c] : content'[path[c]][k] = content[path[c]][k]
           /\ \A k \in 1..n : content'[path[c]][pos[c] + k] = buf[c][written[c] + k]
           /\ \A p \in Names : p # path[c] => content'[p] = content[p]
           /\ \A p \in Names : content'[p] = NoFile \/ content'[p] \in Seq(Units)
           /\ FileSystem'
<1>. DEFINE d == content[path[c]]
            s == SubSeq(buf[c], written[c] + 1, written[c] + n)
<1>1. /\ received[c] \in Nat /\ written[c] \in Nat /\ pos[c] \in Nat
      /\ buf[c] \in Seq(Units) /\ Len(buf[c]) \in Nat /\ path[c] \in Names
      BY Types
<1>2. received[c] = Len(buf[c]) /\ n \in Nat /\ written[c] + n <= Len(buf[c])
      BY <1>1 DEF Kept, Buffered
<1>3. /\ s \in Seq(Units) /\ Len(s) = n
      /\ \A k \in 1..n : s[k] = buf[c][written[c] + k]
      BY <1>1, <1>2, Slice
<1>4. d \in Seq(Units) /\ pos[c] <= Len(d) /\ Len(d) \in Nat
  <2>1. d # NoFile /\ pos[c] <= Len(d) BY DEF Positions
  <2>2. d \in Seq(Units) BY <1>1, <2>1 DEF TypeOK
  <2>. QED BY <2>1, <2>2
<1>. HIDE DEF d, s
<1>5. PICK w : w = WriteAt(d, pos[c], s) OBVIOUS
<1>6. /\ w \in Seq(Units) /\ Len(w) >= Len(d) /\ Len(w) >= pos[c] + n /\ Len(w) \in Nat
      /\ \A k \in 1..pos[c] : w[k] = d[k]
      /\ \A k \in 1..n : w[pos[c] + k] = s[k]
  <2>1. PICK p \in Nat : p = pos[c] BY <1>1
  <2>2. p <= Len(d) BY <1>4, <2>1
  <2>3. /\ WriteAt(d, p, s) \in Seq(Units)
        /\ Len(WriteAt(d, p, s)) >= Len(d) /\ Len(WriteAt(d, p, s)) >= p + Len(s)
        /\ Len(WriteAt(d, p, s)) \in Nat
        /\ \A k \in 1..p : WriteAt(d, p, s)[k] = d[k]
        /\ \A k \in 1..Len(s) : WriteAt(d, p, s)[p + k] = s[k]
        BY <1>3, <1>4, <2>2, WriteAtFacts
  <2>. QED BY <1>3, <1>5, <2>1, <2>3
<1>7. content' = [content EXCEPT ![path[c]] = w] BY <1>5 DEF d, s
<1>8. /\ content'[path[c]] = w /\ \A p \in Names : p # path[c] => content'[p] = content[p]
      /\ FileSystem'
      BY <1>1, <1>7 DEF FileSystem
<1>9. w # NoFile BY <1>6, NamesAssumption
<1>10. \A p \in Names : content'[p] = NoFile \/ content'[p] \in Seq(Units)
       BY <1>6, <1>8 DEF TypeOK
<1>. QED BY <1>3, <1>6, <1>8, <1>9, <1>10 DEF d

LEMMA TypeStep ==
    ASSUME BInv, [Next]_vars
    PROVE  TypeOK'
<1>. TypeOK BY DEF BInv
<1>1. ASSUME NEW c \in Conns, Connect(c) PROVE TypeOK'
      BY <1>1 DEF TypeOK, Connect, clientVars, chunkVars, fileVars, fsVars
<1>2. ASSUME NEW c \in Conns, Disconnect(c) PROVE TypeOK'
      BY <1>2 DEF TypeOK, Disconnect, clientVars, handlerVars, fsVars
<1>3. ASSUME NEW c \in Conns, Lose(c) PROVE TypeOK'
  <2>1. PICK n \in 0..Len(toServer[c]) : toServer' = [toServer EXCEPT ![c] = SubSeq(@, 1, n)]
        BY <1>3 DEF Lose
  <2>2. PICK m \in 0..Len(toClient[c]) : toClient' = [toClient EXCEPT ![c] = SubSeq(@, 1, m)]
        BY <1>3 DEF Lose
  <2>3. toServer[c] \in Seq(Units) /\ toClient[c] \in Seq({GO_SEND}) BY Types
  <2>4. SubSeq(toServer[c], 1, n) \in Seq(Units) /\ SubSeq(toClient[c], 1, m) \in Seq({GO_SEND})
        BY <2>3
  <2>5. /\ toServer \in [Conns -> Seq(Units)] /\ toClient \in [Conns -> Seq({GO_SEND})]
        BY DEF TypeOK
  <2>6. /\ toServer' \in [Conns -> Seq(Units)] /\ toClient' \in [Conns -> Seq({GO_SEND})]
        BY <2>1, <2>2, <2>4, <2>5
  <2>. QED BY <1>3, <2>6 DEF TypeOK, Lose, clientVars, handlerVars, fsVars
<1>4. ASSUME NEW u \in Uploads, SendHeader(u) PROVE TypeOK'
  <2>. DEFINE c == u.conn
  <2>1. c \in Conns /\ u \in UploadType BY UploadFacts
  <2>2. /\ toServer \in [Conns -> Seq(Units)] /\ sent \in [Conns -> Seq(UploadType)]
        /\ client \in [Conns -> {"idle", "waiting"}] /\ cur \in [Conns -> UploadType]
        BY DEF TypeOK
  <2>3. toServer' \in [Conns -> Seq(Units)]
    <3>1. toServer[c] \o Header(u) \in Seq(Units) BY <2>1, <2>2, HeaderFacts, ConcatProperties
    <3>2. toServer' = toServer \/ toServer' = [toServer EXCEPT ![c] = toServer[c] \o Header(u)]
          BY <1>4 DEF SendHeader, Fail, Header
    <3>. QED BY <2>2, <3>1, <3>2
  <2>4. sent' \in [Conns -> Seq(UploadType)]
    <3>1. Append(sent[c], u) \in Seq(UploadType) BY <2>1, <2>2
    <3>2. sent' = sent \/ sent' = [sent EXCEPT ![c] = Append(sent[c], u)]
          BY <1>4 DEF SendHeader, Fail
    <3>. QED BY <2>2, <3>1, <3>2
  <2>5. client' \in [Conns -> {"idle", "waiting"}]
        BY <1>4, <2>1, <2>2 DEF SendHeader, Fail
  <2>6. cur' \in [Conns -> UploadType]
        BY <1>4, <2>1, <2>2 DEF SendHeader, Fail
  <2>7. reported' = reported BY <1>4 DEF SendHeader, Fail
  <2>. QED BY <1>4, <2>3, <2>4, <2>5, <2>6, <2>7 DEF TypeOK, SendHeader, handlerVars, fsVars
<1>5. ASSUME NEW c \in Conns, SendContent(c) PROVE TypeOK'
  <2>1. /\ toServer \in [Conns -> Seq(Units)] /\ toClient \in [Conns -> Seq({GO_SEND})]
        /\ client \in [Conns -> {"idle", "waiting"}] /\ cur[c] \in UploadType
        /\ reported \in [Conns -> Nat]
        BY DEF TypeOK
  <2>2. toClient' \in [Conns -> Seq({GO_SEND})]
    <3>1. toClient[c] \in Seq({GO_SEND}) /\ toClient[c] # <<>> BY <1>5, <2>1 DEF SendContent
    <3>2. Tail(toClient[c]) \in Seq({GO_SEND}) BY <3>1
    <3>. QED BY <1>5, <2>1, <3>2 DEF SendContent
  <2>3. toServer' \in [Conns -> Seq(Units)]
    <3>1. cur[c].data \in Seq(Cells) /\ Cells \subseteq Units BY <2>1 DEF UploadType, Units
    <3>2. toServer[c] \o cur[c].data \in Seq(Units)
          BY <2>1, <3>1, SeqMonotonic, ConcatProperties
    <3>3. toServer' = toServer \/ toServer' = [toServer EXCEPT ![c] = toServer[c] \o cur[c].data]
          BY <1>5 DEF SendContent, Fail
    <3>. QED BY <2>1, <3>2, <3>3
  <2>4. client' \in [Conns -> {"idle", "waiting"}] /\ reported' \in [Conns -> Nat]
    <3>1. client' = [client EXCEPT ![c] = "idle"] BY <1>5 DEF SendContent, Fail
    <3>2. reported' = reported \/ reported' = [reported EXCEPT ![c] = reported[c] + 1]
          BY <1>5 DEF SendContent, Fail
    <3>3. CASE reported' = [reported EXCEPT ![c] = reported[c] + 1] BY <2>1, <3>1, <3>3
    <3>. QED BY <2>1, <3>1, <3>2, <3>3
  <2>5. cur' = cur /\ sent' = sent BY <1>5 DEF SendContent, Fail
  <2>. QED BY <1>5, <2>2, <2>3, <2>4, <2>5 DEF TypeOK, SendContent, handlerVars, fsVars
<1>6. ASSUME NEW c \in Conns, NoGo(c) PROVE TypeOK'
      BY <1>6 DEF TypeOK, NoGo, Fail, handlerVars, fsVars
<1>7. ASSUME NEW c \in Conns, ReceiveName(c) PROVE TypeOK'
  <2>. Kept(c) BY DEF BInv
  <2>1. CASE Arrived(c, 2)
    <3>1. PICK ok \in BOOLEAN :
              /\ ok => opened < MaxOpen
              /\ toServer' = Rest(c, 2) /\ up' = up
              /\ path' = [path EXCEPT ![c] = toServer[c][2]]
              /\ file' = [file EXCEPT ![c] = ok]
              /\ pos' = [pos EXCEPT ![c] = 0]
              /\ clean' = [clean EXCEPT ![c] = TRUE]
              /\ handler' = [handler EXCEPT ![c] = "size"]
              /\ ok => /\ opened' = opened + 1
                       /\ content' = [content EXCEPT ![toServer[c][2]] =
                              IF content[toServer[c][2]] = NoFile THEN <<>>
                              ELSE content[toServer[c][2]]]
              /\ ~ok => UNCHANGED fsVars
          BY <1>7, <2>1, NameReceived
    <3>2. toServer' \in [Conns -> Seq(Units)] BY <2>1, <3>1, RestFacts
    <3>3. toServer[c][2] \in Names BY <1>7, <2>1, NameArrives DEF ReceiveName
    <3>5. /\ path' \in [Conns -> Names] /\ file' \in [Conns -> BOOLEAN]
          /\ clean' \in [Conns -> BOOLEAN] /\ pos' \in [Conns -> Nat]
          /\ handler' \in [Conns -> {"none", "name", "size", "data", "write", "closed", "crashed"}]
          BY <3>1, <3>3 DEF TypeOK
    <3>6. /\ opened' \in 0..MaxOpen
          /\ \A p \in Names : content'[p] = NoFile \/ content'[p] \in Seq(Units)
      <4>1. CASE ok
        <5>2. <<>> \in Seq(Units) OBVIOUS
        <5>3. \A p \in Names : content'[p] = content[p] \/ content'[p] = <<>>
              BY <3>1, <3>3, <4>1 DEF BInv, FileSystem
        <5>4. opened < MaxOpen /\ opened' = opened + 1 BY <3>1, <4>1
        <5>5. opened' \in 0..MaxOpen BY <5>4, ChunkAssumption DEF TypeOK
        <5>6. ASSUME NEW p \in Names PROVE content'[p] = NoFile \/ content'[p] \in Seq(Units)
              BY <5>2, <5>3 DEF TypeOK
        <5>. QED BY <5>5, <5>6
      <4>2. CASE ~ok BY <3>1, <4>2 DEF TypeOK, fsVars
      <4>. QED BY <4>1, <4>2
    <3>. QED BY <1>7, <3>1, <3>2, <3>5, <3>6 DEF TypeOK, ReceiveName, clientVars, chunkVars
  <2>2. CASE ~Arrived(c, 2)
    <3>1. Break(c) /\ UNCHANGED <<path, file, pos, clean, fsVars>> BY <1>7, <2>2 DEF ReceiveName
    <3>2. <<>> \in Seq(Units) OBVIOUS
    <3>. QED BY <1>7, <3>1, <3>2
             DEF TypeOK, ReceiveName, Break, clientVars, chunkVars, fsVars
  <2>. QED BY <2>1, <2>2
<1>8. ASSUME NEW c \in Conns, ReceiveSize(c) PROVE TypeOK'
  <2>. Kept(c) BY DEF BInv
  <2>0. /\ UNCHANGED <<client, cur, sent, reported, path, file, pos, clean, received, written,
                       content, opened>>
        BY <1>8 DEF ReceiveSize, clientVars, fsVars
  <2>1. <<>> \in Seq(Units) OBVIOUS
  <2>2. ASSUME Break(c)
        PROVE  /\ up' \in [Conns -> {"unused", "up", "down"}] 
               /\ toServer' \in [Conns -> Seq(Units)]
               /\ handler' \in [Conns -> {"none", "name", "size", "data", "write", "closed", "crashed"}]
        BY <2>1, <2>2 DEF TypeOK, Break
  <2>3. CASE up[c] = "down" /\ Break(c) /\ UNCHANGED <<toClient, size, left, buf, served>>
        BY <2>0, <2>2, <2>3 DEF TypeOK
  <2>4. ASSUME Arrived(c, 1), size' = [size EXCEPT ![c] = toServer[c][1]],
               left' = [left EXCEPT ![c] = toServer[c][1]], buf' = [buf EXCEPT ![c] = <<>>],
               \/ /\ handler' = [handler EXCEPT ![c] = "data"]
                  /\ toServer' = Rest(c, 1)
                  /\ UNCHANGED <<up, served>>
               \/ /\ served' = [served EXCEPT ![c] = served[c] + 1]
                  /\ Break(c),
               Go(c)
        PROVE  TypeOK'
    <3>2. toServer[c][1] \in 0..Word - 1 BY <1>8, <2>4, SizeArrives DEF ReceiveSize
    <3>3. /\ size' \in [Conns -> 0..Word - 1] /\ left' \in [Conns -> 0..Word - 1]
          /\ buf' \in [Conns -> Seq(Units)]
          BY <2>1, <2>4, <3>2 DEF TypeOK
    <3>4. toClient' \in [Conns -> Seq({GO_SEND})]
      <4>1. toClient \in [Conns -> Seq({GO_SEND})] BY DEF TypeOK
      <4>2. Append(toClient[c], GO_SEND) \in Seq({GO_SEND}) BY <4>1
      <4>3. toClient' = toClient \/ toClient' = [toClient EXCEPT ![c] = Append(toClient[c], GO_SEND)]
            BY <2>4 DEF Go
      <4>. QED BY <4>1, <4>2, <4>3
    <3>5. /\ up' \in [Conns -> {"unused", "up", "down"}] /\ served' \in [Conns -> Nat]
          /\ toServer' \in [Conns -> Seq(Units)]
          /\ handler' \in [Conns -> {"none", "name", "size", "data", "write", "closed", "crashed"}]
      <4>1. CASE Break(c) /\ served' = [served EXCEPT ![c] = served[c] + 1]
            BY <2>2, <4>1 DEF TypeOK
      <4>2. CASE /\ handler' = [handler EXCEPT ![c] = "data"]
                 /\ toServer' = Rest(c, 1)
                 /\ UNCHANGED <<up, served>>
            BY <2>4, <4>2, RestFacts DEF TypeOK
      <4>. QED BY <2>4, <4>1, <4>2
    <3>. QED BY <2>0, <3>3, <3>4, <3>5 DEF TypeOK
  <2>. QED BY <1>8, <2>3, <2>4 DEF ReceiveSize
<1>9. ASSUME NEW c \in Conns, Receive(c) PROVE TypeOK'
  <2>0. UNCHANGED <<up, toClient, client, cur, sent, reported, path, file, size, pos, clean,
                    served, content, opened>>
        BY <1>9 DEF Receive, clientVars, fileVars, fsVars
  <2>1. /\ toServer[c] \in Seq(Units) /\ buf[c] \in Seq(Units) /\ left[c] \in 0..Word - 1
        BY Types
  <2>2. Wanted(c) \in 0..Word - 1 BY <2>1, Sizes DEF Wanted
  <2>3. ASSUME NEW n \in 0..Word - 1, StartWrite(c, n)
        PROVE  /\ received' \in [Conns -> 0..Word - 1] /\ left' \in [Conns -> 0..Word - 1]
               /\ written' \in [Conns -> 0..Word - 1]
               /\ handler' \in [Conns -> {"none", "name", "size", "data", "write", "closed", "crashed"}]
    <3>0. 0 \in 0..Word - 1 /\ left[c] - n \in Int BY <2>1, Sizes
    <3>1. (left[c] - n) % Word \in 0..Word - 1 BY <3>0, AsSize
    <3>2. /\ received' = [received EXCEPT ![c] = n]
          /\ left' = [left EXCEPT ![c] = (left[c] - n) % Word]
          /\ written' = [written EXCEPT ![c] = 0]
          /\ handler' = [handler EXCEPT ![c] = "write"]
          BY <2>3 DEF StartWrite
    <3>. QED BY <3>0, <3>1, <3>2 DEF TypeOK
  <2>4. ASSUME NEW n \in 1..(Wanted(c) - Len(buf[c])), Arrived(c, n), toServer' = Rest(c, n),
               buf' = [buf EXCEPT ![c] = @ \o SubSeq(toServer[c], 1, n)],
               StartWrite(c, Wanted(c)) \/ UNCHANGED <<received, left, written, handler>>
        PROVE  TypeOK'
    <3>1. n \in Nat /\ n <= Len(toServer[c]) BY <2>1, <2>2, <2>4 DEF Arrived
    <3>2. toServer' \in [Conns -> Seq(Units)] BY <2>4, <3>1, RestFacts
    <3>3. buf[c] \o SubSeq(toServer[c], 1, n) \in Seq(Units)
      <4>1. \A i \in 1..n : toServer[c][i] \in Units BY <2>1, <3>1, ElementOfSeq
      <4>2. SubSeq(toServer[c], 1, n) \in Seq(Units) BY <3>1, <4>1, SubSeqProperties
      <4>. QED BY <2>1, <4>2, ConcatProperties
    <3>4. buf' \in [Conns -> Seq(Units)] BY <2>4, <3>3 DEF TypeOK
    <3>5. /\ received' \in [Conns -> 0..Word - 1] /\ left' \in [Conns -> 0..Word - 1]
          /\ written' \in [Conns -> 0..Word - 1]
          /\ handler' \in [Conns -> {"none", "name", "size", "data", "write", "closed", "crashed"}]
      <4>1. CASE StartWrite(c, Wanted(c)) BY <2>2, <2>3, <4>1
      <4>2. CASE UNCHANGED <<received, left, written, handler>> BY <4>2 DEF TypeOK
      <4>. QED BY <2>4, <4>1, <4>2
    <3>. QED BY <2>0, <3>2, <3>4, <3>5 DEF TypeOK
  <2>5. ASSUME NEW e \in Errnos, StartWrite(c, (-e) % Word), UNCHANGED <<toServer, buf>>
        PROVE  TypeOK'
    <3>1. (-e) % Word \in 0..Word - 1 
      <4>1. -e \in Int BY WordAssumption
      <4>. QED BY <4>1, AsSize
    <3>2. /\ received' \in [Conns -> 0..Word - 1] /\ left' \in [Conns -> 0..Word - 1]
          /\ written' \in [Conns -> 0..Word - 1]
          /\ handler' \in [Conns -> {"none", "name", "size", "data", "write", "closed", "crashed"}]
          BY <2>3, <2>5, <3>1
    <3>. QED BY <2>0, <2>5, <3>2 DEF TypeOK
  <2>. QED BY <1>9, <2>4, <2>5 DEF Receive
<1>10. ASSUME NEW c \in Conns, Write(c) PROVE TypeOK'
  <2>. Kept(c) BY DEF BInv
  <2>0. UNCHANGED <<up, toServer, toClient, client, cur, sent, reported, handler, path, file,
                    size, left, buf, received, served, opened>>
        BY <1>10 DEF Write, netVars, clientVars
  <2>1. /\ received[c] \in 0..Word - 1 /\ written[c] \in 0..Word - 1 /\ pos[c] \in Nat
        /\ buf[c] \in Seq(Units) /\ path[c] \in Names /\ Word \in Nat \ {0}
        BY Types, Sizes
  <2>2. ASSUME NEW n \in 1..(received[c] - written[c]), file[c], received[c] <= MaxChunk,
               content' = [content EXCEPT ![path[c]] =
                   WriteAt(@, pos[c], SubSeq(buf[c], written[c] + 1, written[c] + n))],
               pos' = [pos EXCEPT ![c] = @ + n], written' = [written EXCEPT ![c] = @ + n],
               clean' = clean
        PROVE  TypeOK'
    <3>1. pos' \in [Conns -> Nat] BY <2>1, <2>2 DEF TypeOK
    <3>2. written' \in [Conns -> 0..Word - 1]
      <4>1. written[c] + n \in 0..Word - 1 BY <2>1, <2>2
      <4>. QED BY <2>2, <4>1 DEF TypeOK
    <3>3. \A p \in Names : content'[p] = NoFile \/ content'[p] \in Seq(Units)
          BY <1>10, <2>2, Written DEF BInv, Write
    <3>. QED BY <2>0, <2>2, <3>1, <3>2, <3>3 DEF TypeOK
  <2>3. ASSUME written' = [written EXCEPT ![c] = (@ - 1) % Word],
               clean' = [clean EXCEPT ![c] = FALSE], UNCHANGED <<content, pos>>
        PROVE  TypeOK'
    <3>0. written[c] - 1 \in Int BY <2>1
    <3>1. (written[c] - 1) % Word \in 0..Word - 1 BY <3>0, AsSize
    <3>2. written' \in [Conns -> 0..Word - 1] BY <2>3, <3>1 DEF TypeOK
    <3>. QED BY <2>0, <2>3, <3>2 DEF TypeOK
  <2>. QED BY <1>10, <2>2, <2>3 DEF Write
<1>11. ASSUME NEW c \in Conns, Crash(c) PROVE TypeOK'
      BY <1>11 DEF TypeOK, Crash, clientVars, chunkVars, fileVars, fsVars
<1>12. ASSUME NEW c \in Conns, EndChunk(c) PROVE TypeOK'
  <2>0. UNCHANGED <<toClient, client, cur, sent, reported, path, file, size, pos, clean, left,
                    received, written, content, opened>>
        BY <1>12 DEF EndChunk, clientVars, fileVars, fsVars
  <2>1. <<>> \in Seq(Units) /\ served[c] + 1 \in Nat BY Types
  <2>2. /\ up' = up \/ up' = [up EXCEPT ![c] = "down"]
        /\ toServer' = toServer \/ toServer' = [toServer EXCEPT ![c] = <<>>]
        /\ buf' = buf \/ buf' = [buf EXCEPT ![c] = <<>>]
        /\ served' = served \/ served' = [served EXCEPT ![c] = served[c] + 1]
        /\ \E h \in {"data", "name", "closed"} : handler' = [handler EXCEPT ![c] = h]
        BY <1>12 DEF EndChunk, Break
  <2>3. /\ up' \in [Conns -> {"unused", "up", "down"}] /\ toServer' \in [Conns -> Seq(Units)]
        /\ buf' \in [Conns -> Seq(Units)] /\ served' \in [Conns -> Nat]
        /\ handler' \in [Conns -> {"none", "name", "size", "data", "write", "closed", "crashed"}]
    <3>1. up' \in [Conns -> {"unused", "up", "down"}] BY <2>2 DEF TypeOK
    <3>2. toServer' \in [Conns -> Seq(Units)] BY <2>1, <2>2 DEF TypeOK
    <3>3. buf' \in [Conns -> Seq(Units)] BY <2>1, <2>2 DEF TypeOK
    <3>4. served' \in [Conns -> Nat]
      <4>1. served \in [Conns -> Nat] BY DEF TypeOK
      <4>. QED BY <2>1, <2>2, <4>1
    <3>5. handler' \in [Conns -> {"none", "name", "size", "data", "write", "closed", "crashed"}]
          BY <2>2 DEF TypeOK
    <3>. QED BY <3>1, <3>2, <3>3, <3>4, <3>5
  <2>. QED BY <2>0, <2>3 DEF TypeOK
<1>13. CASE UNCHANGED vars BY <1>13 DEF TypeOK, vars
<1>. QED BY <1>1, <1>2, <1>3, <1>4, <1>5, <1>6, <1>7, <1>8, <1>9, <1>10, <1>11, <1>12, <1>13
         DEF Next, Client, Handler

-----------------------------------------------------------------------------
(* The file system: files only grow, and a position stays in its file. *)

\* A path the handler creates is empty; one that exists is left alone.
LEMMA Created ==
    ASSUME BInv, NEW c \in Conns, ReceiveName(c), Arrived(c, 2)
    PROVE  /\ \A p \in Names : content[p] # NoFile => content'[p] = content[p]
           /\ FileSystem'
           /\ file'[c] => content'[toServer[c][2]] # NoFile
           /\ file'[c] => content'[toServer[c][2]] \in Seq(Units)
           /\ toServer[c][2] \in Names
<1>. TypeOK /\ Kept(c) /\ FileSystem BY DEF BInv
<1>0. toServer[c][2] \in Names BY NameArrives DEF ReceiveName
<1>3. PICK ok \in BOOLEAN :
          /\ file' = [file EXCEPT ![c] = ok]
          /\ ok => content' = [content EXCEPT ![toServer[c][2]] =
                                  IF content[toServer[c][2]] = NoFile THEN <<>>
                                  ELSE content[toServer[c][2]]]
          /\ ~ok => UNCHANGED fsVars
      BY NameReceived
<1>4. file'[c] = ok BY <1>3 DEF TypeOK
<1>1. CASE ok
  <2>1. content' = [content EXCEPT ![toServer[c][2]] =
                       IF content[toServer[c][2]] = NoFile THEN <<>>
                       ELSE content[toServer[c][2]]]
        BY <1>1, <1>3
  <2>2. <<>> \in Seq(Units) /\ <<>> # NoFile
    <3>1. <<>> \in Seq(Units) OBVIOUS
    <3>. QED BY <3>1, NamesAssumption
  <2>3. /\ content'[toServer[c][2]] = IF content[toServer[c][2]] = NoFile THEN <<>>
                                      ELSE content[toServer[c][2]]
        /\ \A p \in Names : p # toServer[c][2] => content'[p] = content[p]
        /\ FileSystem'
        BY <1>0, <2>1 DEF FileSystem
  <2>4. \A p \in Names : content[p] = NoFile \/ content[p] \in Seq(Units) BY DEF TypeOK
  <2>. QED BY <1>0, <1>1, <2>2, <2>3, <2>4
<1>2. CASE ~ok
  <2>1. content' = content BY <1>2, <1>3 DEF fsVars
  <2>. QED BY <1>0, <1>2, <1>4, <2>1 DEF FileSystem
<1>. QED BY <1>1, <1>2

LEMMA FileStep ==
    ASSUME BInv, [Next]_vars
    PROVE  FileSystem' /\ Positions'
<1>. TypeOK /\ FileSystem /\ Positions BY DEF BInv
<1>1. ASSUME UNCHANGED <<content, path, file, pos>> PROVE FileSystem' /\ Positions'
      BY <1>1 DEF FileSystem, Positions
<1>2. ASSUME NEW c \in Conns, ReceiveName(c) PROVE FileSystem' /\ Positions'
  <2>1. CASE Arrived(c, 2)
    <3>1. PICK ok \in BOOLEAN :
              /\ path' = [path EXCEPT ![c] = toServer[c][2]]
              /\ file' = [file EXCEPT ![c] = ok]
              /\ pos' = [pos EXCEPT ![c] = 0]
          BY <1>2, <2>1, NameReceived
    <3>2. /\ path \in [Conns -> Names] /\ file \in [Conns -> BOOLEAN] /\ pos \in [Conns -> Nat]
          BY DEF TypeOK
    <3>3. /\ \A p \in Names : content[p] # NoFile => content'[p] = content[p]
          /\ FileSystem'
          /\ file'[c] => content'[toServer[c][2]] # NoFile
          /\ file'[c] => content'[toServer[c][2]] \in Seq(Units)
          BY <1>2, <2>1, Created
    <3>4. ASSUME NEW d \in Conns, file'[d]
          PROVE  content'[path'[d]] # NoFile /\ pos'[d] <= Len(content'[path'[d]])
      <4>1. CASE d = c
        <5>1. file'[c] /\ path'[d] = toServer[c][2] /\ pos'[d] = 0
              BY <3>1, <3>2, <3>4, <4>1
        <5>2. Len(content'[toServer[c][2]]) \in Nat BY <3>3, <5>1
        <5>. QED BY <3>3, <5>1, <5>2
      <4>2. CASE d # c
        <5>1. file[d] /\ path'[d] = path[d] /\ pos'[d] = pos[d] /\ path[d] \in Names
              BY <3>1, <3>2, <3>4, <4>2
        <5>. QED BY <3>3, <5>1 DEF Positions
      <4>. QED BY <4>1, <4>2
    <3>. QED BY <3>3, <3>4 DEF Positions
  <2>2. CASE ~Arrived(c, 2) BY <1>1, <1>2, <2>2 DEF ReceiveName, fsVars
  <2>. QED BY <2>1, <2>2
<1>3. ASSUME NEW c \in Conns, Write(c) PROVE FileSystem' /\ Positions'
  <2>. Kept(c) BY DEF BInv
  <2>0. UNCHANGED <<path, file>> BY <1>3 DEF Write
  <2>1. ASSUME NEW n \in 1..(received[c] - written[c]), file[c], received[c] <= MaxChunk,
               content' = [content EXCEPT ![path[c]] =
                   WriteAt(@, pos[c], SubSeq(buf[c], written[c] + 1, written[c] + n))],
               pos' = [pos EXCEPT ![c] = @ + n]
        PROVE  FileSystem' /\ Positions'
    <3>1. /\ content'[path[c]] # NoFile /\ FileSystem'
          /\ Len(content'[path[c]]) \in Nat
          /\ Len(content'[path[c]]) >= pos[c] + n
          /\ Len(content'[path[c]]) >= Len(content[path[c]])
          /\ \A p \in Names : p # path[c] => content'[p] = content[p]
          BY <1>3, <2>1, Written DEF Write
    <3>2. ASSUME NEW d \in Conns, file[d]
          PROVE  content'[path[d]] # NoFile /\ pos'[d] <= Len(content'[path[d]])
      <4>1. pos \in [Conns -> Nat] /\ path[d] \in Names BY DEF TypeOK
      <4>2. content[path[d]] # NoFile /\ pos[d] <= Len(content[path[d]]) BY <3>2 DEF Positions
      <4>3. CASE d = c BY <2>1, <3>1, <4>1, <4>3
      <4>4. CASE d # c
        <5>1. pos'[d] = pos[d] BY <2>1, <4>1, <4>4
        <5>2. CASE path[d] = path[c]
          <6>1. Len(content[path[c]]) \in Nat
            <7>1. content[path[c]] \in Seq(Units) BY <4>1, <4>2, <5>2 DEF TypeOK
            <7>. QED BY <7>1
          <6>2. pos[d] \in Nat BY <4>1
          <6>. QED BY <3>1, <4>2, <5>1, <5>2, <6>1, <6>2
        <5>3. CASE path[d] # path[c] BY <3>1, <4>1, <4>2, <5>1, <5>3
        <5>. QED BY <5>2, <5>3
      <4>. QED BY <4>3, <4>4
    <3>. QED BY <2>0, <3>1, <3>2 DEF Positions
  <2>. QED BY <1>1, <1>3, <2>0, <2>1 DEF Write
<1>4. ASSUME NEW c \in Conns,
             \/ Connect(c) \/ Disconnect(c) \/ Lose(c) \/ Client(c)
             \/ ReceiveSize(c) \/ Receive(c) \/ Crash(c) \/ EndChunk(c)
      PROVE  UNCHANGED <<content, path, file, pos>>
      BY <1>4 DEF Connect, Disconnect, Lose, Client, SendContent, NoGo, ReceiveSize, Receive,
                  Crash, EndChunk, handlerVars, fileVars, fsVars
<1>5. ASSUME NEW u \in Uploads, SendHeader(u) PROVE UNCHANGED <<content, path, file, pos>>
      BY <1>5 DEF SendHeader, handlerVars, fsVars
<1>6. CASE UNCHANGED vars BY <1>1, <1>6 DEF vars
<1>7. CASE Next BY <1>1, <1>2, <1>3, <1>4, <1>5, <1>7 DEF Next, Handler
<1>. QED BY <1>6, <1>7

-----------------------------------------------------------------------------
(* A connection that goes down, and a handler that ends. *)

\* While the connection lasts, the handler is at a place in the content.
LEMMA DueFacts ==
    ASSUME TypeOK, NEW c \in Conns, Kept(c), handler[c] \in {"data", "write"},
           Serving(c).loads, ~Lost(c)
    PROVE  /\ Due(c) \in Nat
           /\ handler[c] = "data" => InData(c, Serving(c).data)
           /\ handler[c] = "write" => /\ 0 < received[c] /\ received[c] <= MaxChunk
                                      /\ InWrite(c, Serving(c).data)
<1>1. /\ handler[c] = "data" => InData(c, Serving(c).data)
      /\ handler[c] = "write" => /\ 0 < received[c] /\ received[c] <= MaxChunk
                                 /\ InWrite(c, Serving(c).data)
      BY DEF Kept, Chunks
<1>2. left[c] \in Nat /\ Len(buf[c]) \in Nat /\ MaxChunk \in Nat BY Types, Sizes
<1>3. Due(c) \in Nat BY <1>1, <1>2 DEF Due, InData, Wanted
<1>. QED BY <1>1, <1>3

LEMMA GoesDown ==
    ASSUME TypeOK, NEW c \in Conns, Kept(c), handler[c] # "none", up'[c] = "down",
           handler'[c] = handler[c], sent'[c] = sent[c], path'[c] = path[c],
           file'[c] = file[c], size'[c] = size[c], left'[c] = left[c], buf'[c] = buf[c],
           received'[c] = received[c], written'[c] = written[c], pos'[c] = pos[c],
           clean'[c] = clean[c], served'[c] = served[c], toServer'[c] \in Seq(Units),
           Len(toServer'[c]) <= Len(toServer[c]),
           \A i \in 1..Len(toServer'[c]) : toServer'[c][i] = toServer[c][i]
    PROVE  Kept(c)'
<1>1. Connected(c)' /\ OwnUploads(c)' /\ AtUpload(c)' /\ Buffered(c)'
  <2>1. Connected(c)' BY DEF Kept, Connected
  <2>2. OwnUploads(c)' BY DEF Kept, OwnUploads
  <2>3. AtUpload(c)' BY DEF Kept, AtUpload, Serving
  <2>4. Buffered(c)' BY DEF Kept, Buffered
  <2>. QED BY <2>1, <2>2, <2>3, <2>4
<1>2. /\ Len(toServer[c]) \in Nat /\ Len(toServer'[c]) \in Nat /\ toServer[c] \in Seq(Units)
      BY Types
<1>3. toServer[c] = <<>> => toServer'[c] = <<>>
  <2>1. ASSUME toServer[c] = <<>> PROVE Len(toServer'[c]) = 0 BY <1>2, <2>1
  <2>. QED BY <2>1, EmptySeq
<1>4. Lost(c) => Lost(c)' BY <1>3 DEF Lost
<1>5. GoPending(c) => GoPending(c)' BY <1>3 DEF GoPending
<1>6. Due(c)' = Due(c) BY DEF Due
<1>7. ASSUME NEW k \in Nat, NEW r \in Nat, NEW o \in {0, 2}, Stream(c, k, r, o)
      PROVE  Stream(c, k, r, o)'
  <2>1. /\ k <= Len(sent[c]) /\ Len(sent[c]) <= k + 1
        /\ Len(toServer[c]) <= r + (IF Len(sent[c]) = k + 1 THEN 3 - o ELSE 0)
        /\ \A i \in 1..Len(toServer[c]) :
              toServer[c][i] = IF i <= r
                               THEN sent[c][k].data[Len(sent[c][k].data) - r + i]
                               ELSE Header(sent[c][k + 1])[i - r + o]
        BY <1>7 DEF Stream
  <2>2. Len(toServer'[c]) <= r + (IF Len(sent[c]) = k + 1 THEN 3 - o ELSE 0) BY <1>2, <2>1
  <2>3. \A i \in 1..Len(toServer'[c]) :
              toServer'[c][i] = IF i <= r
                               THEN sent[c][k].data[Len(sent[c][k].data) - r + i]
                               ELSE Header(sent[c][k + 1])[i - r + o]
    <3>1. ASSUME NEW i \in 1..Len(toServer'[c]) PROVE i \in 1..Len(toServer[c]) BY <1>2
    <3>. QED BY <2>1, <3>1
  <2>. QED BY <2>1, <2>2, <2>3 DEF Stream
<1>8. InFlow(c)'
  <2>1. served[c] \in Nat BY Types
  <2>2. ASSUME handler[c] = "name" PROVE InFlow(c)'
    <3>1. Lost(c) \/ Stream(c, served[c], 0, 0) BY <2>2 DEF Kept, InFlow
    <3>2. Lost(c)' \/ Stream(c, served[c], 0, 0)' BY <1>4, <1>7, <2>1, <3>1
    <3>. QED BY <2>2, <3>2 DEF Kept, InFlow
  <2>3. ASSUME handler[c] = "size" PROVE InFlow(c)'
    <3>1. Lost(c) \/ (Len(sent[c]) = served[c] + 1 /\ Stream(c, served[c], 0, 2))
          BY <2>3 DEF Kept, InFlow
    <3>2. Lost(c)' \/ (Len(sent[c]) = served[c] + 1 /\ Stream(c, served[c], 0, 2)')
          BY <1>4, <1>7, <2>1, <3>1
    <3>. QED BY <2>3, <3>2 DEF Kept, InFlow
  <2>4. ASSUME handler[c] \in {"data", "write"} PROVE InFlow(c)'
    <3>1. size[c] # 0 BY <2>4 DEF Kept, InFlow
    <3>2. ASSUME Serving(c).loads
          PROVE  Lost(c)' \/ GoPending(c)' \/ Stream(c, served[c] + 1, Due(c), 0)'
      <4>1. CASE Lost(c) BY <1>4, <4>1
      <4>2. CASE ~Lost(c)
        <5>1. Due(c) \in Nat /\ served[c] + 1 \in Nat BY <2>1, <2>4, <3>2, <4>2, DueFacts
        <5>2. GoPending(c) \/ Stream(c, served[c] + 1, Due(c), 0)
              BY <2>4, <3>2, <4>2 DEF Kept, InFlow
        <5>3. PICK k \in Nat, r \in Nat : k = served[c] + 1 /\ r = Due(c) BY <5>1
        <5>4. GoPending(c)' \/ Stream(c, k, r, 0)' BY <1>5, <1>7, <5>2, <5>3
        <5>5. k = served'[c] + 1 /\ r = Due(c)' BY <1>6, <5>3
        <5>. QED BY <5>4, <5>5
      <4>. QED BY <4>1, <4>2
    <3>3. Serving(c)' = Serving(c) BY DEF Serving
    <3>. QED BY <2>4, <3>1, <3>2, <3>3 DEF InFlow
  <2>5. CASE handler[c] \notin {"name", "size", "data", "write"} BY <2>5 DEF InFlow
  <2>. QED BY <2>2, <2>3, <2>4, <2>5
<1>9. Chunks(c)'
  <2>1. \A d : InData(c, d) => InData(c, d)' BY DEF InData, Wanted
  <2>2. \A d : InWrite(c, d) => InWrite(c, d)' BY DEF InWrite
  <2>. QED BY <1>4, <2>1, <2>2 DEF Kept, Chunks, Serving
<1>. QED BY <1>1, <1>8, <1>9 DEF Kept

LEMMA Ends ==
    ASSUME TypeOK, NEW c \in Conns, Kept(c), handler[c] # "none", up'[c] = "down",
           handler'[c] \in {"closed", "crashed"}, sent'[c] = sent[c]
    PROVE  Kept(c)'
<1>1. Connected(c)' BY DEF Connected
<1>2. OwnUploads(c)' BY DEF Kept, OwnUploads
<1>3. AtUpload(c)' BY DEF AtUpload
<1>4. InFlow(c)' BY DEF InFlow
<1>5. Chunks(c)' BY DEF Chunks
<1>6. Buffered(c)' BY DEF Buffered
<1>. QED BY <1>1, <1>2, <1>3, <1>4, <1>5, <1>6 DEF Kept

\* Break ends a handler and leaves the others alone.
LEMMA Breaks ==
    ASSUME TypeOK, \A d \in Conns : Kept(d), NEW c \in Conns, handler[c] # "none", Break(c),
           sent' = sent,
           \A d \in Conns : d # c => State(d)' = State(d)
    PROVE  \A d \in Conns : Kept(d)'
<1>1. up'[c] = "down" /\ handler'[c] = "closed" BY DEF Break, TypeOK
<1>2. Kept(c)' BY <1>1, Ends
<1>3. ASSUME NEW d \in Conns, d # c PROVE Kept(d)' BY <1>3, Frame
<1>. QED BY <1>2, <1>3

-----------------------------------------------------------------------------
(* The steps of the connection and of the client. *)

LEMMA ConnectStep ==
    ASSUME BInv, NEW c \in Conns, Connect(c)
    PROVE  \A d \in Conns : Kept(d)'
<1>. TypeOK /\ \A d \in Conns : Kept(d) BY DEF BInv
<1>1. ASSUME NEW d \in Conns, d # c PROVE Kept(d)'
  <2>1. State(d)' = State(d)
        BY <1>1 DEF Connect, State, TypeOK, clientVars, chunkVars, fileVars
  <2>. QED BY <2>1, Frame
<1>2. /\ up'[c] = "up" /\ handler'[c] = "name"
      /\ UNCHANGED <<toServer, toClient, client, sent, served>>
      BY DEF Connect, TypeOK, clientVars
<1>3. /\ toServer[c] = <<>> /\ toClient[c] = <<>> /\ sent[c] = <<>>
      /\ client[c] = "idle" /\ served[c] = 0
      BY DEF Connect, Kept, Connected
<1>4. Len(toServer[c]) = 0 /\ Len(sent[c]) = 0 BY <1>3
<1>5. Connected(c)' BY <1>2 DEF Connected
<1>6. OwnUploads(c)' BY <1>2, <1>3, <1>4 DEF OwnUploads
<1>7. AtUpload(c)' BY <1>2, <1>3 DEF AtUpload
<1>8. Stream(c, served[c], 0, 0)' BY <1>2, <1>3, <1>4 DEF Stream
<1>9. InFlow(c)' BY <1>2, <1>3, <1>4, <1>8 DEF InFlow
<1>10. Chunks(c)' /\ Buffered(c)' BY <1>2 DEF Chunks, Buffered
<1>11. Kept(c)' BY <1>5, <1>6, <1>7, <1>9, <1>10 DEF Kept
<1>. QED BY <1>1, <1>11

LEMMA DisconnectStep ==
    ASSUME BInv, NEW c \in Conns, Disconnect(c)
    PROVE  \A d \in Conns : Kept(d)'
<1>. TypeOK /\ \A d \in Conns : Kept(d) BY DEF BInv
<1>1. ASSUME NEW d \in Conns, d # c PROVE Kept(d)'
  <2>1. State(d)' = State(d) BY <1>1 DEF Disconnect, State, TypeOK, clientVars, handlerVars
  <2>. QED BY <2>1, Frame
<1>2. /\ up'[c] = "down" /\ handler[c] # "none"
      /\ UNCHANGED <<toServer, sent, handler, path, file, size, left, buf, received, written,
                     pos, clean, served>>
      BY DEF Disconnect, TypeOK, Kept, Connected, clientVars, handlerVars
<1>3. toServer[c] \in Seq(Units) /\ Len(toServer[c]) \in Nat BY Types
<1>4. Kept(c)' BY <1>2, <1>3, GoesDown
<1>. QED BY <1>1, <1>4

LEMMA LoseStep ==
    ASSUME BInv, NEW c \in Conns, Lose(c)
    PROVE  \A d \in Conns : Kept(d)'
<1>. TypeOK /\ \A d \in Conns : Kept(d) BY DEF BInv
<1>1. ASSUME NEW d \in Conns, d # c PROVE Kept(d)'
  <2>1. State(d)' = State(d) BY <1>1 DEF Lose, State, TypeOK, clientVars, handlerVars
  <2>. QED BY <2>1, Frame
<1>2. /\ up'[c] = "down" /\ handler[c] # "none"
      /\ UNCHANGED <<sent, handler, path, file, size, left, buf, received, written,
                     pos, clean, served>>
      BY DEF Lose, TypeOK, Kept, Connected, clientVars, handlerVars
<1>3. PICK n \in 0..Len(toServer[c]) : toServer' = [toServer EXCEPT ![c] = SubSeq(@, 1, n)]
      BY DEF Lose
<1>4. /\ toServer \in [Conns -> Seq(Units)] /\ toServer[c] \in Seq(Units)
      /\ Len(toServer[c]) \in Nat
      BY DEF TypeOK
<1>5. /\ SubSeq(toServer[c], 1, n) \in Seq(Units) /\ Len(SubSeq(toServer[c], 1, n)) = n
      /\ \A i \in 1..n : SubSeq(toServer[c], 1, n)[i] = toServer[c][i]
      BY <1>4
<1>6. toServer'[c] = SubSeq(toServer[c], 1, n) BY <1>3, <1>4
<1>7. Kept(c)'
  <2>1. /\ toServer'[c] \in Seq(Units) /\ Len(toServer'[c]) <= Len(toServer[c])
        /\ \A i \in 1..Len(toServer'[c]) : toServer'[c][i] = toServer[c][i]
        BY <1>4, <1>5, <1>6
  <2>. QED BY <1>2, <2>1, GoesDown
<1>. QED BY <1>1, <1>7

LEMMA NoGoStep ==
    ASSUME BInv, NEW c \in Conns, NoGo(c)
    PROVE  \A d \in Conns : Kept(d)'
<1>. TypeOK /\ \A d \in Conns : Kept(d) BY DEF BInv
<1>1. ASSUME NEW d \in Conns, d # c PROVE Kept(d)'
  <2>1. State(d)' = State(d) BY <1>1 DEF NoGo, Fail, State, TypeOK, handlerVars
  <2>. QED BY <2>1, Frame
<1>2. /\ up'[c] = "down" /\ handler[c] # "none"
      /\ UNCHANGED <<toServer, sent, handler, path, file, size, left, buf, received, written,
                     pos, clean, served>>
      BY DEF NoGo, Fail, Kept, Connected, handlerVars
<1>3. toServer[c] \in Seq(Units) /\ Len(toServer[c]) \in Nat BY Types
<1>4. Kept(c)' BY <1>2, <1>3, GoesDown
<1>. QED BY <1>1, <1>4

LEMMA SendHeaderStep ==
    ASSUME BInv, NEW u \in Uploads, SendHeader(u)
    PROVE  \A d \in Conns : Kept(d)'
<1>. TypeOK /\ \A d \in Conns : Kept(d) BY DEF BInv
<1>0. PICK c \in Conns : c = u.conn BY UploadFacts
<1>. Kept(c) OBVIOUS
<1>1. ASSUME NEW d \in Conns, d # c PROVE Kept(d)'
  <2>1. State(d)' = State(d)
        BY <1>0, <1>1 DEF SendHeader, Fail, State, TypeOK, handlerVars
  <2>. QED BY <2>1, Frame
<1>2. /\ UNCHANGED <<up, toClient, handler, path, file, size, left, buf, received, written,
                     pos, clean, served>>
      /\ client[c] = "idle" /\ up[c] # "unused"
      BY <1>0 DEF SendHeader, handlerVars
<1>3. CASE up[c] = "down"
  <2>1. UNCHANGED <<toServer, sent>> BY <1>0, <1>3 DEF SendHeader, Fail
  <2>2. toServer[c] \in Seq(Units) /\ Len(toServer[c]) \in Nat BY Types
  <2>3. handler[c] # "none" BY <1>2 DEF Kept, Connected
  <2>4. Kept(c)' BY <1>2, <1>3, <2>1, <2>2, <2>3, GoesDown
  <2>. QED BY <1>1, <2>4
<1>4. CASE up[c] = "up"
  <2>1. /\ toServer' = [toServer EXCEPT ![c] = toServer[c] \o Header(u)]
        /\ sent' = [sent EXCEPT ![c] = Append(sent[c], u)]
        /\ client' = [client EXCEPT ![c] = "waiting"]
        /\ cur' = [cur EXCEPT ![c] = u]
        BY <1>0, <1>4 DEF SendHeader, Header
  <2>2. /\ toServer \in [Conns -> Seq(Units)] /\ sent \in [Conns -> Seq(UploadType)]
        /\ client \in [Conns -> {"idle", "waiting"}] /\ cur \in [Conns -> UploadType]
        BY DEF TypeOK
  <2>3. /\ toServer'[c] = toServer[c] \o Header(u) /\ sent'[c] = Append(sent[c], u)
        /\ client'[c] = "waiting" /\ cur'[c] = u
        BY <2>1, <2>2
  <2>4. /\ toServer[c] \in Seq(Units) /\ Len(toServer[c]) \in Nat
        /\ sent[c] \in Seq(UploadType) /\ Len(sent[c]) \in Nat /\ served[c] \in Nat
        BY Types
  <2>5. /\ Len(sent'[c]) = Len(sent[c]) + 1 /\ sent'[c][Len(sent[c]) + 1] = u
        /\ \A i \in 1..Len(sent[c]) : sent'[c][i] = sent[c][i]
        BY <2>3, <2>4, UploadFacts, AppendProperties
  <2>6. /\ Len(toServer'[c]) = Len(toServer[c]) + 3
        /\ \A i \in 1..Len(toServer[c]) : toServer'[c][i] = toServer[c][i]
        /\ \A i \in 1..Len(toServer'[c]) : i > Len(toServer[c]) =>
              toServer'[c][i] = Header(u)[i - Len(toServer[c])]
    <3>1. Header(u) \in Seq(Units) /\ Len(Header(u)) = 3 BY HeaderFacts
    <3>2. PICK t \in Seq(Units), h \in Seq(Units) : t = toServer[c] /\ h = Header(u)
          BY <2>4, <3>1
    <3>3. /\ Len(t \o h) = Len(t) + Len(h)
          /\ \A i \in 1..Len(t) + Len(h) : (t \o h)[i] = IF i <= Len(t) THEN t[i]
                                                          ELSE h[i - Len(t)]
          BY ConcatProperties
    <3>4. Len(t) \in Nat /\ Len(h) = 3 BY <3>1, <3>2
    <3>5. toServer'[c] = t \o h BY <2>3, <3>2
    <3>. QED BY <3>2, <3>3, <3>4, <3>5
  \* the header follows the content of the upload before it
  <2>7. ASSUME NEW k \in Nat, NEW r \in Nat, k > 0 \/ r = 0, Stream(c, k, r, 0)
        PROVE  Stream(c, k, r, 0)' /\ Len(sent[c]) = k
    <3>1. /\ Len(sent[c]) = k /\ Len(toServer[c]) = r /\ toClient[c] = <<>>
          BY <1>2, <1>4, <2>4, <2>7 DEF Stream
    <3>2. \A i \in 1..Len(toServer[c]) :
              toServer[c][i] = IF i <= r
                               THEN sent[c][k].data[Len(sent[c][k].data) - r + i]
                               ELSE Header(sent[c][k + 1])[i - r + 0]
          BY <2>7 DEF Stream
    <3>3. ASSUME NEW i \in 1..Len(toServer'[c])
          PROVE  toServer'[c][i] = IF i <= r
                               THEN sent'[c][k].data[Len(sent'[c][k].data) - r + i]
                               ELSE Header(sent'[c][k + 1])[i - r + 0]
      <4>1. CASE i <= r
        <5>1. i \in 1..Len(toServer[c]) /\ r > 0 BY <2>4, <2>6, <3>1, <4>1
        <5>2. k \in 1..Len(sent[c]) BY <2>4, <2>7, <3>1, <5>1
        <5>. QED BY <2>5, <2>6, <3>2, <4>1, <5>1, <5>2
      <4>2. CASE ~(i <= r)
        <5>1. i > Len(toServer[c]) /\ i - r + 0 = i - Len(toServer[c]) BY <3>1, <2>4, <2>6, <4>2
        <5>2. sent'[c][k + 1] = u BY <2>5, <3>1
        <5>. QED BY <2>6, <4>2, <5>1, <5>2
      <4>. QED BY <4>1, <4>2
    <3>4. Len(sent'[c]) = k + 1 /\ Len(toServer'[c]) = r + 3 BY <2>5, <2>6, <3>1
    <3>5. /\ k <= Len(sent'[c]) /\ Len(sent'[c]) <= k + 1
          /\ Len(toServer'[c]) = r + (IF Len(sent'[c]) = k + 1 THEN 3 - 0 ELSE 0)
          /\ Len(toServer'[c]) <= r + (IF Len(sent'[c]) = k + 1 THEN 3 - 0 ELSE 0)
          BY <3>4
    <3>6. toClient'[c] = <<>> /\ (client'[c] = "waiting" <=> Len(sent'[c]) = k + 1)
          BY <1>2, <2>3, <3>1, <3>4
    <3>. QED BY <3>1, <3>3, <3>5, <3>6 DEF Stream
  <2>8. /\ handler[c] \in {"name", "size", "data", "write"} /\ ~Lost(c)
        BY <1>4 DEF Kept, Connected, Lost
  <2>9. handler[c] # "size"
    <3>1. ASSUME handler[c] = "size" PROVE FALSE
      <4>1. Len(sent[c]) = served[c] + 1 /\ Stream(c, served[c], 0, 2)
            BY <2>8, <3>1 DEF Kept, InFlow
      <4>. QED BY <1>2, <1>4, <4>1 DEF Stream
    <3>. QED BY <3>1
  <2>10. Connected(c)' BY <1>2, <1>4, <2>8 DEF Connected
  <2>11. OwnUploads(c)'
    <3>1. ASSUME NEW i \in 1..Len(sent'[c])
          PROVE  sent'[c][i] \in Uploads /\ sent'[c][i].conn = c
      <4>1. CASE i \in 1..Len(sent[c]) BY <2>5, <4>1 DEF Kept, OwnUploads
      <4>2. CASE i = Len(sent[c]) + 1 BY <1>0, <2>5, <4>2
      <4>. QED BY <2>4, <2>5, <4>1, <4>2
    <3>2. Len(sent'[c]) > 0 /\ cur'[c] = sent'[c][Len(sent'[c])] BY <2>3, <2>4, <2>5
    <3>. QED BY <3>1, <3>2 DEF OwnUploads
  <2>12. CASE handler[c] = "name"
    <3>1. served[c] <= Len(sent[c]) /\ Stream(c, served[c], 0, 0)
          BY <2>8, <2>12 DEF Kept, InFlow
    <3>2. PICK k \in Nat : k = served[c] BY <2>4
    <3>3. Stream(c, k, 0, 0)' BY <2>7, <3>1, <3>2
    <3>4. InFlow(c)'
      <4>1. k = served'[c] /\ k <= Len(sent'[c]) BY <1>2, <2>4, <2>5, <3>1, <3>2
      <4>. QED BY <1>2, <2>12, <3>3, <4>1 DEF InFlow
    <3>5. AtUpload(c)'
      <4>1. ASSUME served[c] > 0 PROVE path[c] = sent'[c][served[c]].name
        <5>1. served[c] \in 1..Len(sent[c]) BY <2>4, <3>1, <4>1
        <5>2. sent'[c][served[c]] = sent[c][served[c]] BY <2>5, <5>1
        <5>. QED BY <2>12, <4>1, <5>2 DEF Kept, AtUpload
      <4>. QED BY <1>2, <2>12, <4>1 DEF AtUpload
    <3>6. Chunks(c)' /\ Buffered(c)' BY <1>2, <2>12 DEF Chunks, Buffered
    <3>7. Kept(c)' BY <2>10, <2>11, <3>4, <3>5, <3>6 DEF Kept
    <3>. QED BY <1>1, <3>7
  <2>13. CASE handler[c] \in {"data", "write"}
    <3>1. served[c] + 1 \in 1..Len(sent[c]) BY <2>13, AtOwn
    <3>2. Serving(c)' = Serving(c)
      <4>1. sent'[c][served[c] + 1] = sent[c][served[c] + 1] BY <2>5, <3>1
      <4>. QED BY <1>2, <4>1 DEF Serving
    <3>3. AtUpload(c)'
      <4>1. served[c] < Len(sent'[c]) BY <2>4, <2>5, <3>1
      <4>. QED BY <1>2, <2>13, <3>2, <4>1 DEF Kept, AtUpload
    <3>4. InFlow(c)'
      <4>1. size[c] # 0 BY <2>13 DEF Kept, InFlow
      <4>2. ASSUME Serving(c).loads PROVE Stream(c, served[c] + 1, Due(c), 0)'
        <5>1. Stream(c, served[c] + 1, Due(c), 0)
              BY <1>2, <1>4, <2>8, <2>13, <4>2 DEF Kept, InFlow, GoPending
        <5>2. PICK k \in Nat, r \in Nat : k = served[c] + 1 /\ r = Due(c) /\ k > 0
              BY <2>4, <2>8, <2>13, <4>2, DueFacts
        <5>3. Stream(c, k, r, 0)' BY <2>7, <5>1, <5>2
        <5>4. k = served'[c] + 1 /\ r = Due(c)' BY <1>2, <5>2 DEF Due
        <5>. QED BY <5>3, <5>4
      <4>. QED BY <1>2, <2>13, <3>2, <4>1, <4>2 DEF InFlow
    <3>5. Chunks(c)'
      <4>1. ASSUME Serving(c).loads
            PROVE  /\ handler[c] = "data" => InData(c, Serving(c).data)'
                   /\ handler[c] = "write" => /\ 0 < received[c] /\ received[c] <= MaxChunk
                                              /\ InWrite(c, Serving(c).data)'
        <5>1. PICK dd : dd = Serving(c).data OBVIOUS
        <5>2. /\ handler[c] = "data" => InData(c, dd)
              /\ handler[c] = "write" => /\ 0 < received[c] /\ received[c] <= MaxChunk
                                         /\ InWrite(c, dd)
              BY <2>8, <2>13, <4>1, <5>1, DueFacts
        <5>3. InData(c, dd) => InData(c, dd)' BY <1>2 DEF InData, Wanted
        <5>4. InWrite(c, dd) => InWrite(c, dd)' BY <1>2 DEF InWrite
        <5>5. dd = Serving(c)'.data BY <3>2, <5>1
        <5>. QED BY <5>2, <5>3, <5>4, <5>5
      <4>. QED BY <1>2, <2>13, <3>2, <4>1 DEF Chunks
    <3>6. Buffered(c)' BY <1>2 DEF Kept, Buffered
    <3>7. Kept(c)' BY <2>10, <2>11, <3>3, <3>4, <3>5, <3>6 DEF Kept
    <3>. QED BY <1>1, <3>7
  <2>. QED BY <2>8, <2>9, <2>12, <2>13
<1>. QED BY <1>0, <1>2, <1>3, <1>4, Types

LEMMA SendContentStep ==
    ASSUME BInv, NEW c \in Conns, SendContent(c)
    PROVE  \A d \in Conns : Kept(d)'
<1>. TypeOK /\ \A d \in Conns : Kept(d) BY DEF BInv
<1>1. ASSUME NEW d \in Conns, d # c PROVE Kept(d)'
  <2>1. State(d)' = State(d)
        BY <1>1 DEF SendContent, Fail, State, TypeOK, handlerVars
  <2>. QED BY <2>1, Frame
<1>2. /\ UNCHANGED <<up, cur, sent, handler, path, file, size, left, buf, received, written,
                     pos, clean, served>>
      /\ client[c] = "waiting" /\ toClient[c] # <<>>
      BY DEF SendContent, Fail, handlerVars
<1>3. handler[c] # "none" /\ up[c] \in {"up", "down"}
  <2>1. up[c] \in {"unused", "up", "down"} BY Types
  <2>. QED BY <1>2, <2>1 DEF Kept, Connected
<1>4. toServer[c] \in Seq(Units) /\ Len(toServer[c]) \in Nat BY Types
<1>5. CASE up[c] = "down"
  <2>1. toServer' = toServer BY <1>5 DEF SendContent, Fail
  <2>2. Kept(c)' BY <1>2, <1>3, <1>4, <1>5, <2>1, GoesDown
  <2>. QED BY <1>1, <2>2
<1>6. CASE up[c] = "up"
  <2>1. handler[c] \in {"name", "size", "data", "write"} /\ ~Lost(c)
        BY <1>6 DEF Kept, Connected, Lost
  <2>2. handler[c] \in {"data", "write"}
        BY <1>2, <1>6, <2>1 DEF Kept, InFlow, Stream
  <2>3. /\ client'[c] = "idle"
    <3>1. client' = [client EXCEPT ![c] = "idle"] BY DEF SendContent, Fail
    <3>. QED BY <3>1 DEF TypeOK
  <2>4. Connected(c)' BY <1>2, <1>6, <2>2 DEF Connected
  <2>5. OwnUploads(c)' BY <1>2, <2>3 DEF Kept, OwnUploads
  <2>6. AtUpload(c)' /\ Serving(c)' = Serving(c) BY <1>2 DEF Kept, AtUpload, Serving
  <2>7. Buffered(c)' BY <1>2 DEF Kept, Buffered
  <2>8. size[c] # 0 BY <2>2 DEF Kept, InFlow
  <2>9. CASE ~Serving(c).loads
    <3>1. InFlow(c)' /\ Chunks(c)' BY <1>2, <2>2, <2>6, <2>8, <2>9 DEF InFlow, Chunks
    <3>2. Kept(c)' BY <2>4, <2>5, <2>6, <2>7, <3>1 DEF Kept
    <3>. QED BY <1>1, <3>2
  <2>10. CASE Serving(c).loads
    <3>1. GoPending(c) BY <1>2, <1>6, <2>1, <2>2, <2>10 DEF Kept, InFlow, Stream
    <3>2. cur[c] = Serving(c)
      <4>1. Len(sent[c]) = served[c] + 1 BY <3>1 DEF GoPending
      <4>. QED BY <1>2, <1>6, <4>1 DEF Kept, OwnUploads, Serving
    <3>3. Serving(c) \in Uploads /\ size[c] = SizeOf(Serving(c)) BY <2>2, AtOwn
    <3>4. PICK s \in Seq(Units) : s = Serving(c).data /\ Len(s) = size[c] /\ Len(s) \in Nat
          BY <2>10, <3>3, DataFacts, UploadFacts
    <3>5. s # <<>> BY <2>8, <3>4
    <3>6. /\ toServer' = [toServer EXCEPT ![c] = toServer[c] \o s]
          /\ toClient' = [toClient EXCEPT ![c] = Tail(toClient[c])]
          BY <1>6, <2>10, <3>2, <3>4, <3>5 DEF SendContent
    <3>7. toServer'[c] = s /\ toClient'[c] = <<>>
      <4>1. /\ toServer \in [Conns -> Seq(Units)] /\ toClient \in [Conns -> Seq({GO_SEND})]
            BY DEF TypeOK
      <4>2. toServer[c] = <<>> /\ toClient[c] = <<GO_SEND>> BY <1>6, <3>1 DEF GoPending
      <4>3. <<>> \o s = s BY ConcatEmptySeq
      <4>4. Tail(<<GO_SEND>>) = <<>> OBVIOUS
      <4>. QED BY <3>6, <4>1, <4>2, <4>3, <4>4
    <3>8. Due(c) = Len(s) /\ Due(c)' = Due(c)
      <4>1. handler[c] = "data" /\ left[c] = size[c] /\ Len(buf[c]) = 0 BY <3>1 DEF GoPending
      <4>. QED BY <1>2, <3>4, <4>1 DEF Due
    <3>9. PICK k \in Nat, r \in Nat : k = served[c] + 1 /\ r = Len(s) BY <3>4, Types
    <3>10. Stream(c, k, r, 0)'
      <4>1. Len(sent[c]) = k BY <3>1, <3>9 DEF GoPending
      <4>2. /\ k <= Len(sent[c]) /\ Len(sent[c]) <= k + 1 /\ Len(sent[c]) # k + 1
            BY <4>1
      <4>3. sent[c][k].data = s BY <3>4, <3>9 DEF Serving
      <4>4. \A i \in 1..Len(s) : i <= r /\ Len(s) - r + i = i BY <3>9
      <4>5. Len(toServer'[c]) = r + 0 /\ Len(toServer'[c]) <= r + 0 BY <3>7, <3>9
      <4>. QED BY <1>2, <2>3, <3>7, <4>2, <4>3, <4>4, <4>5 DEF Stream
    <3>11. InFlow(c)'
      <4>1. k = served'[c] + 1 /\ r = Due(c)' BY <1>2, <3>8, <3>9
      <4>2. Stream(c, served[c] + 1, Due(c), 0)' BY <3>10, <4>1
      <4>. QED BY <1>2, <2>2, <2>8, <4>2 DEF InFlow
    <3>12. Chunks(c)'
      <4>1. handler[c] = "data" BY <3>1 DEF GoPending
      <4>2. PICK dd : dd = Serving(c).data OBVIOUS
      <4>3. InData(c, dd) BY <2>1, <2>10, <4>1, <4>2, DueFacts
      <4>4. InData(c, dd)' BY <1>2, <4>3 DEF InData, Wanted
      <4>5. dd = Serving(c)'.data BY <2>6, <4>2
      <4>6. InData(c, Serving(c).data)' BY <4>4, <4>5
      <4>. QED BY <1>2, <4>1, <4>6 DEF Chunks
    <3>13. Kept(c)' BY <2>4, <2>5, <2>6, <2>7, <3>11, <3>12 DEF Kept
    <3>. QED BY <1>1, <3>13
  <2>. QED BY <2>9, <2>10
<1>. QED BY <1>3, <1>5, <1>6

-----------------------------------------------------------------------------
(* The steps of the handler. *)

LEMMA ReceiveNameStep ==
    ASSUME BInv, NEW c \in Conns, ReceiveName(c)
    PROVE  \A d \in Conns : Kept(d)'
<1>. TypeOK /\ \A d \in Conns : Kept(d) BY DEF BInv
<1>0. ASSUME NEW d \in Conns, d # c PROVE State(d)' = State(d)
  <2>1. CASE Arrived(c, 2)
    <3>1. PICK ok \in BOOLEAN :
              /\ toServer' = Rest(c, 2) /\ up' = up
              /\ path' = [path EXCEPT ![c] = toServer[c][2]]
              /\ file' = [file EXCEPT ![c] = ok]
              /\ pos' = [pos EXCEPT ![c] = 0]
              /\ clean' = [clean EXCEPT ![c] = TRUE]
              /\ handler' = [handler EXCEPT ![c] = "size"]
          BY <2>1, NameReceived
    <3>2. toServer'[d] = toServer[d] BY <1>0, <2>1, <3>1, RestFacts
    <3>4. /\ path'[d] = path[d] /\ file'[d] = file[d] /\ pos'[d] = pos[d]
          /\ clean'[d] = clean[d] /\ handler'[d] = handler[d]
          BY <1>0, <3>1 DEF TypeOK
    <3>5. UNCHANGED <<toClient, client, cur, sent, size, left, buf, received, written, served>>
          BY DEF ReceiveName, clientVars, chunkVars
    <3>. QED BY <3>1, <3>2, <3>4, <3>5 DEF State
  <2>2. CASE ~Arrived(c, 2)
        BY <1>0, <2>2 DEF ReceiveName, Break, State, TypeOK, clientVars, chunkVars
  <2>. QED BY <2>1, <2>2
<1>1. CASE ~Arrived(c, 2)
  <2>1. Break(c) /\ sent' = sent /\ handler[c] # "none"
        BY <1>1 DEF ReceiveName, clientVars
  <2>. QED BY <1>0, <2>1, Breaks
<1>2. CASE Arrived(c, 2)
  <2>1. /\ toServer' = Rest(c, 2) /\ handler'[c] = "size" /\ path'[c] = toServer[c][2]
        /\ pos'[c] = 0
        /\ UNCHANGED <<up, toClient, client, cur, sent, served>> /\ handler[c] = "name"
    <3>1. PICK ok \in BOOLEAN :
              /\ toServer' = Rest(c, 2) /\ up' = up
              /\ path' = [path EXCEPT ![c] = toServer[c][2]]
              /\ pos' = [pos EXCEPT ![c] = 0]
              /\ handler' = [handler EXCEPT ![c] = "size"]
          BY <1>2, NameReceived
    <3>. QED BY <3>1 DEF ReceiveName, TypeOK, clientVars
  <2>2. /\ Stream(c, served[c], 0, 0) /\ Len(sent[c]) = served[c] + 1
        /\ toServer[c][2] = Serving(c).name
        BY <1>2, <2>1, NameArrives
  <2>3. /\ Len(toServer'[c]) = Len(toServer[c]) - 2
        /\ \A i \in 1..Len(toServer'[c]) : toServer'[c][i] = toServer[c][2 + i]
        /\ Len(toServer[c]) \in Nat /\ Len(toServer[c]) >= 2
    <3>1. Len(toServer[c]) \in Nat /\ Len(toServer[c]) >= 2 BY <1>2, Types DEF Arrived
    <3>. QED BY <1>2, <2>1, <3>1, RestFacts
  <2>4. PICK k \in Nat : k = served[c] BY Types
  <2>5. Stream(c, k, 0, 2)'
    <3>1. Len(sent[c]) = k + 1 /\ k <= Len(sent[c]) /\ Len(sent[c]) <= k + 1 BY <2>2, <2>4
    <3>2. /\ Len(toServer[c]) <= 0 + (3 - 0)
          /\ up[c] = "up" => /\ Len(toServer[c]) = 0 + (3 - 0) /\ toClient[c] = <<>>
                             /\ client[c] = "waiting" <=> Len(sent[c]) = k + 1
          BY <2>2, <2>4, <3>1 DEF Stream
    <3>3. ASSUME NEW i \in 1..Len(toServer'[c])
          PROVE  ~(i <= 0) /\ toServer'[c][i] = Header(sent[c][k + 1])[i - 0 + 2]
      <4>1. 2 + i \in 1..Len(toServer[c]) /\ ~(2 + i <= 0) /\ (2 + i) - 0 + 0 = i - 0 + 2
            BY <2>3
      <4>2. toServer[c][2 + i] = Header(sent[c][k + 1])[(2 + i) - 0 + 0]
            BY <2>2, <2>4, <4>1 DEF Stream
      <4>. QED BY <2>3, <4>1, <4>2
    <3>4. /\ Len(toServer'[c]) <= 0 + (3 - 2)
          /\ up[c] = "up" => Len(toServer'[c]) = 0 + (3 - 2)
          BY <2>3, <3>2
    <3>. QED BY <2>1, <3>1, <3>2, <3>3, <3>4 DEF Stream
  <2>6. Connected(c)' BY <2>1 DEF Kept, Connected
  <2>7. OwnUploads(c)' BY <2>1 DEF Kept, OwnUploads
  <2>8. AtUpload(c)'
    <3>1. served[c] < Len(sent[c]) BY <2>2, <2>4
    <3>. QED BY <2>1, <2>2, <3>1 DEF AtUpload, Serving
  <2>9. InFlow(c)'
    <3>1. k = served'[c] BY <2>1, <2>4
    <3>. QED BY <2>1, <2>2, <2>5, <3>1 DEF InFlow
  <2>10. Chunks(c)' /\ Buffered(c)' BY <2>1 DEF Chunks, Buffered
  <2>11. Kept(c)' BY <2>6, <2>7, <2>8, <2>9, <2>10 DEF Kept
  <2>. QED BY <1>0, <2>11, Frame
<1>. QED BY <1>1, <1>2

LEMMA ReceiveSizeStep ==
    ASSUME BInv, NEW c \in Conns, ReceiveSize(c)
    PROVE  \A d \in Conns : Kept(d)'
<1>. TypeOK /\ \A d \in Conns : Kept(d) BY DEF BInv
<1>0. /\ UNCHANGED <<client, cur, sent, path, file, pos, clean, received, written>>
      /\ handler[c] = "size"
      BY DEF ReceiveSize, clientVars
<1>1. ASSUME NEW d \in Conns, d # c PROVE State(d)' = State(d)
  <2>1. /\ toServer' = Rest(c, 1) \/ toServer' = [toServer EXCEPT ![c] = <<>>]
        /\ up' = up \/ up' = [up EXCEPT ![c] = "down"]
        /\ \E h \in {"data", "closed"} : handler' = [handler EXCEPT ![c] = h]
        /\ size' = size \/ size' = [size EXCEPT ![c] = toServer[c][1]]
        /\ left' = left \/ left' = [left EXCEPT ![c] = toServer[c][1]]
        /\ buf' = buf \/ buf' = [buf EXCEPT ![c] = <<>>]
        /\ served' = served \/ served' = [served EXCEPT ![c] = served[c] + 1]
        /\ toClient' = toClient \/ toClient' = [toClient EXCEPT ![c] = Append(toClient[c], GO_SEND)]
        BY DEF ReceiveSize, Break, Go
  <2>2. toServer'[d] = toServer[d] BY <1>1, <2>1 DEF Rest, TypeOK
  <2>3. up'[d] = up[d] /\ handler'[d] = handler[d] BY <1>1, <2>1 DEF TypeOK
  <2>4. size'[d] = size[d] /\ left'[d] = left[d] BY <1>1, <2>1 DEF TypeOK
  <2>5. buf'[d] = buf[d] /\ served'[d] = served[d] /\ toClient'[d] = toClient[d]
        BY <1>1, <2>1 DEF TypeOK
  <2>. QED BY <1>0, <2>2, <2>3, <2>4, <2>5 DEF State
<1>2. CASE Break(c) BY <1>0, <1>1, <1>2, Breaks
<1>3. CASE ~Break(c)
  <2>1. /\ Arrived(c, 1) /\ toServer[c][1] # 0 /\ toServer' = Rest(c, 1)
        /\ size' = [size EXCEPT ![c] = toServer[c][1]]
        /\ left' = [left EXCEPT ![c] = toServer[c][1]]
        /\ buf' = [buf EXCEPT ![c] = <<>>]
        /\ handler' = [handler EXCEPT ![c] = "data"]
        /\ UNCHANGED <<up, served>> /\ Go(c)
        BY <1>3 DEF ReceiveSize
  <2>2. /\ Stream(c, served[c], 0, 2) /\ Len(sent[c]) = served[c] + 1
        /\ Serving(c) \in Uploads
        /\ toServer[c][1] = SizeOf(Serving(c)) /\ SizeOf(Serving(c)) \in 0..Word - 1
        BY <1>0, <2>1, SizeArrives
  <2>3. /\ size'[c] = SizeOf(Serving(c)) /\ left'[c] = SizeOf(Serving(c))
        /\ buf'[c] = <<>> /\ handler'[c] = "data"
        BY <2>1, <2>2 DEF TypeOK
  <2>4. served[c] \in Nat /\ Len(sent[c]) \in Nat /\ Len(toServer[c]) \in Nat BY Types
  <2>5. toServer'[c] = <<>>
    <3>1. /\ Len(toServer'[c]) = Len(toServer[c]) - 1 /\ toServer' \in [Conns -> Seq(Units)]
          BY <2>1, RestFacts
    <3>2. Len(toServer[c]) <= 1 /\ Len(toServer[c]) >= 1
      <4>1. Len(toServer[c]) <= 0 + (IF Len(sent[c]) = served[c] + 1 THEN 3 - 2 ELSE 0)
            BY <2>2 DEF Stream
      <4>2. Len(toServer[c]) >= 1 BY <2>1 DEF Arrived
      <4>. QED BY <2>2, <2>4, <4>1, <4>2
    <3>3. Len(toServer'[c]) = Len(toServer[c]) - 1 BY <3>1
    <3>4. Len(toServer[c]) = 1
      <4>1. PICK n \in Nat : n = Len(toServer[c]) BY <2>4
      <4>2. n <= 1 /\ n >= 1 BY <3>2, <4>1
      <4>3. n = 1 BY <4>2
      <4>. QED BY <4>1, <4>3
    <3>5. Len(toServer'[c]) = 0 BY <3>3, <3>4
    <3>. QED BY <3>1, <3>5, EmptySeq
  <2>6. Serving(c)' = Serving(c) BY <1>0, <2>1 DEF Serving
  <2>7. GoPending(c)'
    <3>1. ASSUME up[c] = "up" PROVE client[c] = "waiting" /\ toClient'[c] = <<GO_SEND>>
      <4>1. client[c] = "waiting" /\ toClient[c] = <<>> BY <2>2, <3>1 DEF Stream
      <4>2. toClient' = [toClient EXCEPT ![c] = Append(toClient[c], GO_SEND)]
            BY <2>1, <3>1 DEF Go
      <4>3. toClient'[c] = Append(toClient[c], GO_SEND) BY <4>2 DEF TypeOK
      <4>4. Append(<<>>, GO_SEND) = <<GO_SEND>> OBVIOUS
      <4>. QED BY <4>1, <4>3, <4>4
    <3>. QED BY <1>0, <2>1, <2>2, <2>3, <2>5, <3>1 DEF GoPending
  <2>8. Connected(c)' BY <1>0, <2>1, <2>3 DEF Kept, Connected
  <2>9. OwnUploads(c)' BY <1>0, <2>1 DEF Kept, OwnUploads
  <2>10. AtUpload(c)' BY <1>0, <2>1, <2>3, <2>6 DEF Kept, AtUpload
  <2>11. InFlow(c)' BY <2>1, <2>2, <2>3, <2>7 DEF InFlow
  <2>12. Chunks(c)'
    <3>1. ASSUME Serving(c).loads PROVE InData(c, Serving(c).data)'
      <4>1. PICK dd : dd = Serving(c).data OBVIOUS
      <4>2. left'[c] = Len(dd) /\ Len(dd) \in Nat /\ Len(dd) # 0
            BY <2>1, <2>2, <2>3, <3>1, <4>1, UploadFacts, DataFacts
      <4>3. Len(buf'[c]) = 0 BY <2>3
      <4>4. pos'[c] = 0 BY <1>0 DEF Kept, AtUpload
      <4>5. Len(buf'[c]) < Wanted(c)' BY <4>2, <4>3, Sizes DEF Wanted
      <4>6. InData(c, dd)' BY <4>2, <4>3, <4>4, <4>5 DEF InData
      <4>. QED BY <2>6, <4>1, <4>6
    <3>. QED BY <2>3, <2>6, <3>1 DEF Chunks
  <2>13. Buffered(c)' BY <2>3 DEF Buffered
  <2>14. Kept(c)' BY <2>8, <2>9, <2>10, <2>11, <2>12, <2>13 DEF Kept
  <2>. QED BY <1>1, <2>14, Frame
<1>. QED BY <1>2, <1>3

LEMMA WriteStep ==
    ASSUME BInv, NEW c \in Conns, Write(c)
    PROVE  \A d \in Conns : Kept(d)'
<1>. TypeOK /\ \A d \in Conns : Kept(d) BY DEF BInv
<1>0. /\ UNCHANGED <<up, toServer, toClient, client, cur, sent, handler, path, file, size,
                     left, buf, received, served>>
      /\ handler[c] = "write" /\ written[c] < received[c]
      BY DEF Write, netVars, clientVars
<1>1. \/ \E n \in 1..(received[c] - written[c]) :
            /\ file[c] /\ received[c] <= MaxChunk
            /\ pos' = [pos EXCEPT ![c] = @ + n]
            /\ written' = [written EXCEPT ![c] = @ + n] /\ clean' = clean
      \/ \E w : /\ written' = [written EXCEPT ![c] = w]
                /\ clean' = [clean EXCEPT ![c] = FALSE] /\ pos' = pos
      BY DEF Write
<1>2. /\ pos \in [Conns -> Nat] /\ written \in [Conns -> 0..Word - 1] /\ clean \in [Conns -> BOOLEAN]
      BY DEF TypeOK
<1>3. ASSUME NEW d \in Conns, d # c PROVE Kept(d)'
  <2>1. State(d)' = State(d) BY <1>0, <1>1, <1>2, <1>3 DEF State
  <2>. QED BY <2>1, Frame
<1>4. Serving(c)' = Serving(c) BY <1>0 DEF Serving
<1>5. Connected(c)' BY <1>0 DEF Kept, Connected
<1>6. OwnUploads(c)' BY <1>0 DEF Kept, OwnUploads
<1>7. AtUpload(c)' BY <1>0, <1>4 DEF Kept, AtUpload
<1>8. InFlow(c)'
  <2>1. \A k, r, o : Stream(c, k, r, o) => Stream(c, k, r, o)' BY <1>0 DEF Stream
  <2>2. Due(c)' = Due(c) /\ (Lost(c) => Lost(c)') /\ ~GoPending(c)
        BY <1>0 DEF Due, Lost, GoPending
  <2>. QED BY <1>0, <1>4, <2>1, <2>2 DEF Kept, InFlow
<1>9. Buffered(c)' BY <1>0 DEF Kept, Buffered
<1>10. Lost(c)' <=> Lost(c) BY <1>0 DEF Lost
<1>11. Chunks(c)'
  <2>1. SUFFICES ASSUME Serving(c).loads
        PROVE \/ 0 < received[c] /\ received[c] <= MaxChunk /\ InWrite(c, Serving(c).data)'
              \/ /\ received[c] = 0 /\ Lost(c)
                 /\ clean'[c] => /\ 0 < left[c] /\ left[c] <= Len(Serving(c).data)
                                 /\ file[c] => pos'[c] = Len(Serving(c).data) - left[c]
              \/ /\ received[c] > MaxChunk /\ Lost(c)
                 /\ clean'[c] => /\ written'[c] = 0
                                 /\ file[c] => pos'[c] <= Len(Serving(c).data)
        BY <1>0, <1>4, <1>10 DEF Chunks
  <2>2. \/ 0 < received[c] /\ received[c] <= MaxChunk /\ InWrite(c, Serving(c).data)
        \/ received[c] = 0 /\ Lost(c)
        \/ received[c] > MaxChunk /\ Lost(c)
        BY <1>0, <2>1 DEF Kept, Chunks
  <2>3. /\ received[c] \in Nat /\ written[c] \in Nat /\ pos[c] \in Nat /\ left[c] \in Nat
        /\ MaxChunk \in Nat
        BY Types, Sizes
  <2>4. PICK dd \in Seq(Units) : dd = Serving(c).data /\ Len(dd) \in Nat
        BY <1>0, AtOwn, DataFacts
  <2>5. ASSUME clean'[c] = FALSE, InWrite(c, dd) PROVE InWrite(c, dd)'
        BY <1>0, <2>5 DEF InWrite
  <2>6. CASE clean'[c] = FALSE
    <3>1. InWrite(c, Serving(c).data) => InWrite(c, Serving(c).data)' BY <1>4, <2>4, <2>5, <2>6
    <3>. QED BY <2>2, <2>6, <3>1
  <2>7. ASSUME NEW n \in 1..(received[c] - written[c]), received[c] <= MaxChunk,
               pos'[c] = pos[c] + n, written'[c] = written[c] + n, clean'[c] = clean[c]
        PROVE  0 < received[c] /\ received[c] <= MaxChunk /\ InWrite(c, Serving(c).data)'
    <3>1. 0 < received[c] /\ InWrite(c, dd) BY <1>0, <2>2, <2>3, <2>4, <2>7
    <3>2. InWrite(c, dd)'
      <4>1. written'[c] <= received[c] BY <2>3, <2>7
      <4>2. ASSUME clean[c], file[c]
            PROVE  pos'[c] = Len(dd) - left[c] - received[c] + written'[c]
        <5>1. PICK p \in Nat, w \in Nat, r \in Nat, L \in Nat, D \in Nat :
                 /\ p = pos[c] /\ w = written[c] /\ r = received[c] /\ L = left[c]
                 /\ D = Len(dd)
              BY <2>3, <2>4
        <5>2. n \in 1..(r - w) /\ p = D - L - r + w BY <2>7, <3>1, <4>2, <5>1 DEF InWrite
        <5>3. p + n = D - L - r + (w + n)
          <6>1. n \in Nat BY <5>2
          <6>. QED BY <5>2, <6>1
        <5>. QED BY <2>7, <5>1, <5>3
      <4>. QED BY <1>0, <2>7, <3>1, <4>1, <4>2 DEF InWrite
    <3>. QED BY <1>4, <2>4, <2>7, <3>1, <3>2
  <2>8. CASE \E n \in 1..(received[c] - written[c]) :
            /\ file[c] /\ received[c] <= MaxChunk
            /\ pos' = [pos EXCEPT ![c] = @ + n]
            /\ written' = [written EXCEPT ![c] = @ + n] /\ clean' = clean
    <3>1. PICK n \in 1..(received[c] - written[c]) :
            /\ received[c] <= MaxChunk /\ pos' = [pos EXCEPT ![c] = @ + n]
            /\ written' = [written EXCEPT ![c] = @ + n] /\ clean' = clean
          BY <2>8
    <3>2. pos'[c] = pos[c] + n /\ written'[c] = written[c] + n /\ clean'[c] = clean[c]
          BY <1>2, <3>1
    <3>. QED BY <2>7, <3>1, <3>2
  <2>9. CASE \E w : /\ written' = [written EXCEPT ![c] = w]
                    /\ clean' = [clean EXCEPT ![c] = FALSE] /\ pos' = pos
        BY <1>2, <2>6, <2>9
  <2>. QED BY <1>1, <2>8, <2>9
<1>12. Kept(c)' BY <1>5, <1>6, <1>7, <1>8, <1>9, <1>11 DEF Kept
<1>. QED BY <1>3, <1>12

LEMMA CrashStep ==
    ASSUME BInv, NEW c \in Conns, Crash(c)
    PROVE  \A d \in Conns : Kept(d)'
<1>. TypeOK /\ \A d \in Conns : Kept(d) BY DEF BInv
<1>1. ASSUME NEW d \in Conns PROVE Kept(d)'
  <2>1. /\ handler'[d] = IF handler[d] = "none" THEN "none" ELSE "crashed"
        /\ up'[d] = IF up[d] = "up" THEN "down" ELSE up[d]
        /\ UNCHANGED <<toServer, toClient, client, cur, sent, path, file, size, left, buf,
                       received, written, pos, clean, served>>
        BY DEF Crash, clientVars, chunkVars, fileVars
  <2>2. up[d] \in {"unused", "up", "down"} /\ (up[d] = "unused" <=> handler[d] = "none")
        BY Types DEF Kept, Connected
  <2>3. CASE handler[d] = "none"
    <3>1. State(d)' = State(d) BY <2>1, <2>2, <2>3 DEF State
    <3>. QED BY <3>1, Frame
  <2>4. CASE handler[d] # "none"
    <3>1. up'[d] = "down" /\ handler'[d] = "crashed" BY <2>1, <2>2, <2>4
    <3>. QED BY <2>1, <2>4, <3>1, Ends
  <2>. QED BY <2>3, <2>4
<1>. QED BY <1>1

LEMMA EndChunkStep ==
    ASSUME BInv, NEW c \in Conns, EndChunk(c)
    PROVE  \A d \in Conns : Kept(d)'
<1>. TypeOK /\ \A d \in Conns : Kept(d) BY DEF BInv
<1>0. /\ UNCHANGED <<toClient, client, cur, sent, path, file, size, pos, clean, left, received,
                     written>>
      /\ handler[c] = "write" /\ written[c] >= received[c]
      BY DEF EndChunk, clientVars, fileVars
<1>1. ASSUME NEW d \in Conns, d # c PROVE State(d)' = State(d)
  <2>1. /\ up' = up \/ up' = [up EXCEPT ![c] = "down"]
        /\ toServer' = toServer \/ toServer' = [toServer EXCEPT ![c] = <<>>]
        /\ buf' = buf \/ buf' = [buf EXCEPT ![c] = <<>>]
        /\ served' = served \/ served' = [served EXCEPT ![c] = served[c] + 1]
        /\ \E h \in {"data", "name", "closed"} : handler' = [handler EXCEPT ![c] = h]
        BY DEF EndChunk, Break
  <2>2. up'[d] = up[d] /\ handler'[d] = handler[d] BY <1>1, <2>1 DEF TypeOK
  <2>3. toServer'[d] = toServer[d] BY <1>1, <2>1 DEF TypeOK
  <2>4. buf'[d] = buf[d] /\ served'[d] = served[d] BY <1>1, <2>1 DEF TypeOK
  <2>. QED BY <1>0, <2>2, <2>3, <2>4 DEF State
<1>2. CASE Break(c) BY <1>0, <1>1, <1>2, Breaks
<1>3. /\ received[c] \in Nat /\ written[c] \in Nat /\ pos[c] \in Nat /\ left[c] \in Nat
      /\ served[c] \in Nat /\ Len(sent[c]) \in Nat /\ MaxChunk \in Nat \ {0}
      BY Types, Sizes
<1>4. /\ Serving(c) \in Uploads /\ served[c] + 1 \in 1..Len(sent[c])
      /\ path[c] = Serving(c).name /\ size[c] = SizeOf(Serving(c)) /\ size[c] # 0
      BY <1>0, AtOwn DEF Kept, InFlow
<1>5. Serving(c).loads => Lost(c) \/ Stream(c, served[c] + 1, left[c], 0)
      BY <1>0 DEF Kept, InFlow, GoPending, Due
<1>6. CASE left[c] > 0
  <2>1. /\ handler' = [handler EXCEPT ![c] = "data"] /\ buf' = [buf EXCEPT ![c] = <<>>]
        /\ UNCHANGED <<up, toServer, served>>
        BY <1>3, <1>6 DEF EndChunk
  <2>2. handler'[c] = "data" /\ buf'[c] = <<>> BY <2>1 DEF TypeOK
  <2>3. Serving(c)' = Serving(c) BY <1>0, <2>1 DEF Serving
  <2>4. Connected(c)' BY <1>0, <2>1, <2>2 DEF Kept, Connected
  <2>5. OwnUploads(c)' BY <1>0, <2>1 DEF Kept, OwnUploads
  <2>6. AtUpload(c)' BY <1>0, <2>1, <2>2, <2>3 DEF Kept, AtUpload
  <2>7. Buffered(c)' BY <2>2 DEF Buffered
  <2>8. Lost(c)' <=> Lost(c) BY <2>1 DEF Lost
  <2>9. InFlow(c)'
    <3>1. \A k, r, o : Stream(c, k, r, o) => Stream(c, k, r, o)' BY <1>0, <2>1 DEF Stream
    <3>2. Due(c)' = left[c]
      <4>1. Len(buf'[c]) = 0 BY <2>2
      <4>. QED BY <1>0, <1>3, <2>2, <4>1 DEF Due
    <3>3. PICK k, r : k = served[c] + 1 /\ r = left[c] OBVIOUS
    <3>4. Serving(c).loads => Lost(c)' \/ Stream(c, k, r, 0)' BY <1>5, <2>8, <3>1, <3>3
    <3>5. k = served'[c] + 1 /\ r = Due(c)' BY <2>1, <3>2, <3>3
    <3>. QED BY <1>0, <1>4, <2>2, <2>3, <3>4, <3>5 DEF InFlow
  <2>10. Chunks(c)'
    <3>1. SUFFICES ASSUME Serving(c).loads
          PROVE (Lost(c) /\ ~clean[c]) \/ InData(c, Serving(c).data)'
          BY <1>0, <2>2, <2>3, <2>8 DEF Chunks
    <3>2. PICK dd \in Seq(Units) : dd = Serving(c).data /\ Len(dd) \in Nat
          BY <1>4, DataFacts
    <3>3. \/ 0 < received[c] /\ received[c] <= MaxChunk /\ InWrite(c, dd)
          \/ /\ received[c] = 0 /\ Lost(c)
             /\ clean[c] => /\ 0 < left[c] /\ left[c] <= Len(dd)
                            /\ file[c] => pos[c] = Len(dd) - left[c]
          \/ /\ received[c] > MaxChunk /\ Lost(c)
             /\ clean[c] => written[c] = 0
          BY <1>0, <3>1, <3>2 DEF Kept, Chunks
    <3>4. ASSUME left[c] <= Len(dd), clean[c] /\ file[c] => pos[c] = Len(dd) - left[c]
          PROVE  InData(c, Serving(c).data)'
      <4>1. Len(buf'[c]) = 0 BY <2>2
      <4>2. Len(buf'[c]) < Wanted(c)' BY <1>0, <1>3, <1>6, <4>1 DEF Wanted
      <4>3. InData(c, dd)' BY <1>0, <1>6, <3>4, <4>1, <4>2 DEF InData
      <4>. QED BY <2>3, <3>2, <4>3
    <3>5. CASE 0 < received[c] /\ received[c] <= MaxChunk /\ InWrite(c, dd)
      <4>1. left[c] + received[c] <= Len(dd) /\ (clean[c] => written[c] <= received[c])
            BY <3>5 DEF InWrite
      <4>2. ASSUME clean[c], file[c] PROVE pos[c] = Len(dd) - left[c]
        <5>1. pos[c] = Len(dd) - left[c] - received[c] + written[c] BY <3>5, <4>2 DEF InWrite
        <5>. QED BY <1>0, <1>3, <3>2, <4>1, <4>2, <5>1
      <4>3. left[c] <= Len(dd) BY <1>3, <3>2, <4>1
      <4>. QED BY <3>4, <4>2, <4>3
    <3>6. CASE /\ received[c] = 0 /\ Lost(c)
               /\ clean[c] => /\ 0 < left[c] /\ left[c] <= Len(dd)
                              /\ file[c] => pos[c] = Len(dd) - left[c]
          BY <3>4, <3>6
    <3>7. CASE received[c] > MaxChunk /\ Lost(c) /\ (clean[c] => written[c] = 0)
          BY <1>0, <1>3, <3>7
    <3>. QED BY <3>3, <3>5, <3>6, <3>7
  <2>11. Kept(c)' BY <2>4, <2>5, <2>6, <2>7, <2>9, <2>10 DEF Kept
  <2>. QED BY <1>1, <2>11, Frame
<1>7. CASE left[c] = 0 /\ ~Break(c)
  <2>1. /\ served' = [served EXCEPT ![c] = served[c] + 1] /\ size[c] < Word \div 2
        /\ handler' = [handler EXCEPT ![c] = "name"] /\ UNCHANGED <<up, toServer>>
        BY <1>3, <1>7 DEF EndChunk
  <2>2. handler'[c] = "name" /\ served'[c] = served[c] + 1 BY <2>1 DEF TypeOK
  <2>3. Serving(c).loads
    <3>1. Word \in Nat /\ Word - 1 >= Word \div 2 BY Sizes
    <3>2. ASSUME ~Serving(c).loads PROVE FALSE
      <4>1. size[c] = Word - 1 BY <1>4, <3>2, UploadFacts
      <4>2. Word \div 2 \in Int BY <3>1
      <4>. QED BY <2>1, <3>1, <4>1, <4>2
    <3>. QED BY <3>2
  <2>4. PICK k \in Nat : k = served[c] + 1 BY <1>3
  <2>5. Lost(c) \/ Stream(c, k, 0, 0) BY <1>5, <1>7, <2>3, <2>4
  <2>6. Lost(c)' \/ Stream(c, k, 0, 0)' BY <1>0, <2>1, <2>5 DEF Lost, Stream
  <2>7. InFlow(c)'
    <3>1. served'[c] = k /\ k <= Len(sent'[c]) BY <1>0, <1>3, <1>4, <2>2, <2>4
    <3>. QED BY <2>2, <2>6, <3>1 DEF InFlow
  <2>8. Connected(c)' BY <1>0, <2>1, <2>2 DEF Kept, Connected
  <2>9. OwnUploads(c)' BY <1>0, <2>1 DEF Kept, OwnUploads
  <2>10. AtUpload(c)' BY <1>0, <1>4, <2>2 DEF AtUpload, Serving
  <2>11. Chunks(c)' /\ Buffered(c)' BY <2>2 DEF Chunks, Buffered
  <2>12. Kept(c)' BY <2>7, <2>8, <2>9, <2>10, <2>11 DEF Kept
  <2>. QED BY <1>1, <2>12, Frame
<1>. QED BY <1>2, <1>3, <1>6, <1>7

\* Receive, when read returns less than 1: nothing will arrive any more.
LEMMA ReceiveFailStep ==
    ASSUME BInv, NEW c \in Conns, handler[c] = "data", NeverArrives(c, 1),
           NEW e \in Errnos, StartWrite(c, (-e) % Word), UNCHANGED <<toServer, buf>>,
           UNCHANGED <<up, toClient, clientVars, fileVars, served, fsVars>>
    PROVE  \A d \in Conns : Kept(d)'
<1>. TypeOK /\ \A d \in Conns : Kept(d) BY DEF BInv
<1>0. UNCHANGED <<up, toServer, toClient, client, cur, sent, path, file, size, pos, clean,
                  buf, served>>
      BY DEF clientVars, fileVars
<1>1. PICK r \in 0..Word - 1 : r = (-e) % Word /\ (r = 0 \/ r > MaxChunk)
  <2>1. -e \in Int BY WordAssumption
  <2>. QED BY <2>1, AsSize, ErrnoAsSize
<1>2. /\ received' = [received EXCEPT ![c] = r] /\ left' = [left EXCEPT ![c] = (@ - r) % Word]
      /\ written' = [written EXCEPT ![c] = 0] /\ handler' = [handler EXCEPT ![c] = "write"]
      BY <1>1 DEF StartWrite
<1>3. ASSUME NEW d \in Conns, d # c PROVE Kept(d)'
  <2>1. /\ received'[d] = received[d] /\ left'[d] = left[d] /\ written'[d] = written[d]
        /\ handler'[d] = handler[d]
        BY <1>2, <1>3 DEF TypeOK
  <2>2. State(d)' = State(d) BY <1>0, <2>1 DEF State
  <2>. QED BY <2>2, Frame
<1>4. /\ received'[c] = r /\ left'[c] = (left[c] - r) % Word /\ written'[c] = 0
      /\ handler'[c] = "write"
      BY <1>2 DEF TypeOK
<1>5. Lost(c) /\ Lost(c)'
  <2>1. toServer[c] \in Seq(Units) /\ Len(toServer[c]) \in Nat BY Types
  <2>2. up[c] = "down" /\ Len(toServer[c]) = 0 BY <2>1 DEF NeverArrives
  <2>3. toServer[c] = <<>> BY <2>1, <2>2, EmptySeq
  <2>. QED BY <1>0, <2>2, <2>3 DEF Lost
<1>6. Serving(c)' = Serving(c) BY <1>0 DEF Serving
<1>7. Connected(c)' BY <1>0, <1>4 DEF Kept, Connected
<1>8. OwnUploads(c)' BY <1>0 DEF Kept, OwnUploads
<1>9. AtUpload(c)' BY <1>0, <1>4, <1>6 DEF Kept, AtUpload
<1>10. InFlow(c)' BY <1>0, <1>4, <1>5 DEF Kept, InFlow
<1>11. r \in Nat /\ MaxChunk \in Nat \ {0} BY <1>1, Sizes
<1>12. Buffered(c)' BY <1>1, <1>4, <1>11 DEF Buffered
<1>13. Chunks(c)'
  <2>1. SUFFICES ASSUME Serving(c).loads
        PROVE \/ /\ r = 0 /\ Lost(c)
                 /\ clean[c] => /\ 0 < left'[c] /\ left'[c] <= Len(Serving(c).data)
                                /\ file[c] => pos[c] = Len(Serving(c).data) - left'[c]
              \/ /\ r > MaxChunk /\ Lost(c)
                 /\ clean[c] => (file[c] => pos[c] <= Len(Serving(c).data))
        BY <1>0, <1>4, <1>5, <1>6 DEF Chunks
  <2>2. PICK dd \in Seq(Units) : dd = Serving(c).data /\ Len(dd) \in Nat
        BY AtOwn, DataFacts
  <2>3. ~clean[c] \/ InData(c, dd) BY <2>1, <2>2 DEF Kept, Chunks
  <2>4. /\ clean[c] => 0 < left[c] /\ left[c] <= Len(dd)
        /\ clean[c] /\ file[c] => pos[c] = Len(dd) - left[c]
        BY <2>3 DEF InData
  <2>5. left[c] \in 0..Word - 1 /\ left[c] \in Nat /\ pos[c] \in Nat BY Types
  <2>6. CASE r = 0
    <3>1. left'[c] = left[c] 
      <4>1. left[c] - r = left[c] /\ left[c] \in Int BY <2>5, <2>6
      <4>. QED BY <1>4, <2>5, <4>1, AsSize
    <3>. QED BY <1>5, <2>2, <2>4, <2>6, <3>1
  <2>7. CASE r > MaxChunk
    <3>1. clean[c] /\ file[c] => pos[c] <= Len(dd) BY <2>2, <2>4, <2>5
    <3>. QED BY <1>5, <2>2, <2>7, <3>1
  <2>. QED BY <1>1, <2>6, <2>7
<1>14. Kept(c)' BY <1>7, <1>8, <1>9, <1>10, <1>12, <1>13 DEF Kept
<1>. QED BY <1>3, <1>14

\* Receive, when read returns n units.
LEMMA ReceiveUnitsStep ==
    ASSUME BInv, NEW c \in Conns, handler[c] = "data",
           NEW n \in Nat, n >= 1, Len(buf[c]) + n <= Wanted(c), Arrived(c, n), toServer' = Rest(c, n),
           buf' = [buf EXCEPT ![c] = @ \o SubSeq(toServer[c], 1, n)],
           IF Len(buf'[c]) = Wanted(c) THEN StartWrite(c, Wanted(c))
           ELSE UNCHANGED <<received, left, written, handler>>,
           UNCHANGED <<up, toClient, clientVars, fileVars, served, fsVars>>
    PROVE  \A d \in Conns : Kept(d)'
<1>. TypeOK /\ \A d \in Conns : Kept(d) BY DEF BInv
<1>0. UNCHANGED <<up, toClient, client, cur, sent, path, file, size, pos, clean, served>>
      BY DEF clientVars, fileVars
<1>1. /\ toServer[c] \in Seq(Units) /\ buf[c] \in Seq(Units) /\ left[c] \in 0..Word - 1
      /\ left[c] \in Nat /\ Len(buf[c]) \in Nat /\ Len(toServer[c]) \in Nat
      /\ pos[c] \in Nat /\ served[c] \in Nat /\ Len(sent[c]) \in Nat
      BY Types
<1>2. /\ Wanted(c) \in Nat /\ Wanted(c) <= left[c] /\ Wanted(c) <= MaxChunk
      /\ MaxChunk \in Nat \ {0}
      BY <1>1, Sizes DEF Wanted
<1>3. n \in Nat /\ n >= 1 /\ n <= Len(toServer[c]) /\ Len(buf[c]) + n <= Wanted(c)
      BY <1>1, <1>2 DEF Arrived
<1>4. /\ Len(toServer'[c]) = Len(toServer[c]) - n
      /\ \A i \in 1..Len(toServer'[c]) : toServer'[c][i] = toServer[c][n + i]
      /\ \A d \in Conns : d # c => toServer'[d] = toServer[d]
      BY <1>3, RestFacts
<1>5. /\ buf'[c] \in Seq(Units) /\ Len(buf'[c]) = Len(buf[c]) + n
      /\ \A i \in 1..Len(buf[c]) : buf'[c][i] = buf[c][i]
      /\ \A i \in 1..n : buf'[c][Len(buf[c]) + i] = toServer[c][i]
  <2>1. PICK t \in Seq(Units), b \in Seq(Units) : t = toServer[c] /\ b = buf[c] BY <1>1
  <2>2. 0 \in Nat /\ 0 + n <= Len(t) /\ 0 + 1 = 1 /\ 0 + n = n BY <1>3, <2>1
  <2>3. /\ SubSeq(t, 0 + 1, 0 + n) \in Seq(Units) /\ Len(SubSeq(t, 0 + 1, 0 + n)) = n
        /\ \A k \in 1..n : SubSeq(t, 0 + 1, 0 + n)[k] = t[0 + k]
        BY <1>3, <2>2, Slice
  <2>4. PICK s \in Seq(Units) : s = SubSeq(t, 1, n) BY <2>2, <2>3
  <2>5. Len(s) = n /\ \A k \in 1..n : s[k] = t[k]
    <3>1. \A k \in 1..n : 0 + k = k OBVIOUS
    <3>. QED BY <2>2, <2>3, <2>4, <3>1
  <2>6. /\ b \o s \in Seq(Units) /\ Len(b \o s) = Len(b) + Len(s)
        /\ \A i \in 1..Len(b) + Len(s) : (b \o s)[i] = IF i <= Len(b) THEN b[i]
                                                        ELSE s[i - Len(b)]
        BY ConcatProperties
  <2>7. buf'[c] = b \o s
    <3>1. buf \in [Conns -> Seq(Units)] BY DEF TypeOK
    <3>. QED BY <2>1, <2>4, <3>1
  <2>8. Len(b) \in Nat /\ Len(b) = Len(buf[c]) BY <1>1, <2>1
  <2>9. \A i \in 1..Len(b) : (b \o s)[i] = b[i] BY <1>3, <2>5, <2>6, <2>8
  <2>10. ASSUME NEW i \in 1..n PROVE (b \o s)[Len(b) + i] = t[i]
    <3>1. Len(b) + i \in 1..Len(b) + Len(s) /\ ~(Len(b) + i <= Len(b)) /\ (Len(b) + i) - Len(b) = i
          BY <1>3, <2>5, <2>8
    <3>. QED BY <2>5, <2>6, <3>1
  <2>. QED BY <2>1, <2>5, <2>6, <2>7, <2>9, <2>10
<1>6. \/ Len(buf'[c]) = Wanted(c) /\ StartWrite(c, Wanted(c))
      \/ Len(buf'[c]) # Wanted(c) /\ UNCHANGED <<received, left, written, handler>>
      OBVIOUS
<1>7. ASSUME NEW d \in Conns, d # c PROVE Kept(d)'
  <2>1. /\ received'[d] = received[d] /\ left'[d] = left[d] /\ written'[d] = written[d]
        /\ handler'[d] = handler[d]
    <3>1. CASE StartWrite(c, Wanted(c)) BY <1>7, <3>1 DEF StartWrite, TypeOK
    <3>. QED BY <1>6, <3>1
  <2>2. buf'[d] = buf[d] BY <1>7 DEF TypeOK
  <2>3. State(d)' = State(d) BY <1>0, <1>4, <1>7, <2>1, <2>2 DEF State
  <2>. QED BY <2>3, Frame
\* the handler goes on receiving, or starts to write a chunk of the wanted size
<1>8. \/ /\ Len(buf'[c]) = Wanted(c) /\ handler'[c] = "write" /\ received'[c] = Wanted(c)
         /\ left'[c] = left[c] - Wanted(c) /\ written'[c] = 0
      \/ /\ Len(buf'[c]) < Wanted(c) /\ handler'[c] = "data" /\ left'[c] = left[c]
  <2>1. CASE StartWrite(c, Wanted(c)) /\ Len(buf'[c]) = Wanted(c)
    <3>1. /\ received'[c] = Wanted(c) /\ left'[c] = (left[c] - Wanted(c)) % Word
          /\ written'[c] = 0 /\ handler'[c] = "write"
          BY <2>1 DEF StartWrite, TypeOK
    <3>2. left[c] - Wanted(c) \in 0..Word - 1 /\ left[c] - Wanted(c) \in Int
      <4>1. PICK x \in 0..Word - 1, y \in Nat : x = left[c] /\ y = Wanted(c) /\ y <= x
            BY <1>1, <1>2
      <4>2. x - y \in 0..Word - 1 /\ x - y \in Int BY <4>1, Sizes
      <4>. QED BY <4>1, <4>2
    <3>3. (left[c] - Wanted(c)) % Word = left[c] - Wanted(c) BY <3>2, AsSize
    <3>. QED BY <2>1, <3>1, <3>3
  <2>2. CASE Len(buf'[c]) # Wanted(c) /\ UNCHANGED <<received, left, written, handler>>
    <3>1. PICK x \in Nat, y \in Nat : x = Len(buf'[c]) /\ y = Wanted(c) /\ x <= y /\ x # y
      <4>1. Len(buf'[c]) \in Nat BY <1>5
      <4>2. Len(buf'[c]) <= Wanted(c) BY <1>3, <1>5
      <4>. QED BY <1>2, <2>2, <4>1, <4>2
    <3>2. x < y BY <3>1
    <3>. QED BY <2>2, <3>1, <3>2
  <2>. QED BY <1>6, <2>1, <2>2
<1>9. Serving(c)' = Serving(c) BY <1>0 DEF Serving
<1>10. Connected(c)' BY <1>0, <1>8 DEF Kept, Connected
<1>11. OwnUploads(c)' BY <1>0 DEF Kept, OwnUploads
<1>12. AtUpload(c)' BY <1>0, <1>8, <1>9 DEF Kept, AtUpload
<1>13. Buffered(c)' BY <1>8 DEF Buffered
<1>14. size[c] # 0 BY DEF Kept, InFlow
<1>15. CASE ~Serving(c).loads
  <2>1. InFlow(c)' /\ Chunks(c)' BY <1>0, <1>8, <1>9, <1>14, <1>15 DEF InFlow, Chunks
  <2>2. Kept(c)' BY <1>10, <1>11, <1>12, <1>13, <2>1 DEF Kept
  <2>. QED BY <1>7, <2>2
<1>16. CASE Serving(c).loads
  <2>1. toServer[c] # <<>> /\ ~Lost(c) BY <1>1, <1>3 DEF Lost
  <2>2. PICK k \in Nat, r \in Nat : /\ k = served[c] + 1 /\ r = Due(c) /\ Stream(c, k, r, 0)
                                    /\ r = left[c] - Len(buf[c])
    <3>1. Due(c) \in Nat /\ served[c] + 1 \in Nat BY <1>1, <1>16, <2>1, DueFacts
    <3>2. Stream(c, served[c] + 1, Due(c), 0) BY <1>16, <2>1 DEF Kept, InFlow, GoPending
    <3>3. Due(c) = left[c] - Len(buf[c]) BY DEF Due
    <3>. QED BY <3>1, <3>2, <3>3
  <2>3. PICK dd \in Seq(Units) : dd = Serving(c).data /\ Len(dd) \in Nat /\ dd = sent[c][k].data
        BY <2>2, AtOwn, DataFacts DEF Serving
  <2>4. InData(c, dd) BY <1>16, <2>1, <2>3, DueFacts
  <2>4a. PICK L \in Nat, b \in Nat, w \in Nat :
             L = left[c] /\ b = Len(buf[c]) /\ w = Wanted(c) /\ w <= L /\ b + n <= w
        BY <1>1, <1>2, <1>3
  <2>4b. w <= L /\ b + n <= w BY <2>4a
  <2>4c. r = L - b BY <2>2, <2>4a
  <2>5. n <= r /\ r - n \in Nat BY <2>4b, <2>4c
  <2>6. Due(c)' = r - n
    <3>1. CASE /\ Len(buf'[c]) = Wanted(c) /\ handler'[c] = "write"
               /\ left'[c] = left[c] - Wanted(c)
      <4>1. Due(c)' = L - w /\ b + n = w BY <1>5, <2>4a, <3>1 DEF Due
      <4>. QED BY <2>4c, <4>1
    <3>2. CASE handler'[c] = "data" /\ left'[c] = left[c]
      <4>1. Due(c)' = L - (b + n) BY <1>5, <2>4a, <3>2 DEF Due
      <4>. QED BY <2>4c, <4>1
    <3>. QED BY <1>8, <3>1, <3>2
  \* the rest of the stream
  <2>7. PICK q \in Nat : q = r - n BY <2>5
  <2>8. Stream(c, k, q, 0)'
    <3>1. /\ k <= Len(sent[c]) /\ Len(sent[c]) <= k + 1
          /\ Len(toServer[c]) <= r + (IF Len(sent[c]) = k + 1 THEN 3 - 0 ELSE 0)
          /\ up[c] = "up" =>
                /\ Len(toServer[c]) = r + (IF Len(sent[c]) = k + 1 THEN 3 - 0 ELSE 0)
                /\ toClient[c] = <<>>
                /\ client[c] = "waiting" <=> Len(sent[c]) = k + 1
          BY <2>2 DEF Stream
    <3>2. PICK z \in Nat : z = IF Len(sent[c]) = k + 1 THEN 3 - 0 ELSE 0 OBVIOUS
    <3>3. PICK x \in Nat : x = Len(toServer[c]) /\ Len(toServer'[c]) = x - n BY <1>1, <1>4
    <3>4. /\ Len(toServer'[c]) <= q + z
          /\ up[c] = "up" => Len(toServer'[c]) = q + z
      <4>1. x <= r + z /\ (up[c] = "up" => x = r + z) BY <3>1, <3>2, <3>3
      <4>2. x - n <= q + z /\ (up[c] = "up" => x - n = q + z) BY <2>5, <2>7, <4>1
      <4>. QED BY <3>3, <4>2
    <3>5. ASSUME NEW i \in 1..Len(toServer'[c])
          PROVE  toServer'[c][i] = IF i <= q
                                   THEN sent[c][k].data[Len(sent[c][k].data) - q + i]
                                   ELSE Header(sent[c][k + 1])[i - q + 0]
      <4>1. i \in Nat /\ n + i \in 1..Len(toServer[c])
        <5>1. i \in 1..(x - n) BY <3>3
        <5>2. i \in Nat /\ n + i \in 1..x BY <5>1
        <5>. QED BY <3>3, <5>2
      <4>2. toServer[c][n + i] = IF n + i <= r
                                 THEN dd[Len(dd) - r + (n + i)]
                                 ELSE Header(sent[c][k + 1])[(n + i) - r + 0]
            BY <2>2, <2>3, <4>1 DEF Stream
      <4>3. /\ n + i <= r <=> i <= q
            /\ Len(dd) - r + (n + i) = Len(dd) - q + i
            /\ (n + i) - r + 0 = i - q + 0
        <5>1. PICK ld \in Nat : ld = Len(dd) BY <2>3
        <5>2. /\ n + i <= r <=> i <= q
              /\ ld - r + (n + i) = ld - q + i /\ (n + i) - r + 0 = i - q + 0
              BY <2>5, <2>7, <4>1
        <5>. QED BY <5>1, <5>2
      <4>. QED BY <1>4, <2>3, <4>2, <4>3
    <3>. QED BY <1>0, <3>1, <3>2, <3>4, <3>5 DEF Stream
  <2>9. InFlow(c)'
    <3>1. k = served'[c] + 1 /\ q = Due(c)' BY <1>0, <2>2, <2>6, <2>7
    <3>. QED BY <1>0, <1>8, <1>14, <2>8, <3>1 DEF InFlow
  \* what the handler has in its buffer
  <2>10. \A i \in 1..Len(buf'[c]) : buf'[c][i] = dd[Len(dd) - left[c] + i]
    <3>1. ASSUME NEW i \in 1..b PROVE buf'[c][i] = dd[Len(dd) - left[c] + i]
          BY <1>5, <2>4, <2>4a DEF InData
    <3>2. ASSUME NEW j \in 1..n PROVE buf'[c][b + j] = dd[Len(dd) - left[c] + (b + j)]
      <4>1. j \in 1..Len(toServer[c]) /\ j <= r
        <5>1. PICK x \in Nat : x = Len(toServer[c]) /\ n <= x BY <1>1, <1>3
        <5>2. j \in 1..x /\ j <= r BY <2>5, <5>1
        <5>. QED BY <5>1, <5>2
      <4>2. toServer[c][j] = dd[Len(dd) - r + j] BY <2>2, <2>3, <4>1 DEF Stream
      <4>3. Len(dd) - r + j = Len(dd) - left[c] + (b + j)
        <5>1. Len(dd) - r + j = Len(dd) - L + (b + j)
          <6>1. PICK z \in Nat : z = Len(dd) BY <2>3
          <6>2. z - r + j = z - L + (b + j) BY <2>4c
          <6>. QED BY <6>1, <6>2
        <5>. QED BY <2>4a, <5>1
      <4>. QED BY <1>5, <2>4a, <4>2, <4>3
    <3>3. ASSUME NEW i \in 1..(b + n) PROVE buf'[c][i] = dd[Len(dd) - left[c] + i]
      <4>1. CASE i <= b
        <5>1. i \in 1..b BY <4>1
        <5>. QED BY <3>1, <5>1
      <4>2. CASE ~(i <= b)
        <5>1. PICK j \in 1..n : i = b + j
          <6>1. i - b \in 1..n /\ i = b + (i - b) BY <2>5, <4>2
          <6>. QED BY <6>1
        <5>. QED BY <3>2, <5>1
      <4>. QED BY <4>1, <4>2
    <3>. QED BY <1>5, <2>4a, <3>3
  <2>11. /\ 0 < left[c] /\ left[c] <= Len(dd)
         /\ clean[c] /\ file[c] => pos[c] = Len(dd) - left[c]
        BY <2>4 DEF InData
  <2>12. Chunks(c)'
    <3>1. CASE /\ Len(buf'[c]) < Wanted(c) /\ handler'[c] = "data" /\ left'[c] = left[c]
      <4>1. Wanted(c)' = Wanted(c) BY <3>1 DEF Wanted
      <4>2. InData(c, dd)' BY <1>0, <2>10, <2>11, <3>1, <4>1 DEF InData
      <4>. QED BY <1>9, <2>3, <3>1, <4>2 DEF Chunks
    <3>2. CASE /\ Len(buf'[c]) = Wanted(c) /\ handler'[c] = "write"
               /\ received'[c] = Wanted(c) /\ left'[c] = left[c] - Wanted(c)
               /\ written'[c] = 0
      <4>1. received'[c] = w /\ left'[c] = L - w /\ Len(buf'[c]) = w BY <2>4a, <3>2
      <4>2. left'[c] + received'[c] = L BY <2>4a, <4>1
      <4>3. Len(dd) - left'[c] - received'[c] = Len(dd) - L
        <5>1. PICK z \in Nat : z = Len(dd) BY <2>3
        <5>2. z - (L - w) - w = z - L OBVIOUS
        <5>. QED BY <4>1, <5>1, <5>2
      <4>4. \A i \in 1..Len(buf'[c]) :
               buf'[c][i] = dd[Len(dd) - left'[c] - received'[c] + i]
            BY <2>4a, <2>10, <4>3
      <4>5. written'[c] <= received'[c] BY <2>4a, <3>2, <4>1
      <4>6. clean[c] /\ file[c] => pos[c] = Len(dd) - left'[c] - received'[c] + written'[c]
        <5>1. PICK z \in Nat : z = Len(dd) BY <2>3
        <5>2. z - L + 0 = z - L OBVIOUS
        <5>. QED BY <2>4a, <2>11, <3>2, <4>3, <5>1, <5>2
      <4>7. InWrite(c, dd)'
            BY <1>0, <2>4a, <2>11, <4>1, <4>2, <4>4, <4>5, <4>6 DEF InWrite
      <4>8. 0 < received'[c] /\ received'[c] <= MaxChunk
            BY <1>2, <2>4a, <2>5, <4>1
      <4>. QED BY <1>9, <2>3, <3>2, <4>7, <4>8 DEF Chunks
    <3>. QED BY <1>8, <3>1, <3>2
  <2>13. Kept(c)' BY <1>10, <1>11, <1>12, <1>13, <2>9, <2>12 DEF Kept
  <2>. QED BY <1>7, <2>13
<1>. QED BY <1>15, <1>16, AtOwn, UploadFacts

LEMMA ReceiveStep ==
    ASSUME BInv, NEW c \in Conns, Receive(c)
    PROVE  \A d \in Conns : Kept(d)'
<1>0. TypeOK BY DEF BInv
<1>1. ASSUME NEW n \in 1..(Wanted(c) - Len(buf[c]))
      PROVE  n \in Nat /\ n >= 1 /\ Len(buf[c]) + n <= Wanted(c)
  <2>1. left[c] \in Nat /\ Len(buf[c]) \in Nat /\ MaxChunk \in Nat BY <1>0, Types, Sizes
  <2>2. PICK w \in Nat, b \in Nat : w = Wanted(c) /\ b = Len(buf[c]) BY <2>1 DEF Wanted
  <2>3. n \in 1..(w - b) BY <2>2
  <2>4. n \in Nat /\ n >= 1 /\ b + n <= w BY <2>3
  <2>. QED BY <2>2, <2>4
<1>2. CASE \E n \in 1..(Wanted(c) - Len(buf[c])) :
             /\ Arrived(c, n)
             /\ toServer' = Rest(c, n)
             /\ buf' = [buf EXCEPT ![c] = @ \o SubSeq(toServer[c], 1, n)]
             /\ IF Len(buf'[c]) = Wanted(c) THEN StartWrite(c, Wanted(c))
                ELSE UNCHANGED <<received, left, written, handler>>
  <2>1. PICK n \in 1..(Wanted(c) - Len(buf[c])) :
             /\ Arrived(c, n)
             /\ toServer' = Rest(c, n)
             /\ buf' = [buf EXCEPT ![c] = @ \o SubSeq(toServer[c], 1, n)]
             /\ IF Len(buf'[c]) = Wanted(c) THEN StartWrite(c, Wanted(c))
                ELSE UNCHANGED <<received, left, written, handler>>
        BY <1>2
  <2>2. handler[c] = "data" /\ UNCHANGED <<up, toClient, clientVars, fileVars, served, fsVars>>
        BY DEF Receive
  <2>. QED BY <1>1, <2>1, <2>2, ReceiveUnitsStep
<1>3. CASE /\ NeverArrives(c, 1)
           /\ \E e \in Errnos : StartWrite(c, (-e) % Word)
           /\ UNCHANGED <<toServer, buf>>
  <2>1. PICK e \in Errnos : StartWrite(c, (-e) % Word) BY <1>3
  <2>2. handler[c] = "data" /\ UNCHANGED <<up, toClient, clientVars, fileVars, served, fsVars>>
        BY DEF Receive
  <2>. QED BY <1>3, <2>1, <2>2, ReceiveFailStep
<1>. QED BY <1>2, <1>3 DEF Receive

-----------------------------------------------------------------------------
(* The invariant holds. *)

LEMMA BInit == Init => BInv
<1>. SUFFICES ASSUME Init PROVE BInv OBVIOUS
<1>1. SomeName \in Names BY NamesAssumption DEF SomeName
<1>2. /\ <<>> \in Seq(Units) /\ <<>> \in Seq({GO_SEND}) /\ <<>> \in Seq(UploadType)
      /\ <<>> \in Seq(Cells) /\ Len(<<>>) = 0
      OBVIOUS
<1>3. \A c \in Conns : NoUpload(c) \in UploadType BY <1>1, <1>2 DEF NoUpload, UploadType
<1>4. 0 \in 0..Word - 1 /\ 0 \in 0..MaxOpen BY Sizes, ChunkAssumption
<1>5. TypeOK BY <1>1, <1>2, <1>3, <1>4 DEF Init, TypeOK
<1>6. FileSystem /\ Positions BY DEF Init, FileSystem, Positions
<1>7. ASSUME NEW c \in Conns PROVE Kept(c)
  <2>1. /\ up[c] = "unused" /\ handler[c] = "none" /\ toServer[c] = <<>> /\ toClient[c] = <<>>
        /\ sent[c] = <<>> /\ client[c] = "idle" /\ served[c] = 0
        BY DEF Init
  <2>2. Connected(c) BY <2>1 DEF Connected
  <2>3. OwnUploads(c) BY <1>2, <2>1 DEF OwnUploads
  <2>4. AtUpload(c) /\ InFlow(c) /\ Chunks(c) /\ Buffered(c)
        BY <2>1 DEF AtUpload, InFlow, Chunks, Buffered
  <2>. QED BY <2>2, <2>3, <2>4 DEF Kept
<1>. QED BY <1>5, <1>6, <1>7 DEF BInv

LEMMA BStep == BInv /\ [Next]_vars => BInv'
<1>. SUFFICES ASSUME BInv, [Next]_vars PROVE BInv' OBVIOUS
<1>1. TypeOK' /\ FileSystem' /\ Positions' BY TypeStep, FileStep
<1>2. ASSUME NEW c \in Conns, Connect(c) \/ Disconnect(c) \/ Lose(c) \/ Client(c) \/ Handler(c)
      PROVE  \A d \in Conns : Kept(d)'
      BY <1>2, ConnectStep, DisconnectStep, LoseStep, SendContentStep, NoGoStep,
         ReceiveNameStep, ReceiveSizeStep, ReceiveStep, WriteStep, CrashStep, EndChunkStep
         DEF Client, Handler
<1>3. ASSUME NEW u \in Uploads, SendHeader(u) PROVE \A d \in Conns : Kept(d)'
      BY <1>3, SendHeaderStep
<1>4. ASSUME UNCHANGED vars, NEW d \in Conns PROVE Kept(d)'
  <2>1. State(d)' = State(d) BY <1>4 DEF vars, State
  <2>. QED BY <2>1, Frame DEF BInv
<1>. QED BY <1>1, <1>2, <1>3, <1>4 DEF BInv, Next

\* The inductive invariant, of every execution.
THEOREM BinaryInvariant == Spec => []BInv
BY BInit, BStep, PTL DEF Spec

\* Sizes and counts stay size_t values, however the handler's unsigned arithmetic wraps
\* around, and a descriptor is never used beyond Dom0's limit.
THEOREM TypeCorrect == Spec => []TypeOK
<1>1. BInv => TypeOK BY DEF BInv
<1>. QED BY <1>1, BinaryInvariant, PTL

\* What the invariant says of the units on their way.
LEMMA StreamIsAhead ==
    ASSUME TypeOK, NEW c \in Conns, Kept(c)
    PROVE  /\ handler[c] = "name" => Ahead(c, served[c], 0, 0)
           /\ handler[c] = "size" => Ahead(c, served[c], 0, 2)
           /\ handler[c] \in {"data", "write"} /\ Serving(c).loads =>
                 Ahead(c, served[c] + 1, Due(c), 0)
<1>1. /\ Len(sent[c]) \in Nat /\ served[c] \in Nat /\ left[c] \in Nat /\ received[c] \in Nat
      /\ Len(buf[c]) \in Nat /\ Len(toServer[c]) \in Nat /\ toServer[c] \in Seq(Units)
      BY Types
<1>2. ASSUME NEW k, NEW r, NEW o, toServer[c] = <<>>
             PROVE  Ahead(c, k, r, o)
  <2>1. 1..Len(toServer[c]) = {} BY <1>2
  <2>. QED BY <2>1 DEF Ahead
<1>3. ASSUME NEW k \in Nat, NEW r \in Nat, NEW o \in {0, 2}, Stream(c, k, r, o),
             r = 0 \/ r <= Len(sent[c][k].data)
      PROVE  Ahead(c, k, r, o)
  <2>1. k <= Len(sent[c]) /\ Len(sent[c]) <= k + 1 BY <1>3 DEF Stream
  <2>2. Len(toServer[c]) <= r + (IF Len(sent[c]) = k + 1 THEN 3 - o ELSE 0)
        BY <1>3 DEF Stream
  <2>3. ASSUME NEW i \in 1..Len(toServer[c]), ~(i <= r)
        PROVE  k < Len(sent[c]) /\ i - r + o <= 3
    <3>1. i \in Nat /\ i <= Len(toServer[c]) /\ i > r BY <1>1, <2>3
    <3>2. Len(sent[c]) = k + 1 BY <1>1, <2>2, <3>1
    <3>. QED BY <1>1, <2>2, <3>1, <3>2
  <2>4. ASSUME NEW i \in 1..Len(toServer[c]), i <= r PROVE r <= Len(sent[c][k].data)
    <3>1. i \in Nat /\ i >= 1 BY <1>1
    <3>2. r # 0 BY <2>4, <3>1
    <3>. QED BY <1>3, <3>2
  <2>. QED BY <1>3, <2>3, <2>4 DEF Stream, Ahead
<1>4. ASSUME handler[c] = "name" PROVE Ahead(c, served[c], 0, 0)
  <2>1. toServer[c] = <<>> \/ Stream(c, served[c], 0, 0) BY <1>4 DEF Kept, InFlow, Lost
  <2>. QED BY <1>1, <1>2, <1>3, <2>1
<1>5. ASSUME handler[c] = "size" PROVE Ahead(c, served[c], 0, 2)
  <2>1. toServer[c] = <<>> \/ Stream(c, served[c], 0, 2) BY <1>5 DEF Kept, InFlow, Lost
  <2>. QED BY <1>1, <1>2, <1>3, <2>1
<1>6. ASSUME handler[c] \in {"data", "write"}, Serving(c).loads
      PROVE  Ahead(c, served[c] + 1, Due(c), 0)
  <2>1. CASE toServer[c] = <<>> BY <1>2, <2>1
  <2>2. CASE toServer[c] # <<>>
    <3>1. ~Lost(c) /\ ~GoPending(c) BY <2>2 DEF Lost, GoPending
    <3>2. Stream(c, served[c] + 1, Due(c), 0) BY <1>6, <3>1 DEF Kept, InFlow
    <3>3. served[c] + 1 \in Nat /\ sent[c][served[c] + 1] = Serving(c) BY <1>1 DEF Serving
    <3>4. Serving(c) \in Uploads BY <1>6, AtOwn
    <3>5. Len(Serving(c).data) \in Nat BY <3>4, DataFacts
    <3>6. Due(c) \in Nat /\ Due(c) <= Len(Serving(c).data)
      <4>1. CASE handler[c] = "data"
        <5>1. InData(c, Serving(c).data) BY <1>6, <3>1, <4>1 DEF Kept, Chunks
        <5>2. left[c] <= Len(Serving(c).data) /\ Len(buf[c]) < left[c]
              BY <1>1, <5>1, Sizes DEF InData, Wanted
        <5>. QED BY <1>1, <3>5, <4>1, <5>2 DEF Due
      <4>2. CASE handler[c] = "write"
        <5>1. InWrite(c, Serving(c).data) BY <1>6, <3>1, <4>2 DEF Kept, Chunks
        <5>2. left[c] + received[c] <= Len(Serving(c).data) BY <5>1 DEF InWrite
        <5>. QED BY <1>1, <3>5, <4>2, <5>2 DEF Due
      <4>. QED BY <1>6, <4>1, <4>2
    <3>. QED BY <1>3, <3>2, <3>3, <3>6
  <2>. QED BY <2>1, <2>2
<1>. QED BY <1>4, <1>5, <1>6

\* binaryConnectionHandler and sendElfBinaryFromMemory agree on where messages end:
\* the path the handler opens, the size it receives and the bytes that come next are
\* those of the upload it is at, unless that is a file the sender could not load.
THEOREM HandlerInStep == Spec => []InStep
<1>1. BInv => InStep BY StreamIsAhead DEF BInv, Kept, AtUpload, InStep
<1>. QED BY <1>1, BinaryInvariant, PTL

-----------------------------------------------------------------------------
(* What is stored. *)

\* As far as the handler of c has written it, the file at its path holds the content of
\* the upload it is at, or has just received; element by element.
Stored(c) ==
    clean[c] /\ file[c] /\ Exclusive(c, path[c]) =>
        /\ handler[c] \in {"data", "write"} /\ Serving(c).loads =>
              \A k \in 1..pos[c] : content[path[c]][k] = Serving(c).data[k]
        /\ handler[c] = "name" /\ served[c] > 0 =>
              /\ Len(sent[c][served[c]].data) <= Len(content[path[c]])
              /\ \A k \in 1..Len(sent[c][served[c]].data) :
                    content[path[c]][k] = sent[c][served[c]].data[k]

SInv == BInv /\ \A c \in Conns : Stored(c)

\* A step that leaves the file and the handler's place in it alone.
LEMMA StoredFrame ==
    ASSUME BInv, NEW c \in Conns, Stored(c), path'[c] = path[c], file'[c] = file[c],
           clean'[c] = clean[c], pos'[c] = pos[c],
           \A i \in 1..Len(sent[c]) : sent'[c][i] = sent[c][i],
           \/ handler'[c] = handler[c] /\ served'[c] = served[c]
           \/ /\ handler[c] \in {"data", "write"} /\ handler'[c] \in {"data", "write"}
              /\ served'[c] = served[c]
           \/ handler'[c] \notin {"data", "write", "name"},
           file[c] /\ Exclusive(c, path[c]) => content'[path[c]] = content[path[c]]
    PROVE  Stored(c)'
<1>. TypeOK /\ Kept(c) BY DEF BInv
<1>1. CASE handler'[c] \notin {"data", "write", "name"} BY <1>1 DEF Stored
<1>2. CASE /\ handler[c] \in {"data", "write"} /\ handler'[c] \in {"data", "write"}
           /\ served'[c] = served[c]
  <2>1. served[c] + 1 \in 1..Len(sent[c]) BY <1>2, AtOwn
  <2>2. Serving(c)' = Serving(c) BY <1>2, <2>1 DEF Serving
  <2>3. SUFFICES ASSUME clean[c], file[c], Exclusive(c, path[c]), Serving(c).loads,
                        NEW k \in 1..pos[c]
                 PROVE  content'[path[c]][k] = Serving(c).data[k]
        BY <1>2, <2>2 DEF Stored, Exclusive
  <2>. QED BY <1>2, <2>3 DEF Stored
<1>3. CASE handler[c] = "name" /\ handler'[c] = "name" /\ served'[c] = served[c]
  <2>1. SUFFICES ASSUME clean[c], file[c], Exclusive(c, path[c]), served[c] > 0
                 PROVE  /\ Len(sent'[c][served[c]].data) <= Len(content'[path[c]])
                        /\ \A k \in 1..Len(sent'[c][served[c]].data) :
                              content'[path[c]][k] = sent'[c][served[c]].data[k]
        BY <1>3 DEF Stored, Exclusive
  <2>2. served[c] \in Nat /\ Len(sent[c]) \in Nat /\ served[c] <= Len(sent[c])
        BY <1>3, Types DEF Kept, InFlow
  <2>3. served[c] \in 1..Len(sent[c]) BY <2>1, <2>2
  <2>. QED BY <1>3, <2>1, <2>3 DEF Stored
<1>. QED BY <1>1, <1>2, <1>3

\* What the handlers of other connections do does not touch a file of c alone.
LEMMA OtherWrites ==
    ASSUME BInv, NEW c \in Conns, NEW d \in Conns, d # c, Write(d), file[c],
           Exclusive(c, path[c])
    PROVE  content'[path[c]] = content[path[c]]
<1>. TypeOK /\ FileSystem /\ Positions /\ Kept(c) /\ Kept(d) BY DEF BInv
<1>1. handler[d] = "write" BY DEF Write
<1>2. Serving(d) \in Uploads /\ Serving(d).conn = d /\ path[d] = Serving(d).name
      BY <1>1, AtOwn
<1>3. path[c] # path[d] BY <1>2 DEF Exclusive
<1>4. path[c] \in Names BY Types
<1>5. CASE \E n \in 1..(received[d] - written[d]) :
              /\ file[d] /\ received[d] <= MaxChunk
              /\ content' = [content EXCEPT ![path[d]] =
                    WriteAt(@, pos[d], SubSeq(buf[d], written[d] + 1, written[d] + n))]
      BY <1>1, <1>3, <1>4, <1>5, Written
<1>6. CASE content' = content BY <1>6
<1>. QED BY <1>5, <1>6 DEF Write

\* A write puts the next units of the content behind those that are stored.
LEMMA OwnWrites ==
    ASSUME BInv, NEW c \in Conns, Write(c), Stored(c)
    PROVE  Stored(c)'
<1>. TypeOK /\ FileSystem /\ Positions /\ Kept(c) BY DEF BInv
<1>0. /\ UNCHANGED <<sent, handler, path, file, served>> /\ handler[c] = "write"
      /\ written[c] < received[c]
      BY DEF Write, clientVars
<1>1. Serving(c)' = Serving(c) BY <1>0 DEF Serving
<1>2. CASE clean'[c] = FALSE BY <1>2 DEF Stored
<1>3. ASSUME NEW n \in 1..(received[c] - written[c]), file[c], received[c] <= MaxChunk,
             content' = [content EXCEPT ![path[c]] =
                   WriteAt(@, pos[c], SubSeq(buf[c], written[c] + 1, written[c] + n))],
             pos' = [pos EXCEPT ![c] = @ + n], clean' = clean
      PROVE  Stored(c)'
  <2>1. SUFFICES ASSUME clean[c], file[c], Exclusive(c, path[c]), Serving(c).loads,
                        NEW k \in 1..pos'[c]
                 PROVE  content'[path[c]][k] = Serving(c).data[k]
        BY <1>0, <1>1, <1>3 DEF Stored, Exclusive
  <2>2. /\ \A i \in 1..pos[c] : content'[path[c]][i] = content[path[c]][i]
        /\ \A i \in 1..n : content'[path[c]][pos[c] + i] = buf[c][written[c] + i]
        BY <1>0, <1>3, Written
  <2>3. /\ pos[c] \in Nat /\ written[c] \in Nat /\ received[c] \in Nat /\ left[c] \in Nat
        /\ MaxChunk \in Nat
        BY Types, Sizes
  <2>4. PICK dd \in Seq(Units) : dd = Serving(c).data /\ Len(dd) \in Nat
        BY <1>0, AtOwn, DataFacts
  <2>5. InWrite(c, dd) BY <1>0, <1>3, <2>1, <2>3, <2>4 DEF Kept, Chunks
  <2>6. pos'[c] = pos[c] + n BY <1>3 DEF TypeOK
  <2>7. CASE k \in 1..pos[c] BY <1>0, <2>1, <2>2, <2>7 DEF Stored
  <2>8. CASE k \notin 1..pos[c]
    <3>1. PICK p \in Nat, w \in Nat, r \in Nat, L \in Nat, D \in Nat :
             /\ p = pos[c] /\ w = written[c] /\ r = received[c] /\ L = left[c] /\ D = Len(dd)
          BY <2>3, <2>4
    <3>2. n \in 1..(r - w) /\ k \in 1..(p + n) /\ k \notin 1..p BY <1>3, <2>6, <2>8, <3>1
    <3>3. PICK i \in 1..n : k = p + i
      <4>1. n \in Nat /\ k - p \in 1..n /\ k = p + (k - p) BY <3>2
      <4>. QED BY <4>1
    <3>4. w + i \in 1..r /\ w + i \in Nat BY <3>2, <3>3
    <3>5. /\ r = Len(buf[c]) /\ p = D - L - r + w
          /\ \A j \in 1..Len(buf[c]) : buf[c][j] = dd[Len(dd) - left[c] - received[c] + j]
          BY <1>3, <2>1, <2>5, <3>1 DEF InWrite
    <3>6. buf[c][w + i] = dd[D - L - r + (w + i)] BY <3>1, <3>4, <3>5
    <3>7. D - L - r + (w + i) = p + i
      <4>1. p = D - L - r + w /\ i \in Nat BY <3>2, <3>5
      <4>. QED BY <4>1
    <3>8. content'[path[c]][p + i] = buf[c][w + i] BY <2>2, <3>1
    <3>. QED BY <2>4, <3>3, <3>6, <3>7, <3>8
  <2>. QED BY <2>7, <2>8
<1>4. CASE clean' = [clean EXCEPT ![c] = FALSE]
  <2>1. clean'[c] = FALSE BY <1>4 DEF TypeOK
  <2>. QED BY <1>2, <2>1
<1>. QED BY <1>3, <1>4 DEF Write

\* A binary that is received is stored as a whole.
LEMMA ReceivedIsStored ==
    ASSUME BInv, NEW c \in Conns, EndChunk(c), Stored(c)
    PROVE  Stored(c)'
<1>. TypeOK /\ FileSystem /\ Positions /\ Kept(c) BY DEF BInv
<1>0. /\ UNCHANGED <<sent, path, file, pos, clean, content>> /\ handler[c] = "write"
      /\ written[c] >= received[c]
      BY DEF EndChunk, clientVars, fileVars, fsVars
<1>1. CASE handler'[c] = "closed" BY <1>1 DEF Stored
<1>2. CASE left[c] > 0 /\ handler'[c] = "data" /\ served' = served
      BY <1>0, <1>2, StoredFrame
<1>3. CASE left[c] = 0 /\ handler'[c] = "name" /\ served'[c] = served[c] + 1
           /\ size[c] < Word \div 2
  <2>1. SUFFICES ASSUME clean[c], file[c], Exclusive(c, path[c])
                 PROVE  /\ Len(Serving(c).data) <= Len(content[path[c]])
                        /\ \A k \in 1..Len(Serving(c).data) :
                              content[path[c]][k] = Serving(c).data[k]
        BY <1>0, <1>3 DEF Stored, Exclusive, Serving
  <2>2. Serving(c) \in Uploads /\ size[c] = SizeOf(Serving(c)) BY <1>0, AtOwn
  <2>3. Serving(c).loads
    <3>1. Word \in Nat /\ Word - 1 >= Word \div 2 /\ Word \div 2 \in Int BY Sizes
    <3>2. ASSUME ~Serving(c).loads PROVE FALSE
      <4>1. size[c] = Word - 1 BY <2>2, <3>2, UploadFacts
      <4>. QED BY <1>3, <3>1, <4>1
    <3>. QED BY <3>2
  <2>4. PICK dd \in Seq(Units) : dd = Serving(c).data /\ Len(dd) \in Nat
        BY <2>2, DataFacts
  <2>5. PICK p \in Nat, w \in Nat, r \in Nat, L \in Nat, D \in Nat :
             /\ p = pos[c] /\ w = written[c] /\ r = received[c] /\ L = left[c] /\ D = Len(dd)
        BY <2>4, Types
  <2>6. L = 0 /\ w >= r BY <1>0, <1>3, <2>5
  <2>7. 0 < r /\ r <= MaxChunk /\ InWrite(c, dd)
    <3>1. MaxChunk \in Nat \ {0} BY Sizes
    <3>2. \/ 0 < r /\ r <= MaxChunk /\ InWrite(c, dd)
          \/ r = 0 /\ 0 < L
          \/ r > MaxChunk /\ w = 0
          BY <1>0, <2>1, <2>3, <2>4, <2>5 DEF Kept, Chunks
    <3>3. ~(r = 0 /\ 0 < L) /\ ~(r > MaxChunk /\ w = 0) BY <2>6, <3>1
    <3>. QED BY <3>2, <3>3
  <2>8. w <= r /\ p = D - L - r + w BY <2>1, <2>5, <2>7 DEF InWrite
  <2>9. p = D BY <2>6, <2>8
  <2>10. p <= Len(content[path[c]]) BY <2>1, <2>5 DEF Positions
  <2>11. \A k \in 1..p : content[path[c]][k] = dd[k]
        BY <1>0, <2>1, <2>3, <2>4, <2>5 DEF Stored
  <2>. QED BY <2>4, <2>5, <2>9, <2>10, <2>11
<1>4. handler \in [Conns -> {"none", "name", "size", "data", "write", "closed", "crashed"}]
      /\ served \in [Conns -> Nat] /\ left[c] \in Nat
      BY Types DEF TypeOK
<1>. QED BY <1>1, <1>2, <1>3, <1>4 DEF EndChunk, Break

LEMMA StoredStep ==
    ASSUME SInv, [Next]_vars, NEW d \in Conns
    PROVE  Stored(d)'
<1>. BInv /\ Stored(d) /\ TypeOK /\ Kept(d) BY DEF SInv, BInv
<1>1. ASSUME UNCHANGED <<handler, served, sent, path, file, clean, pos, content>>
      PROVE  Stored(d)'
      BY <1>1, StoredFrame
\* a step of another connection that leaves this handler alone
<1>2. ASSUME NEW c \in Conns, c # d, Connect(c) \/ ReceiveSize(c) \/ Receive(c) \/ EndChunk(c)
      PROVE  Stored(d)'
  <2>1. UNCHANGED <<sent, path, file, clean, pos, content>>
        BY <1>2 DEF Connect, ReceiveSize, Receive, EndChunk, clientVars, fileVars, fsVars
  <2>2. \E h : handler' = [handler EXCEPT ![c] = h] \/ handler' = handler
        BY <1>2 DEF Connect, ReceiveSize, Receive, EndChunk, Break, StartWrite
  <2>3. served' = served \/ served' = [served EXCEPT ![c] = served[c] + 1]
        BY <1>2 DEF Connect, ReceiveSize, Receive, EndChunk
  <2>4. handler'[d] = handler[d] /\ served'[d] = served[d] BY <1>2, <2>2, <2>3 DEF TypeOK
  <2>. QED BY <2>1, <2>4, StoredFrame
<1>3. ASSUME Connect(d) PROVE Stored(d)'
  <2>1. served'[d] = 0 /\ handler'[d] = "name"
        BY <1>3 DEF Connect, Kept, Connected, TypeOK
  <2>. QED BY <2>1 DEF Stored
<1>4. ASSUME ReceiveSize(d) PROVE Stored(d)'
  <2>1. handler[d] = "size" /\ pos'[d] = 0 BY <1>4 DEF ReceiveSize, Kept, AtUpload
  <2>2. \E h \in {"data", "closed"} : handler' = [handler EXCEPT ![d] = h]
        BY <1>4 DEF ReceiveSize, Break
  <2>3. handler'[d] # "name" BY <2>2 DEF TypeOK
  <2>. QED BY <2>1, <2>3 DEF Stored
<1>5. ASSUME Receive(d) PROVE Stored(d)'
  <2>1. UNCHANGED <<sent, path, file, clean, pos, content, served>> /\ handler[d] = "data"
        BY <1>5 DEF Receive, clientVars, fileVars, fsVars
  <2>2. handler' = handler \/ handler' = [handler EXCEPT ![d] = "write"]
        BY <1>5 DEF Receive, StartWrite
  <2>3. handler'[d] \in {"data", "write"} BY <2>1, <2>2 DEF TypeOK
  <2>. QED BY <2>1, <2>3, StoredFrame
<1>6. ASSUME NEW c \in Conns, ReceiveName(c) PROVE Stored(d)'
  <2>1. CASE c = d
    <3>1. \E h \in {"size", "closed"} : handler' = [handler EXCEPT ![d] = h]
          BY <1>6, <2>1 DEF ReceiveName, Break
    <3>2. handler'[d] \notin {"data", "write", "name"} BY <3>1 DEF TypeOK
    <3>. QED BY <3>2 DEF Stored
  <2>2. CASE c # d
    <3>1. sent' = sent /\ served' = served BY <1>6 DEF ReceiveName, clientVars
    <3>2. /\ path' = path \/ path' = [path EXCEPT ![c] = toServer[c][2]]
          /\ pos' = pos \/ pos' = [pos EXCEPT ![c] = 0]
          /\ clean' = clean \/ clean' = [clean EXCEPT ![c] = TRUE]
          /\ \E h \in {"size", "closed"} : handler' = [handler EXCEPT ![c] = h]
          BY <1>6 DEF ReceiveName, Break
    <3>5. file' = file \/ \E ok \in BOOLEAN : file' = [file EXCEPT ![c] = ok]
      <4>1. CASE UNCHANGED <<path, file, pos, clean, fsVars>> BY <4>1
      <4>2. CASE \E ok \in BOOLEAN :
                    /\ ok => opened < MaxOpen
                    /\ file' = [file EXCEPT ![c] = ok]
                    /\ IF ok
                       THEN /\ opened' = opened + 1
                            /\ content' = [content EXCEPT ![toServer[c][2]] =
                                              IF @ = NoFile THEN <<>> ELSE @]
                       ELSE UNCHANGED fsVars
            BY <4>2
      <4>. QED BY <1>6, <4>1, <4>2 DEF ReceiveName
    <3>3. /\ path'[d] = path[d] /\ file'[d] = file[d] /\ pos'[d] = pos[d]
          /\ clean'[d] = clean[d] /\ handler'[d] = handler[d]
          BY <2>2, <3>2, <3>5 DEF TypeOK
    <3>4. ASSUME file[d] PROVE content'[path[d]] = content[path[d]]
      <4>1. content[path[d]] # NoFile /\ path[d] \in Names BY <3>4, Types DEF BInv, Positions
      <4>2. CASE Arrived(c, 2) BY <1>6, <4>1, <4>2, Created
      <4>3. CASE ~Arrived(c, 2) BY <1>6, <4>3 DEF ReceiveName, fsVars
      <4>. QED BY <4>2, <4>3
    <3>. QED BY <3>1, <3>3, <3>4, StoredFrame
  <2>. QED BY <2>1, <2>2
<1>7. ASSUME NEW c \in Conns, Write(c), c # d PROVE Stored(d)'
  <2>1. UNCHANGED <<sent, served, path, file, handler>> BY <1>7 DEF Write, clientVars
  <2>2. pos'[d] = pos[d] /\ clean'[d] = clean[d] BY <1>7 DEF Write, TypeOK
  <2>3. file[d] /\ Exclusive(d, path[d]) => content'[path[d]] = content[path[d]]
        BY <1>7, OtherWrites
  <2>. QED BY <2>1, <2>2, <2>3, StoredFrame
<1>8. ASSUME NEW c \in Conns, Crash(c) PROVE Stored(d)'
  <2>1. handler'[d] \in {"none", "crashed"} BY <1>8 DEF Crash
  <2>. QED BY <2>1 DEF Stored
<1>9. ASSUME NEW u \in Uploads, SendHeader(u) PROVE Stored(d)'
  <2>1. UNCHANGED <<handler, served, path, file, clean, pos, content>>
        BY <1>9 DEF SendHeader, handlerVars, fsVars
  <2>2. \A i \in 1..Len(sent[d]) : sent'[d][i] = sent[d][i]
    <3>1. sent \in [Conns -> Seq(UploadType)] BY DEF TypeOK
    <3>2. sent' = sent \/ sent' = [sent EXCEPT ![u.conn] = Append(sent[u.conn], u)]
          BY <1>9 DEF SendHeader, Fail
    <3>3. sent'[d] = sent[d] \/ sent'[d] = Append(sent[d], u) BY <3>1, <3>2
    <3>4. sent[d] \in Seq(UploadType) /\ u \in UploadType BY <3>1, UploadFacts
    <3>5. \A i \in 1..Len(sent[d]) : Append(sent[d], u)[i] = sent[d][i]
          BY <3>4, AppendProperties
    <3>. QED BY <3>3, <3>5
  <2>. QED BY <2>1, <2>2, StoredFrame
<1>10. ASSUME NEW c \in Conns, Disconnect(c) \/ Lose(c) \/ Client(c) PROVE Stored(d)'
  <2>1. UNCHANGED <<handler, served, sent, path, file, clean, pos, content>>
        BY <1>10 DEF Disconnect, Lose, Client, SendContent, NoGo, Fail, clientVars,
                     handlerVars, fsVars
  <2>. QED BY <1>1, <2>1
<1>11. CASE UNCHANGED vars BY <1>1, <1>11 DEF vars
<1>12. ASSUME NEW c \in Conns, Connect(c) \/ Disconnect(c) \/ Lose(c) \/ Client(c) \/ Handler(c)
       PROVE  Stored(d)'
  <2>1. CASE c = d
        BY <1>3, <1>4, <1>5, <1>6, <1>8, <1>10, <1>12, <2>1, OwnWrites, ReceivedIsStored
        DEF Handler
  <2>2. CASE c # d BY <1>2, <1>6, <1>7, <1>8, <1>10, <1>12, <2>2 DEF Handler
  <2>. QED BY <2>1, <2>2
<1>. QED BY <1>9, <1>11, <1>12 DEF Next

\* Two sequences that agree as far as n have one beginning.
LEMMA SameBeginning ==
    ASSUME NEW a \in Seq(Units), NEW b \in Seq(Units), NEW n \in Nat, n <= Len(a), n <= Len(b),
           \A k \in 1..n : a[k] = b[k]
    PROVE  SubSeq(a, 1, n) = SubSeq(b, 1, n) /\ Len(SubSeq(b, 1, n)) = n
<1>1. 0 \in Nat /\ 0 + 1 = 1 /\ 0 + n = n /\ 0 + n <= Len(a) /\ 0 + n <= Len(b)
      /\ \A k \in 1..n : 0 + k = k
      OBVIOUS
<1>2. PICK s : s = SubSeq(a, 1, n) OBVIOUS
<1>3. PICK t : t = SubSeq(b, 1, n) OBVIOUS
<1>4. s \in Seq(Units) /\ Len(s) = n /\ \A k \in 1..n : s[k] = a[k] 
  <2>1. /\ SubSeq(a, 0 + 1, 0 + n) \in Seq(Units) /\ Len(SubSeq(a, 0 + 1, 0 + n)) = n
        /\ \A k \in 1..n : SubSeq(a, 0 + 1, 0 + n)[k] = a[0 + k]
        BY <1>1, Slice
  <2>. QED BY <1>1, <1>2, <2>1
<1>5. t \in Seq(Units) /\ Len(t) = n /\ \A k \in 1..n : t[k] = b[k]
  <2>1. /\ SubSeq(b, 0 + 1, 0 + n) \in Seq(Units) /\ Len(SubSeq(b, 0 + 1, 0 + n)) = n
        /\ \A k \in 1..n : SubSeq(b, 0 + 1, 0 + n)[k] = b[0 + k]
        BY <1>1, Slice
  <2>. QED BY <1>1, <1>3, <2>1
<1>6. s = t BY <1>4, <1>5, SeqEqual
<1>. QED BY <1>2, <1>3, <1>5, <1>6

LEMMA StoredImplies == SInv => StoredInOrder
<1>. SUFFICES ASSUME SInv, NEW c \in Conns, clean[c], file[c], Exclusive(c, path[c])
              PROVE  /\ handler[c] \in {"data", "write"} /\ Serving(c).loads =>
                           /\ pos[c] <= Len(Serving(c).data)
                           /\ Holds(path[c], SubSeq(Serving(c).data, 1, pos[c]))
                     /\ handler[c] = "name" /\ served[c] > 0 =>
                           Holds(sent[c][served[c]].name, sent[c][served[c]].data)
     BY DEF StoredInOrder
<1>. TypeOK /\ Positions /\ Kept(c) /\ Stored(c) BY DEF SInv, BInv
<1>1. /\ content[path[c]] # NoFile /\ pos[c] <= Len(content[path[c]])
      /\ content[path[c]] \in Seq(Units) /\ Len(content[path[c]]) \in Nat
  <2>1. content[path[c]] # NoFile /\ pos[c] <= Len(content[path[c]]) BY DEF Positions
  <2>2. content[path[c]] \in Seq(Units) BY <2>1, Types DEF TypeOK
  <2>. QED BY <2>1, <2>2
<1>2. PICK f \in Seq(Units) : f = content[path[c]] BY <1>1
<1>3. ASSUME handler[c] \in {"data", "write"}, Serving(c).loads
      PROVE  /\ pos[c] <= Len(Serving(c).data)
             /\ Holds(path[c], SubSeq(Serving(c).data, 1, pos[c]))
  <2>1. PICK dd \in Seq(Units) : dd = Serving(c).data /\ Len(dd) \in Nat
        BY <1>3, AtOwn, DataFacts
  <2>2. PICK p \in Nat, w \in Nat, r \in Nat, L \in Nat, D \in Nat :
             /\ p = pos[c] /\ w = written[c] /\ r = received[c] /\ L = left[c] /\ D = Len(dd)
        BY <2>1, Types
  <2>3. p <= D
    <3>1. CASE handler[c] = "data"
      <4>1. p = D - L BY <1>3, <2>1, <2>2, <3>1 DEF Kept, Chunks, InData
      <4>. QED BY <4>1
    <3>2. CASE handler[c] = "write"
      <4>1. \/ p = D - L - r + w /\ w <= r /\ L + r <= D
            \/ p = D - L
            \/ p <= D
            BY <1>3, <2>1, <2>2, <3>2 DEF Kept, Chunks, InWrite
      <4>. QED BY <4>1
    <3>. QED BY <1>3, <3>1, <3>2
  <2>4. \A k \in 1..p : f[k] = dd[k] BY <1>2, <1>3, <2>1, <2>2 DEF Stored
  <2>5. p <= Len(f) /\ p <= Len(dd) BY <1>1, <1>2, <2>2, <2>3
  <2>6. SubSeq(f, 1, p) = SubSeq(dd, 1, p) /\ Len(SubSeq(dd, 1, p)) = p
        BY <2>4, <2>5, SameBeginning
  <2>7. Holds(path[c], SubSeq(dd, 1, p)) BY <1>1, <1>2, <2>5, <2>6 DEF Holds
  <2>. QED BY <2>1, <2>2, <2>3, <2>7
<1>4. ASSUME handler[c] = "name", served[c] > 0
      PROVE  Holds(sent[c][served[c]].name, sent[c][served[c]].data)
  <2>1. path[c] = sent[c][served[c]].name BY <1>4 DEF Kept, AtUpload
  <2>2. served[c] \in 1..Len(sent[c])
    <3>1. served[c] \in Nat /\ Len(sent[c]) \in Nat /\ served[c] <= Len(sent[c])
          BY <1>4, Types DEF Kept, InFlow
    <3>. QED BY <1>4, <3>1
  <2>3. PICK dd \in Seq(Units) : dd = sent[c][served[c]].data /\ Len(dd) \in Nat
        BY <2>2, DataFacts DEF Kept, OwnUploads
  <2>4. Len(dd) <= Len(f) /\ \A k \in 1..Len(dd) : f[k] = dd[k] BY <1>2, <1>4, <2>3 DEF Stored
  <2>5. PICK n \in Nat : n = Len(dd) BY <2>3
  <2>6. SubSeq(f, 1, n) = SubSeq(dd, 1, n) BY <2>4, <2>5, SameBeginning
  <2>7. SubSeq(dd, 1, Len(dd)) = dd BY SubSeqFull
  <2>8. Holds(path[c], dd) BY <1>1, <1>2, <2>4, <2>5, <2>6, <2>7 DEF Holds
  <2>. QED BY <2>1, <2>3, <2>8
<1>. QED BY <1>3, <1>4

\* However the reads and the writes of the handlers are split up and interleave, and
\* wherever a connection breaks: what a file that one client alone sends to holds is, from
\* its beginning, what was sent; all of it once the binary is received.
THEOREM FilesInOrder == Spec => []StoredInOrder
<1>1. Init => SInv
  <2>1. ASSUME Init, NEW c \in Conns PROVE Stored(c) BY <2>1 DEF Init, Stored
  <2>. QED BY <2>1, BInit DEF SInv
<1>2. SInv /\ [Next]_vars => SInv'
  <2>1. SInv /\ [Next]_vars => BInv' BY BStep DEF SInv
  <2>. QED BY <2>1, StoredStep DEF SInv
<1>. QED BY <1>1, <1>2, StoredImplies, PTL DEF Spec

-----------------------------------------------------------------------------
(* What is written is content. *)

\* A write of cells to a file of cells gives a file of cells.
LEMMA WriteAtCells ==
    ASSUME NEW d \in Seq(Units), NEW p \in Nat, p <= Len(d), NEW s \in Seq(Units),
           \A k \in 1..Len(d) : d[k] \in Cells, \A k \in 1..Len(s) : s[k] \in Cells
    PROVE  \A k \in 1..Len(WriteAt(d, p, s)) : WriteAt(d, p, s)[k] \in Cells
<1>1. Len(d) \in Nat /\ Len(s) \in Nat OBVIOUS
<1>2. PICK m \in Nat : m = IF p + Len(s) > Len(d) THEN p + Len(s) ELSE Len(d) BY <1>1
<1>3. PICK w : w = [k \in 1..m |-> IF k > p /\ k <= p + Len(s) THEN s[k - p] ELSE d[k]]
      OBVIOUS
<1>4. ASSUME NEW k \in 1..m PROVE w[k] \in Cells
  <2>1. CASE k > p /\ k <= p + Len(s)
    <3>1. k - p \in 1..Len(s) BY <1>1, <2>1
    <3>. QED BY <1>3, <2>1, <3>1
  <2>2. CASE ~(k > p /\ k <= p + Len(s))
    <3>1. k \in 1..Len(d) BY <1>1, <1>2, <2>2
    <3>. QED BY <1>3, <2>2, <3>1
  <2>. QED BY <2>1, <2>2
<1>5. w \in [1..m -> Cells] BY <1>3, <1>4
<1>6. Len(w) = m
  <2>1. m \in Nat /\ w \in [1..m -> Cells] BY <1>5
  <2>2. w \in Seq(Cells) BY <2>1, SeqDef
  <2>. QED BY <2>1, <2>2
<1>7. WriteAt(d, p, s) = w BY <1>2, <1>3 DEF WriteAt
<1>. QED BY <1>4, <1>6, <1>7

\* The buffer holds content when a binary that could be loaded is received.
LEMMA BufferIsContent ==
    ASSUME TypeOK, NEW c \in Conns, Kept(c), handler[c] = "write", Serving(c).loads,
           0 < received[c], received[c] <= MaxChunk
    PROVE  \A k \in 1..Len(buf[c]) : buf[c][k] \in Cells
<1>1. PICK dd \in Seq(Cells) : dd = Serving(c).data /\ Len(dd) \in Nat
  <2>1. Serving(c) \in Uploads BY AtOwn
  <2>2. Serving(c).data \in Seq(Cells) BY <2>1, UploadFacts
  <2>. QED BY <2>2
<1>2. PICK r \in Nat, L \in Nat, D \in Nat : r = received[c] /\ L = left[c] /\ D = Len(dd)
      BY <1>1, Types
<1>3. InWrite(c, dd)
  <2>1. MaxChunk \in Nat BY Sizes
  <2>. QED BY <1>1, <1>2, <2>1 DEF Kept, Chunks
<1>4. r = Len(buf[c]) /\ L + r <= D
      /\ \A k \in 1..Len(buf[c]) : buf[c][k] = dd[D - L - r + k]
      BY <1>2, <1>3 DEF InWrite
<1>5. ASSUME NEW k \in 1..Len(buf[c]) PROVE buf[c][k] \in Cells
  <2>1. D - L - r + k \in 1..D BY <1>4
  <2>2. dd[D - L - r + k] \in Cells BY <1>2, <2>1, ElementOfSeq
  <2>. QED BY <1>4, <2>2
<1>. QED BY <1>5

\* Some client has sent a file to path p that could not be loaded.
MissingSent(p) == \E c \in Conns : \E n \in 1..Len(sent[c]) :
                      sent[c][n].name = p /\ ~sent[c][n].loads

\* What is sent stays sent.
LEMMA MissingStays ==
    ASSUME TypeOK, [Next]_vars, NEW p, MissingSent(p)
    PROVE  MissingSent(p)'
<1>1. sent \in [Conns -> Seq(UploadType)] BY DEF TypeOK
<1>2. CASE sent' = sent BY <1>2 DEF MissingSent
<1>3. ASSUME NEW u \in Uploads, SendHeader(u), sent' # sent PROVE MissingSent(p)'
  <2>1. u.conn \in Conns /\ u \in UploadType BY UploadFacts
  <2>2. sent' = [sent EXCEPT ![u.conn] = Append(sent[u.conn], u)]
        BY <1>3 DEF SendHeader, Fail
  <2>3. PICK c \in Conns : \E n \in 1..Len(sent[c]) : sent[c][n].name = p /\ ~sent[c][n].loads
        BY DEF MissingSent
  <2>4. PICK n \in 1..Len(sent[c]) : sent[c][n].name = p /\ ~sent[c][n].loads BY <2>3
  <2>5. sent'[c] = sent[c] \/ sent'[c] = Append(sent[c], u) BY <1>1, <2>1, <2>2
  <2>6. sent[c] \in Seq(UploadType) BY <1>1
  <2>7. Len(Append(sent[c], u)) = Len(sent[c]) + 1 /\ Append(sent[c], u)[n] = sent[c][n]
        BY <2>1, <2>6, AppendProperties
  <2>8. Len(sent[c]) \in Nat BY <2>6
  <2>9. n \in 1..Len(sent'[c]) /\ sent'[c][n] = sent[c][n] BY <2>5, <2>7, <2>8
  <2>. QED BY <2>4, <2>9 DEF MissingSent
<1>4. (\E u \in Uploads : SendHeader(u)) \/ sent' = sent
      BY DEF Next, Connect, Disconnect, Lose, Client, SendContent, NoGo, Fail, Handler,
             ReceiveName, ReceiveSize, Receive, Write, Crash, EndChunk, clientVars, vars
<1>. QED BY <1>2, <1>3, <1>4

\* What a step does to the content of a path: nothing, it creates an empty file, or it
\* writes what is in the buffer of a handler.
LEMMA ContentStep ==
    ASSUME BInv, [Next]_vars, NEW p \in Names, content[p] # NoFile => MissingSent(p) \/
           \A k \in 1..Len(content[p]) : content[p][k] \in Cells,
           content'[p] # NoFile
    PROVE  MissingSent(p) \/ \A k \in 1..Len(content'[p]) : content'[p][k] \in Cells
<1>. TypeOK /\ FileSystem /\ Positions BY DEF BInv
<1>1. CASE content'[p] = content[p] BY <1>1
<1>2. ASSUME NEW c \in Conns, ReceiveName(c), content'[p] # content[p]
      PROVE  \A k \in 1..Len(content'[p]) : content'[p][k] \in Cells
  <2>. Kept(c) BY DEF BInv
  <2>1. Arrived(c, 2) BY <1>2 DEF ReceiveName, fsVars
  <2>2. PICK ok \in BOOLEAN :
           /\ ok => content' = [content EXCEPT ![toServer[c][2]] =
                                   IF content[toServer[c][2]] = NoFile THEN <<>>
                                   ELSE content[toServer[c][2]]]
           /\ ~ok => content' = content
        BY <1>2, <2>1, NameReceived DEF fsVars
  <2>3. content[p] = NoFile BY <1>2, <2>1, Created
  <2>4. content'[p] = <<>> BY <1>2, <2>2, <2>3 DEF FileSystem
  <2>. QED BY <2>4
<1>3. ASSUME NEW c \in Conns, Write(c), content'[p] # content[p]
      PROVE  MissingSent(p) \/ \A k \in 1..Len(content'[p]) : content'[p][k] \in Cells
  <2>. Kept(c) BY DEF BInv
  <2>1. handler[c] = "write" BY <1>3 DEF Write
  <2>2. PICK n \in 1..(received[c] - written[c]) :
           /\ file[c] /\ received[c] <= MaxChunk
           /\ content' = [content EXCEPT ![path[c]] =
                  WriteAt(@, pos[c], SubSeq(buf[c], written[c] + 1, written[c] + n))]
        BY <1>3 DEF Write
  <2>3. p = path[c] BY <1>3, <2>1, <2>2, Written
  <2>4. Serving(c).name = p /\ served[c] + 1 \in 1..Len(sent[c]) BY <2>1, <2>3, AtOwn
  <2>5. CASE ~Serving(c).loads BY <2>4, <2>5 DEF MissingSent, Serving
  <2>6. CASE Serving(c).loads /\ ~MissingSent(p)
    <3>1. /\ received[c] \in Nat /\ written[c] \in Nat /\ pos[c] \in Nat
          /\ buf[c] \in Seq(Units) /\ Len(buf[c]) \in Nat /\ MaxChunk \in Nat
          BY Types, Sizes
    <3>2. 0 < received[c] /\ n \in Nat BY <2>2, <3>1
    <3>3. \A k \in 1..Len(buf[c]) : buf[c][k] \in Cells
          BY <2>1, <2>2, <2>6, <3>2, BufferIsContent
    <3>4. received[c] = Len(buf[c]) BY <2>1, <2>2, <3>2 DEF Kept, Buffered
    <3>5. written[c] + n <= Len(buf[c]) BY <2>2, <3>1, <3>4
    <3>. DEFINE s == SubSeq(buf[c], written[c] + 1, written[c] + n)
    <3>6. s \in Seq(Units) /\ Len(s) = n /\ \A k \in 1..n : s[k] = buf[c][written[c] + k]
          BY <3>1, <3>2, <3>5, Slice
    <3>7. content'[p] = WriteAt(content[p], pos[c], s) BY <2>2, <2>3 DEF FileSystem
    <3>. HIDE DEF s
    <3>8. \A k \in 1..Len(s) : s[k] \in Cells
      <4>1. ASSUME NEW k \in 1..n PROVE s[k] \in Cells
        <5>1. written[c] + k \in 1..Len(buf[c]) BY <3>1, <3>2, <3>5
        <5>. QED BY <3>3, <3>6, <5>1
      <4>. QED BY <3>6, <4>1
    <3>9. content[p] # NoFile /\ content[p] \in Seq(Units) /\ pos[c] <= Len(content[p])
      <4>1. content[p] # NoFile /\ pos[c] <= Len(content[p]) BY <2>2, <2>3 DEF Positions
      <4>. QED BY <4>1 DEF TypeOK
    <3>10. \A k \in 1..Len(content[p]) : content[p][k] \in Cells BY <2>6, <3>9
    <3>. QED BY <3>1, <3>6, <3>7, <3>8, <3>9, <3>10, WriteAtCells
  <2>. QED BY <2>5, <2>6
<1>4. (\E c \in Conns : ReceiveName(c) \/ Write(c)) \/ content' = content
      BY DEF Next, Connect, Disconnect, Lose, Client, SendContent, NoGo, Fail, Handler,
             SendHeader, ReceiveSize, Receive, Crash, EndChunk, clientVars, handlerVars,
             fsVars, vars
<1>. QED BY <1>1, <1>2, <1>3, <1>4

\* No part of a header gets into a file, whatever is lost and however the handlers share
\* their files, but by a file that could not be loaded: and then only into that file.
THEOREM HeadersKeptOut == Spec => []OnlyContentStored
<1>. DEFINE Inv == BInv /\ OnlyContentStored
<1>1. Init => Inv
  <2>1. Init => OnlyContentStored BY DEF Init, OnlyContentStored
  <2>. QED BY <2>1, BInit
<1>2. Inv /\ [Next]_vars => Inv'
  <2>1. SUFFICES ASSUME BInv, OnlyContentStored, [Next]_vars, NEW p \in Names,
                        content'[p] # NoFile
                 PROVE  \/ \A k \in 1..Len(content'[p]) : content'[p][k] \in Cells
                        \/ MissingSent(p)'
        BY BStep DEF OnlyContentStored, MissingSent
  <2>2. content[p] # NoFile => \/ MissingSent(p)
                               \/ \A k \in 1..Len(content[p]) : content[p][k] \in Cells
        BY <2>1 DEF OnlyContentStored, MissingSent
  <2>3. MissingSent(p) \/ \A k \in 1..Len(content'[p]) : content'[p][k] \in Cells
        BY <2>1, <2>2, ContentStep
  <2>4. TypeOK BY <2>1 DEF BInv
  <2>. QED BY <2>1, <2>3, <2>4, MissingStays
<1>3. Inv => OnlyContentStored OBVIOUS
<1>. QED BY <1>1, <1>2, <1>3, PTL DEF Spec
=============================================================================
