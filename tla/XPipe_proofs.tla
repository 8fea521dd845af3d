---------------------------- MODULE XPipe_proofs ----------------------------
(***************************************************************************)
(* What XPipe keeps, for any clients that obey the three rules, and for    *)
(* buffers, pipes and requests of any length.                              *)
(*                                                                         *)
(* Everything is said of a record x that has the form of pipe, because the *)
(* functions of pipe.c call each other: each has a lemma.                  *)
(***************************************************************************)
EXTENDS XPipe, SequenceTheorems, FiniteSetTheorems, WellFoundedInduction, TLAPS

-----------------------------------------------------------------------------
(* The inductive invariant                                                 *)

\* The counts fit each other, and a flag says what poll has seen.
CountInv(x) ==
    /\ x \in Xfilepipe
    /\ x.taken <= Len(x.stream) /\ Fill(x) <= Cap
    /\ x.direction = "Write" => Len(x.buf) < Count
    /\ "Readable" \in x.flags => x.direction = "Read" /\ Fill(x) > 0
    /\ "Error" \in x.flags => ~x.peer

\* The queue holds the requests that wait, each once.
QueueInv(x) ==
    /\ {id \in Ids : Waiting(x, id)} = QueuedIds(x)
    /\ \A i, j \in DOMAIN x.reqs : x.reqs[i].id = x.reqs[j].id => i = j
    /\ \A i \in DOMAIN x.reqs : x.reply[x.reqs[i].id].fid = x.reqs[i].fid

\* The rules of the clients: behind a read that waits its fid has sent none, and the
\* writes that wait are of one fid.
ClientInv(x) ==
    \A i, j \in Ids : Waiting(x, i) =>
        /\ (x.direction = "Read" /\ i < j /\ x.reply[j].type # "unsent")
               => x.reply[i].fid # x.reply[j].fid
        /\ (x.direction = "Write" /\ Waiting(x, j)) => x.reply[i].fid = x.reply[j].fid

\* What has left the buffer.
Handed(x) == x.taken - Len(x.buf)

\* The process writes its bytes in order, and the buffer has the last ones taken.
StreamInv(x) ==
    x.direction = "Read" =>
        /\ \A i \in 1..Len(x.stream) : x.stream[i] = <<0, i>>
        /\ Len(x.buf) <= x.taken
        /\ \A i \in 1..Len(x.buf) : x.buf[i] = <<0, Handed(x) + i>>

\* What has left the buffer, and nothing else, was sent, to each fid in order.
DataInv(x) ==
    x.direction = "Read" =>
        /\ \A id \in Ids : x.reply[id].data # <<>> => x.reply[id].type = "Rread"
        /\ \A id \in Ids : (x.reply[id].type = "Rread" /\ x.reply[id].data = <<>>)
                               => ~x.peer /\ Fill(x) = 0
        /\ \A id \in Ids : \A k \in 1..Len(x.reply[id].data) :
               x.reply[id].data[k][2] <= Handed(x)
        /\ \A i \in 1..Handed(x) : \E id \in Ids : \E k \in 1..Len(x.reply[id].data) :
               x.reply[id].data[k] = <<0, i>>
        /\ \A i, j \in Ids : (i < j /\ x.reply[i].fid = x.reply[j].fid) =>
               \A k \in 1..Len(x.reply[i].data), l \in 1..Len(x.reply[j].data) :
                   x.reply[i].data[k][2] < x.reply[j].data[l][2]

\* What the functions of pipe.c rely on, and keep.
PipeInv(x) ==
    /\ CountInv(x)
    /\ QueueInv(x)
    /\ ClientInv(x)
    /\ StreamInv(x)
    /\ DataInv(x)

\* A descriptor that is out of the poll table: nothing waits, and all was read.
ClosedInv(x) ==
    /\ \A id \in Ids : ~Waiting(x, id)
    /\ x.direction = "Read" => /\ x.reqs = <<>> \/ x.buf = <<>>
                               /\ ~x.peer /\ Fill(x) = 0

\* Between two steps
StableInv(x) ==
    /\ CountInv(x)
    /\ ClientInv(x)
    /\ StreamInv(x)
    /\ DataInv(x)
    /\ x.lspfd => QueueInv(x) /\ "Error" \notin x.flags
    /\ ~x.lspfd => ClosedInv(x)

IInv == StableInv(pipe)

-----------------------------------------------------------------------------
(* Numbers and sequences                                                   *)

\* The bounds, as numbers.
LEMMA Bounds ==
    /\ Count \in Nat \ {0} /\ BufSize \in Nat \ {0} /\ Cap \in Nat \ {0}
    /\ MaxReqs \in Nat \ {0} /\ MaxBytes \in Nat \ {0}
    /\ Readers \subseteq Nat \ {0} /\ Writers \subseteq Nat \ {0}
BY XPipeAssumption

\* The number of a byte
LEMMA ByteNumber ==
    ASSUME NEW b \in Bytes
    PROVE  b[2] \in Nat
<1>1. CASE b \in {0} \X (0..MaxBytes)
  <2>1. PICK i \in {0}, j \in 0..MaxBytes : b = <<i, j>>
    BY <1>1
  <2> QED BY <2>1, Bounds
<1>2. CASE b \in Ids \X (1..Count)
  <2>1. PICK i \in Ids, j \in 1..Count : b = <<i, j>>
    BY <1>2
  <2> QED BY <2>1, Bounds
<1> QED BY <1>1, <1>2 DEF Bytes

\* The lesser of two numbers
LEMMA MinOfTwo ==
    ASSUME NEW a \in Int, NEW b \in Int
    PROVE  Min({a, b}) = IF a <= b THEN a ELSE b
<1> DEFINE m == IF a <= b THEN a ELSE b
<1>1. m \in {a, b} /\ \A y \in {a, b} : m <= y
  OBVIOUS
<1>2. ASSUME NEW n \in {a, b}, \A y \in {a, b} : n <= y
      PROVE  n = m
  BY <1>2
<1> QED BY <1>1, <1>2 DEF Min

\* The least member of a set of one
LEMMA MinOfOne ==
    ASSUME NEW a \in Int
    PROVE  Min({a}) = a
BY DEF Min

\* A set of numbers has a least member, the one Min chooses.
LEMMA MinMember ==
    ASSUME NEW S \in SUBSET Nat, S # {}
    PROVE  Min(S) \in S /\ \A y \in S : Min(S) <= y
<1>1. PICK m \in S : \A y \in S : ~(<<y, m>> \in OpToRel(<, Nat))
  <2>1. \E m \in S : \A y \in S : ~(<<y, m>> \in OpToRel(<, Nat))
    BY NatLessThanWellFounded, WFMin, Zenon
  <2> QED BY <2>1, Zenon
<1>2. ASSUME NEW y \in S
      PROVE  m <= y
  <2>1. ~(<<y, m>> \in {p \in Nat \X Nat : p[1] < p[2]})
    BY <1>1 DEF OpToRel
  <2> QED BY <2>1
<1>3. \E z \in S : \A y \in S : z <= y
  BY <1>2
<1> QED BY <1>3 DEF Min

\* A part of a sequence
LEMMA Part ==
    ASSUME NEW S, NEW s \in Seq(S), NEW m \in Int, NEW n \in Int,
           1 <= m, n <= Len(s)
    PROVE  /\ SubSeq(s, m, n) \in Seq(S)
           /\ Len(SubSeq(s, m, n)) = IF m <= n THEN n - m + 1 ELSE 0
           /\ \A i \in 1..(n - m + 1) : SubSeq(s, m, n)[i] = s[m + i - 1]
<1>1. \A i \in m..n : s[i] \in S
  BY ElementOfSeq, LenProperties
<1> QED BY <1>1, SubSeqProperties

\* What InsertAt does
LEMMA Inserted ==
    ASSUME NEW s \in Seq(Xpipereq), NEW e \in Xpipereq, NEW k \in 1..(Len(s) + 1)
    PROVE  /\ InsertAt(s, k, e) \in Seq(Xpipereq)
           /\ Len(InsertAt(s, k, e)) = Len(s) + 1
           /\ \A i \in 1..(Len(s) + 1) :
                  InsertAt(s, k, e)[i] = IF i < k THEN s[i]
                                         ELSE IF i = k THEN e ELSE s[i - 1]
<1> DEFINE a == SubSeq(s, 1, k - 1)
           b == SubSeq(s, k, Len(s))
<1>1. Len(s) \in Nat
  BY LenProperties
<1>2. /\ a \in Seq(Xpipereq) /\ Len(a) = k - 1
      /\ \A i \in 1..(k - 1) : a[i] = s[i]
  <2>1. 1 \in Int /\ k - 1 \in Int /\ 1 <= 1 /\ k - 1 <= Len(s)
    BY <1>1
  <2>2. /\ a \in Seq(Xpipereq)
        /\ Len(a) = IF 1 <= k - 1 THEN k - 1 - 1 + 1 ELSE 0
        /\ \A i \in 1..(k - 1 - 1 + 1) : a[i] = s[1 + i - 1]
    BY <2>1, Part
  <2> QED BY <2>2, <1>1
<1>3. /\ b \in Seq(Xpipereq) /\ Len(b) = Len(s) - k + 1
      /\ \A i \in 1..(Len(s) - k + 1) : b[i] = s[k + i - 1]
  BY <1>1, Part
<1>4. /\ <<e>> \in Seq(Xpipereq) /\ Len(<<e>>) = 1 /\ <<e>>[1] = e
  OBVIOUS
<1> HIDE DEF a, b
<1>5. /\ a \o <<e>> \in Seq(Xpipereq)
      /\ Len(a \o <<e>>) = k
      /\ \A i \in 1..k : (a \o <<e>>)[i] = IF i <= k - 1 THEN a[i] ELSE <<e>>[i - (k - 1)]
  BY <1>1, <1>2, <1>4, ConcatProperties
<1> DEFINE c == a \o <<e>>
<1>6. InsertAt(s, k, e) = c \o b
  BY DEF InsertAt, a, b
<1>7. /\ c \in Seq(Xpipereq) /\ Len(c) = k
      /\ \A i \in 1..k : c[i] = IF i < k THEN s[i] ELSE e
  <2>1. c \in Seq(Xpipereq) /\ Len(c) = k
    BY <1>5
  <2>2. \A i \in 1..k : c[i] = IF i <= k - 1 THEN a[i] ELSE <<e>>[i - (k - 1)]
    BY <1>5
  <2> HIDE DEF c
  <2>3. ASSUME NEW i \in 1..k
        PROVE  c[i] = IF i < k THEN s[i] ELSE e
    <3>1. CASE i < k
      <4>1. i \in 1..(k - 1) /\ i <= k - 1
        BY <1>1, <3>1
      <4> QED BY <1>2, <2>2, <3>1, <4>1
    <3>2. CASE ~(i < k)
      <4>1. i = k /\ ~(i <= k - 1) /\ i - (k - 1) = 1
        BY <1>1, <3>2
      <4>2. <<e>>[1] = e
        OBVIOUS
      <4> QED BY <2>2, <3>2, <4>1, <4>2
    <3> QED BY <3>1, <3>2
  <2> QED BY <2>1, <2>3
<1> HIDE DEF c
<1>8. /\ c \o b \in Seq(Xpipereq)
      /\ Len(c \o b) = Len(c) + Len(b)
      /\ \A i \in 1..(Len(c) + Len(b)) : (c \o b)[i] = IF i <= Len(c) THEN c[i] ELSE b[i - Len(c)]
  BY <1>3, <1>7, ConcatProperties
<1>9. \A i \in (k + 1)..(Len(s) + 1) : b[i - k] = s[i - 1]
  BY <1>1, <1>3
<1> QED BY <1>1, <1>3, <1>6, <1>7, <1>8, <1>9

\* What RemoveAt does
LEMMA Removed ==
    ASSUME NEW S, NEW s \in Seq(S), NEW k \in 1..Len(s)
    PROVE  /\ RemoveAt(s, k) \in Seq(S)
           /\ Len(RemoveAt(s, k)) = Len(s) - 1
           /\ \A i \in 1..(Len(s) - 1) :
                  RemoveAt(s, k)[i] = IF i < k THEN s[i] ELSE s[i + 1]
<1> DEFINE a == SubSeq(s, 1, k - 1)
           b == SubSeq(s, k + 1, Len(s))
<1>1. Len(s) \in Nat
  BY LenProperties
<1>2. /\ a \in Seq(S) /\ Len(a) = k - 1
      /\ \A i \in 1..(k - 1) : a[i] = s[i]
  <2>1. 1 \in Int /\ k - 1 \in Int /\ 1 <= 1 /\ k - 1 <= Len(s)
    BY <1>1
  <2>2. /\ a \in Seq(S)
        /\ Len(a) = IF 1 <= k - 1 THEN k - 1 - 1 + 1 ELSE 0
        /\ \A i \in 1..(k - 1 - 1 + 1) : a[i] = s[1 + i - 1]
    BY <2>1, Part
  <2> QED BY <2>2, <1>1
<1>3. /\ b \in Seq(S) /\ Len(b) = Len(s) - k
      /\ \A i \in 1..(Len(s) - k) : b[i] = s[k + i]
  <2>1. k + 1 \in Int /\ Len(s) \in Int /\ 1 <= k + 1 /\ Len(s) <= Len(s)
    BY <1>1
  <2>2. /\ b \in Seq(S)
        /\ Len(b) = IF k + 1 <= Len(s) THEN Len(s) - (k + 1) + 1 ELSE 0
        /\ \A i \in 1..(Len(s) - (k + 1) + 1) : b[i] = s[(k + 1) + i - 1]
    BY <2>1, Part
  <2> QED BY <2>2, <1>1
<1> HIDE DEF a, b
<1>4. /\ a \o b \in Seq(S)
      /\ Len(a \o b) = Len(s) - 1
      /\ \A i \in 1..(Len(s) - 1) : (a \o b)[i] = IF i <= k - 1 THEN a[i] ELSE b[i - (k - 1)]
  BY <1>1, <1>2, <1>3, ConcatProperties
<1>5. RemoveAt(s, k) = a \o b
  BY DEF RemoveAt, a, b
<1>6. \A i \in k..(Len(s) - 1) : b[i - (k - 1)] = s[i + 1]
  BY <1>1, <1>3
<1> QED BY <1>1, <1>2, <1>4, <1>5, <1>6

-----------------------------------------------------------------------------
(* pip_read_buf                                                            *)

\* The fields of a pipe
LEMMA Fields ==
    ASSUME NEW x \in Xfilepipe
    PROVE  /\ x.direction \in {"Read", "Write"} /\ x.lspfd \in BOOLEAN /\ x.peer \in BOOLEAN
           /\ x.flags \subseteq {"Readable", "Writable", "Error"}
           /\ x.buf \in Seq(Bytes) /\ Len(x.buf) \in Nat /\ DOMAIN x.buf = 1..Len(x.buf)
           /\ x.stream \in Seq(Bytes) /\ Len(x.stream) \in Nat
           /\ x.taken \in Nat /\ Fill(x) \in Int
           /\ x.reqs \in Seq(Xpipereq) /\ Len(x.reqs) \in Nat
           /\ DOMAIN x.reqs = 1..Len(x.reqs)
           /\ \A i \in DOMAIN x.reqs :
                  x.reqs[i].id \in Ids /\ x.reqs[i].fid \in Readers \cup Writers
           /\ x.reply \in [Ids -> Replies]
           /\ \A id \in Ids : /\ x.reply[id] \in Replies
                              /\ x.reply[id].data \in Seq(Bytes)
                              /\ Len(x.reply[id].data) \in Nat
<1>1. /\ x.direction \in {"Read", "Write"} /\ x.lspfd \in BOOLEAN /\ x.peer \in BOOLEAN
      /\ x.flags \in SUBSET {"Readable", "Writable", "Error"}
      /\ x.buf \in Seq(Bytes) /\ x.stream \in Seq(Bytes) /\ x.taken \in Nat
      /\ x.reqs \in Seq(Xpipereq) /\ x.reply \in [Ids -> Replies]
  BY DEF Xfilepipe
<1>2. \A i \in DOMAIN x.reqs : x.reqs[i] \in Xpipereq
  BY <1>1
<1>3. ASSUME NEW i \in DOMAIN x.reqs
      PROVE  x.reqs[i].id \in Ids /\ x.reqs[i].fid \in Readers \cup Writers
  BY <1>2 DEF Xpipereq
<1>4. ASSUME NEW id \in Ids
      PROVE  /\ x.reply[id] \in Replies
             /\ x.reply[id].data \in Seq(Bytes)
             /\ Len(x.reply[id].data) \in Nat
  BY <1>1 DEF Replies
<1>5. Len(x.stream) \in Nat /\ Len(x.buf) \in Nat /\ Len(x.reqs) \in Nat
  BY <1>1
<1>6. DOMAIN x.buf = 1..Len(x.buf) /\ DOMAIN x.reqs = 1..Len(x.reqs)
  BY <1>1
<1> QED BY <1>1, <1>3, <1>4, <1>5, <1>6 DEF Fill

\* The queue by its places
LEMMA QueuedAt ==
    ASSUME NEW x
    PROVE  QueuedIds(x) = {x.reqs[i].id : i \in DOMAIN x.reqs}
BY DEF QueuedIds, ToSet

\* A number of reads reaches some place in the buffer.
LEMMA ReachedRange ==
    ASSUME NEW x \in Xfilepipe, NEW k \in Nat
    PROVE  /\ Reached(x, k) \in 0..Len(x.buf)
           /\ Reached(x, 0) = 0
           /\ Reached(x, 1) = IF Len(x.buf) <= Count THEN Len(x.buf) ELSE Count
<1>1. Len(x.buf) \in Nat /\ Count \in Nat
  BY Fields, Bounds
<1>2. k * Count \in Nat
  BY <1>1
<1>3. Reached(x, k) = IF Len(x.buf) <= k * Count THEN Len(x.buf) ELSE k * Count
  BY <1>1, <1>2, MinOfTwo DEF Reached
<1>4. Reached(x, 0) = IF Len(x.buf) <= 0 THEN Len(x.buf) ELSE 0
  <2>1. 0 * Count = 0
    BY <1>1
  <2> QED BY <1>1, <2>1, MinOfTwo DEF Reached
<1>5. Reached(x, 1) = IF Len(x.buf) <= Count THEN Len(x.buf) ELSE Count
  <2>1. 1 * Count = Count
    BY <1>1
  <2> QED BY <1>1, <2>1, MinOfTwo DEF Reached
<1> QED BY <1>1, <1>2, <1>3, <1>4, <1>5

\* The number of reads is a number; a read of the queue counts itself.
LEMMA ReadsOfNat ==
    ASSUME NEW x, NEW f, NEW n \in Nat
    PROVE  /\ ReadsOf(x, f, n) \in Nat
           /\ n > 0 /\ x.reqs[n].fid = f => ReadsOf(x, f, n) > 0
<1> DEFINE S == {i \in 1..n : x.reqs[i].fid = f}
<1>1. IsFiniteSet(S)
  BY FS_Interval, FS_Subset, 1 \in Int, n \in Int
<1>2. Cardinality(S) \in Nat /\ (Cardinality(S) = 0 <=> S = {})
  BY <1>1, FS_CardinalityType, FS_EmptySet
<1>3. n > 0 /\ x.reqs[n].fid = f => n \in S
  OBVIOUS
<1> QED BY <1>2, <1>3 DEF ReadsOf

\* The form of what pip_read_buf does
ReadBuf(x, data, d) ==
    [x EXCEPT !.reply = [id \in Ids |-> IF id \in QueuedIds(x)
                                        THEN Rread(x.reply[id], data[id]) ELSE x.reply[id]],
              !.buf = SubSeq(x.buf, d + 1, Len(x.buf)),
              !.reqs = <<>>]

\* pip_read_buf answers the whole queue with parts of the buffer, of which it drops a part.
LEMMA ReadBufTypes ==
    ASSUME NEW x, x \in Xfilepipe, QueueInv(x), x.reqs # <<>>
    PROVE  \E data \in [Ids -> Seq(Bytes)] : \E d \in 0..Len(x.buf) :
               pip_read_buf(x) = ReadBuf(x, data, d)
<1> DEFINE K(i) == ReadsOf(x, x.reqs[i].fid, i)
           Data(i) == SubSeq(x.buf, Reached(x, K(i) - 1) + 1, Reached(x, K(i)))
           At(id) == CHOOSE j \in DOMAIN x.reqs : x.reqs[j].id = id
           data == [id \in Ids |-> IF id \in QueuedIds(x) THEN Data(At(id)) ELSE <<>>]
<1>1. ASSUME NEW i \in DOMAIN x.reqs
      PROVE  Data(i) \in Seq(Bytes)
  <2>1. i \in Nat /\ i > 0 /\ K(i) \in Nat /\ K(i) > 0
    BY <1>1, Fields, ReadsOfNat
  <2>2. K(i) - 1 \in Nat
    BY <2>1
  <2>3. Reached(x, K(i) - 1) \in 0..Len(x.buf) /\ Reached(x, K(i)) \in 0..Len(x.buf)
    BY <2>1, <2>2, ReachedRange
  <2> HIDE DEF K
  <2>4. /\ x.buf \in Seq(Bytes) /\ Len(x.buf) \in Nat
        /\ Reached(x, K(i) - 1) + 1 \in Int /\ Reached(x, K(i)) \in Int
        /\ 1 <= Reached(x, K(i) - 1) + 1 /\ Reached(x, K(i)) <= Len(x.buf)
    BY <2>3, Fields
  <2> QED BY <2>4, Part
<1>2. ASSUME NEW id \in QueuedIds(x)
      PROVE  At(id) \in DOMAIN x.reqs
  BY <1>2, QueuedAt
<1>3. data \in [Ids -> Seq(Bytes)]
  <2> HIDE DEF Data, At
  <2> QED BY <1>1, <1>2
<1>4. Dropped(x) \in 0..Len(x.buf)
  <2>1. ReachedByFids(x) \subseteq 0..Len(x.buf)
    <3>1. ASSUME NEW i \in DOMAIN x.reqs
          PROVE  ReadsOf(x, x.reqs[i].fid, Len(x.reqs)) \in Nat
      <4>1. Len(x.reqs) \in Nat
        BY Fields
      <4> QED BY <4>1, ReadsOfNat, Zenon
    <3> QED BY <3>1, ReachedRange DEF ReachedByFids
  <2>2. ReachedByFids(x) # {}
    BY Fields, EmptySeq DEF ReachedByFids
  <2>3. Min(ReachedByFids(x)) \in ReachedByFids(x)
    BY <2>1, <2>2, MinMember
  <2> QED BY <2>1, <2>3 DEF Dropped
<1> QED
  <2>1. pip_read_buf(x) = ReadBuf(x, data, Dropped(x))
    <3> DEFINE answers == [id \in Ids |-> IF id \in QueuedIds(x)
                                          THEN Rread(x.reply[id], Data(At(id)))
                                          ELSE x.reply[id]]
    <3>1. pip_read_buf(x) = [x EXCEPT !.reply = answers,
                                      !.buf = SubSeq(x.buf, Dropped(x) + 1, Len(x.buf)),
                                      !.reqs = <<>>]
      BY Zenon DEF pip_read_buf
    <3>2. answers = [id \in Ids |-> IF id \in QueuedIds(x)
                                    THEN Rread(x.reply[id], data[id]) ELSE x.reply[id]]
      <4> HIDE DEF Data, At
      <4> QED OBVIOUS
    <3> HIDE DEF answers, data
    <3> QED BY <3>1, <3>2 DEF ReadBuf
  <2> QED BY <1>3, <1>4, <2>1

\* What one read gets of the buffer.
Share(x) == IF Len(x.buf) <= Count THEN Len(x.buf) ELSE Count

\* The reads of the queue are of different fids: each gets the buffer from its start,
\* and what all of them got is dropped.
LEMMA ReadBufData ==
    ASSUME NEW x, x \in Xfilepipe, QueueInv(x), ClientInv(x), x.direction = "Read",
           x.reqs # <<>>
    PROVE  pip_read_buf(x)
               = ReadBuf(x, [id \in Ids |-> SubSeq(x.buf, 1, Share(x))], Share(x))
<1> DEFINE K(i) == ReadsOf(x, x.reqs[i].fid, i)
           Data(i) == SubSeq(x.buf, Reached(x, K(i) - 1) + 1, Reached(x, K(i)))
           At(id) == CHOOSE j \in DOMAIN x.reqs : x.reqs[j].id = id
           answers == [id \in Ids |-> IF id \in QueuedIds(x)
                                      THEN Rread(x.reply[id], Data(At(id))) ELSE x.reply[id]]
<1>1. ASSUME NEW i \in DOMAIN x.reqs, NEW j \in DOMAIN x.reqs, x.reqs[i].fid = x.reqs[j].fid
      PROVE  i = j
  <2>1. x.reqs[i].id \in Ids /\ x.reqs[j].id \in Ids
    BY Fields
  <2>2. Waiting(x, x.reqs[i].id) /\ Waiting(x, x.reqs[j].id)
    BY <2>1, QueuedAt DEF QueueInv
  <2>3. x.reply[x.reqs[i].id].fid = x.reply[x.reqs[j].id].fid
    BY <1>1 DEF QueueInv
  <2>4. /\ x.reply[x.reqs[i].id].type # "unsent" /\ x.reply[x.reqs[j].id].type # "unsent"
    BY <2>2 DEF Waiting
  <2>5. ~(x.reqs[i].id < x.reqs[j].id) /\ ~(x.reqs[j].id < x.reqs[i].id)
    BY <2>1, <2>2, <2>3, <2>4 DEF ClientInv
  <2>6. x.reqs[i].id = x.reqs[j].id
    BY <2>1, <2>5, Bounds DEF Ids
  <2> QED BY <2>6 DEF QueueInv
<1>2. ASSUME NEW i \in DOMAIN x.reqs, NEW n \in Nat, i <= n, n <= Len(x.reqs)
      PROVE  ReadsOf(x, x.reqs[i].fid, n) = 1
  <2>1. DOMAIN x.reqs = 1..Len(x.reqs) /\ Len(x.reqs) \in Nat
    BY Fields
  <2>2. {j \in 1..n : x.reqs[j].fid = x.reqs[i].fid} = {i}
    BY <1>1, <1>2, <2>1
  <2> QED BY <2>2, FS_Singleton DEF ReadsOf
<1>3. /\ Reached(x, 0) = 0 /\ Reached(x, 1) = Share(x) /\ Share(x) \in 0..Len(x.buf)
  <2>1. /\ Reached(x, 0) = 0
        /\ Reached(x, 1) = IF Len(x.buf) <= Count THEN Len(x.buf) ELSE Count
        /\ Reached(x, 1) \in 0..Len(x.buf)
    BY ReachedRange, 1 \in Nat, Zenon
  <2> QED BY <2>1 DEF Share
<1>4. ASSUME NEW i \in DOMAIN x.reqs
      PROVE  Data(i) = SubSeq(x.buf, 1, Share(x))
  <2>1. K(i) = 1
    <3>1. i \in Nat /\ i <= i /\ i <= Len(x.reqs)
      BY Fields
    <3> QED BY <1>2, <3>1
  <2>2. K(i) - 1 = 0
    BY <2>1
  <2> HIDE DEF K
  <2>3. Reached(x, K(i) - 1) + 1 = 1
    BY <1>3, <2>2
  <2> QED BY <1>3, <2>1, <2>3
<1>5. Dropped(x) = Share(x)
  <2>1. \A i \in DOMAIN x.reqs : ReadsOf(x, x.reqs[i].fid, Len(x.reqs)) = 1
    <3>1. Len(x.reqs) \in Nat /\ DOMAIN x.reqs = 1..Len(x.reqs)
      BY Fields
    <3> QED BY <1>2, <3>1
  <2>2. 1 \in DOMAIN x.reqs
    BY Fields, EmptySeq
  <2>3. ReachedByFids(x) = {Share(x)}
    BY <1>3, <2>1, <2>2 DEF ReachedByFids
  <2>4. Share(x) \in Int
    BY <1>3, Fields
  <2> QED BY <2>3, <2>4, MinOfOne DEF Dropped
<1>6. pip_read_buf(x) = [x EXCEPT !.reply = answers,
                                  !.buf = SubSeq(x.buf, Dropped(x) + 1, Len(x.buf)),
                                  !.reqs = <<>>]
  BY Zenon DEF pip_read_buf
<1>7. ASSUME NEW id \in QueuedIds(x)
      PROVE  At(id) \in DOMAIN x.reqs
  BY <1>7, QueuedAt
<1> DEFINE data == [id \in Ids |-> SubSeq(x.buf, 1, Share(x))]
<1>8. answers = [id \in Ids |-> IF id \in QueuedIds(x)
                                THEN Rread(x.reply[id], data[id]) ELSE x.reply[id]]
  <2> HIDE DEF Data, At
  <2> QED BY <1>4, <1>7
<1> HIDE DEF answers, data
<1>9. pip_read_buf(x) = ReadBuf(x, data, Share(x))
  BY <1>5, <1>6, <1>8 DEF ReadBuf
<1> QED BY <1>9 DEF data

\* The reads that wait are answered together, and with the same data, or none is.
Together(x, y) ==
    x.direction = "Read" =>
        \/ y.reply = x.reply
        \/ \E data : y.reply = [id \in Ids |-> IF Waiting(x, id)
                                               THEN Rread(x.reply[id], data) ELSE x.reply[id]]

\* One function after another
LEMMA TogetherAgain ==
    ASSUME NEW x, NEW y, NEW z, x \in Xfilepipe, y.direction = x.direction,
           Together(x, y), Together(y, z)
    PROVE  Together(x, z)
<1> SUFFICES ASSUME x.direction = "Read" PROVE Together(x, z)
  BY DEF Together
<1>1. CASE y.reply = x.reply
  <2>1. \A id : Waiting(x, id) <=> Waiting(y, id)
    BY <1>1 DEF Waiting
  <2> QED BY <1>1, <2>1 DEF Together
<1>2. CASE y.reply # x.reply
  <2>1. PICK data : y.reply = [id \in Ids |-> IF Waiting(x, id)
                                              THEN Rread(x.reply[id], data) ELSE x.reply[id]]
    BY <1>2 DEF Together
  <2>2. ASSUME NEW id \in Ids
        PROVE  ~Waiting(y, id)
    <3>1. x.reply[id] \in Replies
      BY Fields
    <3> QED BY <2>1, <3>1 DEF Waiting, Rread, Replies
  <2>3. y.reply = [id \in Ids |-> y.reply[id]]
    BY <2>1
  <2>4. z.reply = y.reply
    BY <2>2, <2>3 DEF Together
  <2> QED BY <2>1, <2>4 DEF Together
<1> QED BY <1>1, <1>2

\* What is sent and what is left, when reads are answered: DataInv and StreamInv.
LEMMA ReadBufDelivers ==
    ASSUME NEW x, PipeInv(x), x.direction = "Read", x.reqs # <<>>,
           x.buf # <<>> \/ (~x.peer /\ Fill(x) = 0)
    PROVE  LET y == ReadBuf(x, [id \in Ids |-> SubSeq(x.buf, 1, Share(x))], Share(x))
           IN  StreamInv(y) /\ DataInv(y)
<1> DEFINE n == Share(x)
           data == SubSeq(x.buf, 1, n)
           y == ReadBuf(x, [id \in Ids |-> data], n)
<1>1. x \in Xfilepipe
  BY DEF PipeInv, CountInv
<1>2. /\ x.buf \in Seq(Bytes) /\ Len(x.buf) \in Nat /\ x.taken \in Nat
      /\ n \in 0..Len(x.buf) /\ (n = 0 => Len(x.buf) = 0)
  BY <1>1, Fields, Bounds DEF Share
<1>3. /\ Len(data) = n
      /\ \A k \in 1..n : data[k] = x.buf[k]
  BY <1>2
<1>4. /\ Len(y.buf) = Len(x.buf) - n
      /\ \A k \in 1..(Len(x.buf) - n) : y.buf[k] = x.buf[n + k]
  <2>1. y.buf = SubSeq(x.buf, n + 1, Len(x.buf))
    BY <1>1 DEF ReadBuf, Xfilepipe
  <2> HIDE DEF y, n, data
  <2> QED BY <1>2, <2>1
<1>5. /\ y.taken = x.taken /\ y.stream = x.stream /\ y.direction = "Read" /\ y.peer = x.peer
      /\ y.reply = [id \in Ids |-> IF id \in QueuedIds(x)
                                   THEN Rread(x.reply[id], data) ELSE x.reply[id]]
  BY <1>1 DEF ReadBuf, Xfilepipe
<1> HIDE DEF y, n, data
<1>6. /\ \A i \in 1..Len(x.stream) : x.stream[i] = <<0, i>>
      /\ Len(x.buf) <= x.taken
      /\ \A i \in 1..Len(x.buf) : x.buf[i] = <<0, Handed(x) + i>>
  BY DEF PipeInv, StreamInv
<1>7. Handed(y) = Handed(x) + n /\ Handed(x) \in Nat
  BY <1>2, <1>4, <1>5, <1>6 DEF Handed
<1>8. StreamInv(y)
  <2>1. ASSUME NEW i \in 1..Len(y.buf)
        PROVE  y.buf[i] = <<0, Handed(y) + i>>
    <3>1. n + i \in 1..Len(x.buf) /\ y.buf[i] = x.buf[n + i]
      BY <1>2, <1>4
    <3>2. y.buf[i] = <<0, Handed(x) + (n + i)>>
      BY <1>6, <3>1
    <3>3. Handed(x) + (n + i) = Handed(y) + i
      BY <1>2, <1>7, <3>1
    <3> QED BY <3>2, <3>3
  <2>2. Len(y.buf) <= y.taken
    BY <1>2, <1>4, <1>5, <1>6
  <2> QED BY <1>5, <1>6, <2>1, <2>2 DEF StreamInv
\* The replies, old and new
<1>9. ASSUME NEW id \in Ids
      PROVE  \/ Waiting(x, id) /\ y.reply[id] = Rread(x.reply[id], data)
             \/ ~Waiting(x, id) /\ y.reply[id] = x.reply[id]
  BY <1>5 DEF PipeInv, QueueInv
<1>10. ASSUME NEW id \in Ids
       PROVE  /\ y.reply[id].fid = x.reply[id].fid
              /\ Waiting(x, id) => y.reply[id].type = "Rread" /\ y.reply[id].data = data
  <2>1. x.reply[id] \in Replies
    BY <1>1, Fields
  <2> QED BY <1>9, <2>1 DEF Rread, Replies
<1>11. /\ \A id \in Ids : x.reply[id].data # <<>> => x.reply[id].type = "Rread"
       /\ \A id \in Ids : (x.reply[id].type = "Rread" /\ x.reply[id].data = <<>>)
                              => ~x.peer /\ Fill(x) = 0
       /\ \A id \in Ids : \A k \in 1..Len(x.reply[id].data) :
              x.reply[id].data[k][2] <= Handed(x)
       /\ \A i \in 1..Handed(x) : \E id \in Ids : \E k \in 1..Len(x.reply[id].data) :
              x.reply[id].data[k] = <<0, i>>
       /\ \A i, j \in Ids : (i < j /\ x.reply[i].fid = x.reply[j].fid) =>
              \A k \in 1..Len(x.reply[i].data), l \in 1..Len(x.reply[j].data) :
                  x.reply[i].data[k][2] < x.reply[j].data[l][2]
  BY DEF PipeInv, DataInv
<1>12. \A k \in 1..n : data[k] = <<0, Handed(x) + k>>
  BY <1>2, <1>3, <1>6
<1>13. ASSUME NEW id \in Ids, y.reply[id].data # <<>>
       PROVE  y.reply[id].type = "Rread"
  BY <1>9, <1>10, <1>11, <1>13
<1>14. ASSUME NEW id \in Ids, y.reply[id].type = "Rread", y.reply[id].data = <<>>
       PROVE  ~y.peer /\ Fill(y) = 0
  <2>1. CASE Waiting(x, id)
    <3>1. Len(x.buf) = 0
      BY <1>2, <1>3, <1>10, <1>14, <2>1
    <3>2. x.buf = <<>>
      BY <1>2, <3>1
    <3> QED BY <1>5, <3>2 DEF Fill
  <2>2. CASE ~Waiting(x, id)
    BY <1>5, <1>9, <1>11, <1>14, <2>2 DEF Fill
  <2> QED BY <2>1, <2>2
<1>15. ASSUME NEW id \in Ids, NEW k \in 1..Len(y.reply[id].data)
       PROVE  y.reply[id].data[k][2] <= Handed(y)
  <2>1. CASE Waiting(x, id)
    <3>1. k \in 1..n /\ y.reply[id].data[k] = <<0, Handed(x) + k>>
      BY <1>3, <1>10, <1>12, <2>1
    <3> QED BY <1>2, <1>7, <3>1
  <2>2. CASE ~Waiting(x, id)
    <3>1. y.reply[id] = x.reply[id]
      BY <1>9, <2>2
    <3>2. x.reply[id].data[k][2] <= Handed(x) /\ x.reply[id].data[k] \in Bytes
      BY <1>1, <1>11, <3>1, Fields
    <3>3. x.reply[id].data[k][2] \in Nat
      BY <3>2, ByteNumber
    <3> QED BY <1>2, <1>7, <3>1, <3>2, <3>3
  <2> QED BY <2>1, <2>2
<1>16. ASSUME NEW i \in 1..Handed(y)
       PROVE  \E id \in Ids : \E k \in 1..Len(y.reply[id].data) : y.reply[id].data[k] = <<0, i>>
  <2>1. CASE i <= Handed(x)
    <3>1. i \in 1..Handed(x)
      BY <1>7, <2>1
    <3>2. PICK id \in Ids : \E k \in 1..Len(x.reply[id].data) : x.reply[id].data[k] = <<0, i>>
      BY <1>11, <3>1
    <3>3. x.reply[id].data # <<>>
      BY <3>2
    <3>4. ~Waiting(x, id)
      BY <1>11, <3>3 DEF Waiting
    <3> QED BY <1>9, <3>2, <3>4
  <2>2. CASE i > Handed(x)
    <3>1. 1 \in DOMAIN x.reqs
      BY <1>1, Fields, EmptySeq
    <3> DEFINE id == x.reqs[1].id
               k == i - Handed(x)
    <3>2. id \in Ids /\ Waiting(x, id)
      BY <1>1, <3>1, Fields, QueuedAt DEF PipeInv, QueueInv
    <3>3. k \in 1..n /\ Handed(x) + k = i
      BY <1>2, <1>7, <2>2
    <3> HIDE DEF id, k
    <3>4. k \in 1..Len(y.reply[id].data) /\ y.reply[id].data[k] = <<0, i>>
      BY <1>3, <1>10, <1>12, <3>2, <3>3
    <3> QED BY <3>2, <3>4
  <2> QED BY <1>7, <2>1, <2>2
<1>17. ASSUME NEW i \in Ids, NEW j \in Ids, i < j, y.reply[i].fid = y.reply[j].fid,
              NEW k \in 1..Len(y.reply[i].data), NEW l \in 1..Len(y.reply[j].data)
       PROVE  y.reply[i].data[k][2] < y.reply[j].data[l][2]
  <2>1. x.reply[i].fid = x.reply[j].fid
    BY <1>10, <1>17
  <2>2. ~Waiting(x, i)
    <3>1. SUFFICES ASSUME Waiting(x, i) PROVE FALSE
      OBVIOUS
    <3>2. x.reply[j].type = "unsent"
      BY <1>17, <2>1, <3>1 DEF PipeInv, ClientInv
    <3>3. ~Waiting(x, j)
      BY <3>2 DEF Waiting
    <3>4. y.reply[j] = x.reply[j]
      BY <1>9, <3>3
    <3>5. x.reply[j].data = <<>>
      BY <1>11, <3>2
    <3> QED BY <3>4, <3>5
  <2>3. y.reply[i] = x.reply[i]
    BY <1>9, <2>2
  <2>4. CASE Waiting(x, j)
    <3>1. l \in 1..n /\ y.reply[j].data[l] = <<0, Handed(x) + l>>
      <4>1. y.reply[j].data = data
        BY <1>10, <2>4
      <4>2. l \in 1..n
        BY <1>3, <4>1
      <4> QED BY <1>12, <4>1, <4>2
    <3>2. x.reply[i].data[k][2] <= Handed(x) /\ x.reply[i].data[k] \in Bytes
      BY <1>1, <1>11, <2>3, Fields
    <3>3. x.reply[i].data[k][2] \in Nat
      BY <3>2, ByteNumber
    <3>4. y.reply[j].data[l][2] = Handed(x) + l
      BY <3>1
    <3>5. y.reply[i].data[k][2] = x.reply[i].data[k][2]
      BY <2>3
    <3>6. Handed(x) \in Int /\ l \in Nat /\ l > 0
      BY <1>2, <1>7, <3>1
    <3>7. PICK a \in Nat : a = x.reply[i].data[k][2]
      BY <3>3
    <3>8. a <= Handed(x) /\ y.reply[i].data[k][2] = a
      BY <3>2, <3>5, <3>7
    <3>9. a < Handed(x) + l
      BY <3>6, <3>7, <3>8
    <3> QED BY <3>4, <3>8, <3>9
  <2>5. CASE ~Waiting(x, j)
    BY <1>9, <1>11, <1>17, <2>1, <2>3, <2>5
  <2> QED BY <2>4, <2>5
<1>18. DataInv(y)
  BY <1>13, <1>14, <1>15, <1>16, <1>17 DEF DataInv
<1> QED BY <1>8, <1>18 DEF y, n, data

\* What the functions below leave alone.
Same(x, y) == y.direction = x.direction /\ y.lspfd = x.lspfd /\ y.peer = x.peer

\* What ReadBuf does to the fields
LEMMA ReadBufFields ==
    ASSUME NEW x \in Xfilepipe, NEW data \in [Ids -> Seq(Bytes)], NEW d \in 0..Len(x.buf)
    PROVE  LET y == ReadBuf(x, data, d)
           IN  /\ y \in Xfilepipe
               /\ Same(x, y) /\ y.flags = x.flags
               /\ y.stream = x.stream /\ y.taken = x.taken /\ y.reqs = <<>>
               /\ y.buf \in Seq(Bytes) /\ Len(y.buf) = Len(x.buf) - d
               /\ y.reply = [id \in Ids |-> IF id \in QueuedIds(x)
                                            THEN Rread(x.reply[id], data[id]) ELSE x.reply[id]]
<1> DEFINE y == ReadBuf(x, data, d)
           b == SubSeq(x.buf, d + 1, Len(x.buf))
           r == [id \in Ids |-> IF id \in QueuedIds(x)
                                THEN Rread(x.reply[id], data[id]) ELSE x.reply[id]]
<1>1. y = [x EXCEPT !.reply = r, !.buf = b, !.reqs = <<>>]
  BY DEF ReadBuf
<1>2. b \in Seq(Bytes) /\ Len(b) = Len(x.buf) - d
  BY Fields
<1>3. r \in [Ids -> Replies]
  <2>1. \A id \in Ids : x.reply[id] \in Replies /\ data[id] \in Seq(Bytes)
    BY Fields
  <2>2. \A id \in Ids : Rread(x.reply[id], data[id]) \in Replies
    BY <2>1 DEF Rread, Replies
  <2> QED BY <2>1, <2>2
<1> HIDE DEF y, b, r
<1>4. y \in Xfilepipe
  <2>1. <<>> \in Seq(Xpipereq)
    OBVIOUS
  <2> QED BY <1>1, <1>2, <1>3, <2>1 DEF Xfilepipe
<1>5. /\ Same(x, y) /\ y.flags = x.flags
      /\ y.stream = x.stream /\ y.taken = x.taken /\ y.reqs = <<>>
      /\ y.buf = b /\ y.reply = r
  BY <1>1 DEF Same, Xfilepipe
<1> QED BY <1>2, <1>4, <1>5 DEF y, r

\* pip_read_buf: nobody gets an end of file that is not one.
LEMMA ReadBufKeeps ==
    ASSUME NEW x, PipeInv(x),
           x.direction = "Read" => x.reqs = <<>> \/ x.buf # <<>> \/ (~x.peer /\ Fill(x) = 0)
    PROVE  LET y == pip_read_buf(x)
           IN  /\ PipeInv(y) /\ Same(x, y) /\ Together(x, y)
               /\ y.flags = x.flags /\ Fill(y) = Fill(x) /\ y.reqs = <<>>
<1>1. x \in Xfilepipe
  BY DEF PipeInv, CountInv
<1>2. CASE x.reqs = <<>>
  BY <1>1, <1>2 DEF pip_read_buf, Same, Together
<1>3. CASE x.reqs # <<>>
  <2> DEFINE y == pip_read_buf(x)
  <2>1. \E data \in [Ids -> Seq(Bytes)] : \E d \in 0..Len(x.buf) : y = ReadBuf(x, data, d)
    BY <1>1, <1>3, ReadBufTypes DEF PipeInv
  <2>2. PICK data \in [Ids -> Seq(Bytes)], d \in 0..Len(x.buf) : y = ReadBuf(x, data, d)
    BY <2>1
  <2>3. x.direction = "Read" => y = ReadBuf(x, [id \in Ids |-> SubSeq(x.buf, 1, Share(x))], Share(x))
    BY <1>1, <1>3, ReadBufData DEF PipeInv
  <2> HIDE DEF y
  <2>4. /\ y \in Xfilepipe
        /\ Same(x, y) /\ y.flags = x.flags
        /\ y.stream = x.stream /\ y.taken = x.taken /\ y.reqs = <<>>
        /\ y.buf \in Seq(Bytes) /\ Len(y.buf) = Len(x.buf) - d
        /\ y.reply = [id \in Ids |-> IF id \in QueuedIds(x)
                                     THEN Rread(x.reply[id], data[id]) ELSE x.reply[id]]
    BY <1>1, <2>2, ReadBufFields
  <2>5. Fill(y) = Fill(x)
    BY <2>4 DEF Fill
  <2>6. CountInv(y)
    <3>1. d \in Nat /\ Len(x.buf) \in Nat
      BY <1>1, Fields
    <3> QED BY <2>4, <2>5, <3>1, Bounds DEF PipeInv, CountInv, Same
  <2>7. ASSUME NEW id \in Ids
        PROVE  ~Waiting(y, id)
    <3>1. x.reply[id] \in Replies
      BY <1>1, Fields
    <3>2. CASE id \in QueuedIds(x)
      BY <2>4, <3>1, <3>2 DEF Waiting, Rread, Replies
    <3>3. CASE id \notin QueuedIds(x)
      BY <2>4, <3>3 DEF Waiting, PipeInv, QueueInv
    <3> QED BY <3>2, <3>3
  <2>8. QueueInv(y)
    <3>1. QueuedIds(y) = {}
      BY <2>4, QueuedAt
    <3> QED BY <2>4, <2>7, <3>1 DEF QueueInv
  <2>9. ClientInv(y)
    BY <2>7 DEF ClientInv
  <2>10. StreamInv(y) /\ DataInv(y)
    <3>1. CASE x.direction = "Read"
      BY <1>3, <2>3, <3>1, ReadBufDelivers
    <3>2. CASE x.direction # "Read"
      BY <2>4, <3>2 DEF StreamInv, DataInv, Same
    <3> QED BY <3>1, <3>2
  <2>11. Together(x, y)
    <3>1. SUFFICES ASSUME x.direction = "Read" PROVE Together(x, y)
      BY DEF Together
    <3> DEFINE part == SubSeq(x.buf, 1, Share(x))
    <3>2. \A id \in Ids : id \in QueuedIds(x) <=> Waiting(x, id)
      BY DEF PipeInv, QueueInv
    <3> DEFINE parts == [id \in Ids |-> part]
    <3>3. y.reply = [id \in Ids |-> IF id \in QueuedIds(x)
                                    THEN Rread(x.reply[id], part) ELSE x.reply[id]]
      <4>1. Share(x) \in 0..Len(x.buf)
        BY <1>1, Fields, Bounds DEF Share
      <4>2. part \in Seq(Bytes)
        BY <1>1, <4>1, Fields
      <4> HIDE DEF part
      <4>3. parts \in [Ids -> Seq(Bytes)]
        BY <4>2
      <4>4. y = ReadBuf(x, parts, Share(x))
        BY <2>3, <3>1 DEF part
      <4> HIDE DEF parts
      <4>5. y.reply = [id \in Ids |-> IF id \in QueuedIds(x)
                                      THEN Rread(x.reply[id], parts[id]) ELSE x.reply[id]]
        BY <1>1, <4>1, <4>3, <4>4, ReadBufFields
      <4> QED BY <4>5 DEF parts
    <3> HIDE DEF part
    <3>4. y.reply = [id \in Ids |-> IF Waiting(x, id)
                                    THEN Rread(x.reply[id], part) ELSE x.reply[id]]
      BY <3>2, <3>3
    <3> QED BY <3>4 DEF Together
  <2> QED BY <2>4, <2>5, <2>6, <2>8, <2>9, <2>10, <2>11 DEF PipeInv, y
<1> QED BY <1>2, <1>3

-----------------------------------------------------------------------------
(* spfd_read, pip_read                                                     *)

\* How much spfd_read reads.
Taken(x, n) == IF x.direction # "Read" THEN 0 ELSE IF Fill(x) < n THEN Fill(x) ELSE n

\* spfd_read moves bytes from the pipe to the buffer.
LEMMA SpfdReadKeeps ==
    ASSUME NEW x, PipeInv(x), NEW n \in Nat
    PROVE  LET y == spfd_read(x, n)
           IN  /\ PipeInv(y) /\ Same(x, y) /\ Together(x, y)
               /\ y.flags = x.flags \ {"Readable"} /\ y.reqs = x.reqs
               /\ y.reply = x.reply /\ y.stream = x.stream
               /\ Len(y.buf) = Len(x.buf) + Taken(x, n) /\ Fill(y) = Fill(x) - Taken(x, n)
<1> DEFINE y == spfd_read(x, n)
           k == Taken(x, n)
           t == SubSeq(x.stream, x.taken + 1, x.taken + k)
<1>1. x \in Xfilepipe /\ x.taken <= Len(x.stream)
  BY DEF PipeInv, CountInv
<1>2. /\ x.buf \in Seq(Bytes) /\ Len(x.buf) \in Nat /\ x.stream \in Seq(Bytes)
      /\ Len(x.stream) \in Nat /\ x.taken \in Nat
      /\ Fill(x) \in Nat /\ Fill(x) = Len(x.stream) - x.taken
  BY <1>1, Fields DEF Fill
<1>3. k \in Nat /\ k <= Fill(x) /\ (x.direction = "Write" => k = 0)
  BY <1>2 DEF Taken
<1>4. y = [x EXCEPT !.buf = @ \o t, !.taken = @ + k, !.flags = @ \ {"Readable"}]
  BY <1>1 DEF spfd_read, Cleared, Taken, Xfilepipe
<1> HIDE DEF k
<1>5. /\ t \in Seq(Bytes) /\ Len(t) = k
      /\ \A i \in 1..k : t[i] = x.stream[x.taken + i]
  <2> DEFINE u == x.stream
             p == x.taken
  <2>1. u \in Seq(Bytes) /\ Len(u) \in Nat /\ p \in Nat /\ p + k <= Len(u)
    BY <1>2, <1>3
  <2> HIDE DEF u, p
  <2>2. /\ SubSeq(u, p + 1, p + k) \in Seq(Bytes) /\ Len(SubSeq(u, p + 1, p + k)) = k
        /\ \A i \in 1..k : SubSeq(u, p + 1, p + k)[i] = u[p + i]
    BY <1>3, <2>1
  <2> QED BY <2>2 DEF u, p
<1> HIDE DEF t
<1> DEFINE b == x.buf \o t
<1>6. /\ b \in Seq(Bytes) /\ Len(b) = Len(x.buf) + k
      /\ \A i \in 1..(Len(x.buf) + k) :
             b[i] = IF i <= Len(x.buf) THEN x.buf[i] ELSE t[i - Len(x.buf)]
  BY <1>2, <1>5, ConcatProperties
<1> HIDE DEF b
<1>7. y = [x EXCEPT !.buf = b, !.taken = x.taken + k, !.flags = x.flags \ {"Readable"}]
  BY <1>1, <1>4 DEF b, Xfilepipe
<1> HIDE DEF y
<1>8. /\ Same(x, y) /\ y.flags = x.flags \ {"Readable"} /\ y.reqs = x.reqs
      /\ y.reply = x.reply /\ y.stream = x.stream
      /\ y.buf = b /\ y.taken = x.taken + k
  BY <1>1, <1>7 DEF Same, Xfilepipe
<1>9. y \in Xfilepipe
  <2>1. x.taken + k \in Nat
    BY <1>2, <1>3
  <2>2. x.flags \ {"Readable"} \in SUBSET {"Readable", "Writable", "Error"}
    BY <1>1, Fields
  <2> QED BY <1>1, <1>6, <1>7, <2>1, <2>2 DEF Xfilepipe
<1>10. Fill(y) = Fill(x) - k /\ Handed(y) = Handed(x)
  <2>1. Fill(y) = Len(x.stream) - (x.taken + k)
    BY <1>8 DEF Fill
  <2>2. Handed(y) = (x.taken + k) - (Len(x.buf) + k)
    BY <1>6, <1>8 DEF Handed
  <2> QED BY <1>2, <1>3, <2>1, <2>2 DEF Handed
<1>11. CountInv(y)
  <2>1. y.taken <= Len(y.stream) /\ Fill(y) <= Cap
    BY <1>2, <1>3, <1>8, <1>10, Bounds DEF PipeInv, CountInv
  <2>2. y.direction = "Write" => Len(y.buf) < Count
    BY <1>2, <1>3, <1>6, <1>8 DEF PipeInv, CountInv, Same
  <2>3. "Error" \in y.flags => ~y.peer
    BY <1>8 DEF PipeInv, CountInv, Same
  <2> QED BY <1>8, <1>9, <2>1, <2>2, <2>3 DEF CountInv
<1>12. QueueInv(y) /\ ClientInv(y)
  <2>1. \A id : Waiting(y, id) <=> Waiting(x, id)
    BY <1>8 DEF Waiting
  <2>2. QueuedIds(y) = QueuedIds(x)
    BY <1>8 DEF QueuedIds
  <2> QED BY <1>8, <2>1, <2>2 DEF PipeInv, QueueInv, ClientInv, Same
<1>13. StreamInv(y)
  <2>1. SUFFICES ASSUME x.direction = "Read" PROVE StreamInv(y)
    BY <1>8 DEF StreamInv, Same
  <2>2. /\ \A i \in 1..Len(x.stream) : x.stream[i] = <<0, i>>
        /\ Len(x.buf) <= x.taken
        /\ \A i \in 1..Len(x.buf) : x.buf[i] = <<0, Handed(x) + i>>
    BY <2>1 DEF PipeInv, StreamInv
  <2>3. ASSUME NEW i \in 1..Len(b)
        PROVE  b[i] = <<0, Handed(x) + i>>
    <3>1. CASE i <= Len(x.buf)
      <4>1. i \in 1..Len(x.buf)
        BY <1>2, <1>3, <1>6, <3>1
      <4>2. b[i] = x.buf[i]
        BY <1>2, <1>3, <1>6, <4>1
      <4> QED BY <2>2, <4>1, <4>2
    <3>2. CASE i > Len(x.buf)
      <4> DEFINE j == i - Len(x.buf)
      <4>1. j \in 1..k /\ b[i] = t[j]
        BY <1>2, <1>3, <1>6, <3>2
      <4>2. /\ x.taken + j \in 1..Len(x.stream)
            /\ x.taken + j = Handed(x) + i
        <5>1. i \in Nat /\ j \in 1..k
          BY <1>2, <1>3, <1>6, <4>1
        <5>2. x.taken + j \in 1..Len(x.stream)
          <6> HIDE DEF j
          <6> QED BY <1>2, <1>3, <5>1
        <5>3. x.taken + j = Handed(x) + i
          BY <1>2, <5>1 DEF Handed
        <5> QED BY <5>2, <5>3
      <4> QED BY <1>5, <2>2, <4>1, <4>2
    <3> QED BY <1>2, <1>3, <1>6, <3>1, <3>2
  <2>4. Len(y.buf) <= y.taken
    BY <1>2, <1>3, <1>6, <1>8, <2>2
  <2> QED BY <1>8, <1>10, <2>2, <2>3, <2>4 DEF StreamInv
<1>14. DataInv(y)
  <2>1. Fill(x) = 0 => Fill(y) = 0
    BY <1>2, <1>3, <1>10
  <2> QED BY <1>8, <1>10, <2>1 DEF PipeInv, DataInv, Same
<1>15. Together(x, y)
  BY <1>8 DEF Together
<1> QED BY <1>6, <1>8, <1>10, <1>11, <1>12, <1>13, <1>14, <1>15 DEF PipeInv, y, k

\* pip_read is called when there are bytes in the buffer, or poll has seen some.
LEMMA PipReadKeeps ==
    ASSUME NEW x, PipeInv(x), Reads(x)
    PROVE  LET y == pip_read(x)
           IN  /\ PipeInv(y) /\ Same(x, y) /\ Together(x, y)
               /\ "Error" \in y.flags <=> "Error" \in x.flags
<1> DEFINE y == pip_read(x)
<1>1. x \in Xfilepipe
  BY DEF PipeInv, CountInv
<1>2. /\ Len(x.buf) \in Nat /\ Fill(x) \in Nat /\ x.direction \in {"Read", "Write"}
      /\ (x.buf # <<>> => Len(x.buf) > 0)
  <2>1. x.taken <= Len(x.stream)
    BY DEF PipeInv, CountInv
  <2> QED BY <1>1, <2>1, Fields, EmptySeq DEF Fill
<1>3. CASE "Error" \in x.flags
  <2> DEFINE z == pip_read_eof(x)
  <2>1. /\ PipeInv(z) /\ Same(x, z) /\ Together(x, z)
        /\ z.flags = x.flags \ {"Readable"} /\ Fill(z) = Fill(x) - Taken(x, Fill(x))
    BY <1>2, SpfdReadKeeps DEF pip_read_eof
  <2> HIDE DEF z
  <2>2. x.direction = "Read" => ~z.peer /\ Fill(z) = 0
    BY <1>2, <1>3, <2>1 DEF Taken, Same, PipeInv, CountInv
  <2>3. z.direction = "Read" => z.reqs = <<>> \/ z.buf # <<>> \/ (~z.peer /\ Fill(z) = 0)
    BY <2>1, <2>2 DEF Same
  <2>4. /\ PipeInv(pip_read_buf(z)) /\ Same(z, pip_read_buf(z)) /\ Together(z, pip_read_buf(z))
        /\ pip_read_buf(z).flags = z.flags
    BY <2>1, <2>3, ReadBufKeeps
  <2>5. pip_read(x) = pip_read_buf(z)
    BY <1>3 DEF pip_read, z
  <2> HIDE DEF y
  <2>6. Together(x, pip_read_buf(z))
    BY <1>1, <2>1, <2>4, TogetherAgain DEF Same
  <2> QED BY <1>3, <2>1, <2>4, <2>5, <2>6 DEF Same
<1>4. CASE "Error" \notin x.flags /\ x.direction = "Write"
  BY <1>4 DEF pip_read, Same, Together
<1>5. CASE "Error" \notin x.flags /\ x.direction = "Read"
  <2> DEFINE z == IF Len(x.buf) < BufSize THEN spfd_read(x, BufSize - Len(x.buf)) ELSE x
  <2>1. /\ PipeInv(z) /\ Same(x, z) /\ Together(x, z) /\ z.buf # <<>>
        /\ "Error" \notin z.flags
    <3>1. CASE Len(x.buf) < BufSize
      <4> DEFINE n == BufSize - Len(x.buf)
      <4>1. n \in Nat /\ n > 0
        BY <1>2, <3>1, Bounds
      <4> HIDE DEF n
      <4>2. /\ PipeInv(spfd_read(x, n)) /\ Same(x, spfd_read(x, n)) /\ Together(x, spfd_read(x, n))
            /\ spfd_read(x, n).flags = x.flags \ {"Readable"}
            /\ Len(spfd_read(x, n).buf) = Len(x.buf) + Taken(x, n)
        BY <4>1, SpfdReadKeeps
      <4>3. x.buf # <<>> \/ Fill(x) > 0
        BY DEF Reads, PipeInv, CountInv
      <4>4. Len(spfd_read(x, n).buf) > 0
        BY <1>2, <1>5, <4>1, <4>2, <4>3 DEF Taken
      <4>5. Len(<<>>) = 0
        OBVIOUS
      <4>6. spfd_read(x, n).buf # <<>>
        BY <4>4, <4>5
      <4>7. z = spfd_read(x, n)
        BY <3>1 DEF n
      <4> QED BY <1>5, <4>2, <4>6, <4>7
    <3>2. CASE ~(Len(x.buf) < BufSize)
      <4>1. z = x
        BY <3>2
      <4>2. Len(x.buf) > 0
        BY <1>2, <3>2, Bounds
      <4>3. x.buf # <<>>
        BY <4>2
      <4> QED BY <1>5, <4>1, <4>3 DEF Same, Together
    <3> QED BY <3>1, <3>2
  <2>2. pip_read(x) = pip_read_buf(z)
    BY <1>5 DEF pip_read
  <2> HIDE DEF z, y
  <2>3. /\ PipeInv(pip_read_buf(z)) /\ Same(z, pip_read_buf(z)) /\ Together(z, pip_read_buf(z))
        /\ pip_read_buf(z).flags = z.flags
    BY <2>1, ReadBufKeeps
  <2>4. Together(x, pip_read_buf(z))
    BY <1>1, <2>1, <2>3, TogetherAgain DEF Same
  <2> QED BY <1>5, <2>1, <2>2, <2>3, <2>4 DEF Same
<1> QED BY <1>2, <1>3, <1>4, <1>5

-----------------------------------------------------------------------------
(* pip_write, pip_disconnect                                               *)

\* The first of the queue
LEMMA FirstQueued ==
    ASSUME NEW x, x \in Xfilepipe, QueueInv(x), x.reqs # <<>>
    PROVE  /\ Head(x.reqs) = x.reqs[1] /\ 1 \in DOMAIN x.reqs
           /\ Head(x.reqs).id \in Ids /\ Waiting(x, Head(x.reqs).id)
<1>1. 1 \in DOMAIN x.reqs
  BY Fields, EmptySeq
<1>2. Head(x.reqs) = x.reqs[1]
  BY Fields
<1> QED BY <1>1, <1>2, Fields, QueuedAt DEF QueueInv

\* The first write is answered, and leaves the queue.
LEMMA WrittenKeeps ==
    ASSUME NEW x, x \in Xfilepipe, QueueInv(x), ClientInv(x), x.reqs # <<>>,
           x.direction = "Write"
    PROVE  LET y == Written(x)
           IN  /\ y \in Xfilepipe /\ QueueInv(y) /\ ClientInv(y) /\ Same(x, y)
               /\ y.flags = x.flags /\ y.stream = x.stream /\ y.taken = x.taken
               /\ y.buf = <<>>
               /\ y.reply[Head(x.reqs).id].type = "Rwrite"
               /\ y.reply[Head(x.reqs).id].count = Count
               /\ \A id \in Ids : id # Head(x.reqs).id => y.reply[id] = x.reply[id]
<1> DEFINE y == Written(x)
           h == Head(x.reqs).id
           w == Rwrite(x.reply[h], Count)
           q == Tail(x.reqs)
<1>1. /\ Head(x.reqs) = x.reqs[1] /\ 1 \in DOMAIN x.reqs
      /\ h \in Ids /\ Waiting(x, h)
  BY FirstQueued
<1>2. /\ x.reqs \in Seq(Xpipereq) /\ Len(x.reqs) \in Nat /\ DOMAIN x.reqs = 1..Len(x.reqs)
      /\ x.reply \in [Ids -> Replies]
      /\ \A i \in DOMAIN x.reqs : x.reqs[i].id \in Ids
  BY Fields
<1>3. /\ q \in Seq(Xpipereq) /\ DOMAIN q = 1..(Len(x.reqs) - 1)
      /\ \A i \in DOMAIN q : i + 1 \in DOMAIN x.reqs /\ q[i] = x.reqs[i + 1]
  <2>1. q \in Seq(Xpipereq) /\ Len(q) = Len(x.reqs) - 1
    BY <1>2
  <2>2. DOMAIN q = 1..(Len(x.reqs) - 1)
    BY <2>1
  <2>3. \A i \in 1..(Len(x.reqs) - 1) : i + 1 \in DOMAIN x.reqs /\ q[i] = x.reqs[i + 1]
    BY <1>2
  <2> QED BY <2>1, <2>2, <2>3
<1>4. w \in Replies /\ w.type = "Rwrite" /\ w.fid = x.reply[h].fid /\ w.count = Count
  <2>1. x.reply[h] \in Replies /\ Count \in 0..Count
    BY <1>1, <1>2, Bounds
  <2> QED BY <2>1 DEF Rwrite, Replies
<1>5. y = [x EXCEPT !.reply = [x.reply EXCEPT ![h] = w], !.reqs = q, !.buf = <<>>]
  BY DEF Written, Xfilepipe
<1> HIDE DEF y, h, w, q
<1>6. y \in Xfilepipe
  <2>1. <<>> \in Seq(Bytes)
    OBVIOUS
  <2>2. [x.reply EXCEPT ![h] = w] \in [Ids -> Replies]
    BY <1>2, <1>4
  <2> QED BY <1>3, <1>5, <2>1, <2>2 DEF Xfilepipe
<1>7. /\ Same(x, y) /\ y.flags = x.flags /\ y.stream = x.stream /\ y.taken = x.taken
      /\ y.buf = <<>> /\ y.reqs = q /\ y.reply = [x.reply EXCEPT ![h] = w]
  BY <1>5 DEF Same, Xfilepipe
<1>8. ASSUME NEW id \in Ids
      PROVE  /\ Waiting(y, id) <=> Waiting(x, id) /\ id # h
             /\ y.reply[id].fid = x.reply[id].fid
  BY <1>1, <1>2, <1>4, <1>7 DEF Waiting
<1>9. ASSUME NEW id \in Ids
      PROVE  id \in QueuedIds(y) <=> id \in QueuedIds(x) /\ id # h
  <2>1. ASSUME NEW i \in DOMAIN q, q[i].id = id
        PROVE  id \in QueuedIds(x) /\ id # h
    <3>1. i + 1 \in DOMAIN x.reqs /\ x.reqs[i + 1].id = id /\ i + 1 # 1
      BY <1>2, <1>3, <2>1
    <3>2. x.reqs[1].id = h
      BY <1>1 DEF h
    <3> QED BY <1>1, <3>1, <3>2, QueuedAt DEF QueueInv
  <2>2. ASSUME NEW i \in DOMAIN x.reqs, x.reqs[i].id = id, id # h
        PROVE  id \in QueuedIds(y)
    <3>1. i # 1
      BY <1>1, <2>2 DEF h
    <3>2. i - 1 \in DOMAIN q /\ q[i - 1] = x.reqs[i]
      BY <1>2, <1>3, <3>1
    <3> QED BY <1>7, <2>2, <3>2, QueuedAt
  <2> QED BY <1>7, <2>1, <2>2, QueuedAt
<1>10. QueueInv(y)
  <2>1. QueuedIds(y) \subseteq Ids /\ QueuedIds(x) \subseteq Ids
    <3>1. QueuedIds(y) \subseteq Ids
      BY <1>6, Fields, QueuedAt
    <3>2. QueuedIds(x) \subseteq Ids
      BY Fields, QueuedAt
    <3> QED BY <3>1, <3>2
  <2>2. {id \in Ids : Waiting(y, id)} = QueuedIds(y)
    BY <1>8, <1>9, <2>1 DEF QueueInv
  <2>3. ASSUME NEW i \in DOMAIN q, NEW j \in DOMAIN q, q[i].id = q[j].id
        PROVE  i = j
    <3>1. i + 1 = j + 1
      BY <1>3, <2>3 DEF QueueInv
    <3> QED BY <1>2, <1>3, <3>1
  <2>4. ASSUME NEW i \in DOMAIN q
        PROVE  y.reply[q[i].id].fid = q[i].fid
    <3>1. i + 1 \in DOMAIN x.reqs /\ q[i] = x.reqs[i + 1]
      BY <1>2, <1>3
    <3>2. x.reqs[i + 1].id \in Ids
      BY <3>1, Fields, QueuedAt
    <3>3. x.reply[x.reqs[i + 1].id].fid = x.reqs[i + 1].fid
      BY <3>1 DEF QueueInv
    <3> QED BY <1>8, <3>1, <3>2, <3>3
  <2> QED BY <1>7, <2>2, <2>3, <2>4 DEF QueueInv
<1>11. ClientInv(y)
  BY <1>7, <1>8 DEF ClientInv, Same
<1>12. y.reply[h] = w /\ \A id \in Ids : id # h => y.reply[id] = x.reply[id]
  BY <1>1, <1>2, <1>7
<1> QED BY <1>4, <1>6, <1>7, <1>10, <1>11, <1>12 DEF y, h

\* The n bytes of write id that follow the first m
BytesOf(id, m, n) == [i \in 1..n |-> <<id, m + i>>]

\* pip_write puts the next n bytes of the first write into the pipe, n at least 0.
Put(x, y, n) ==
    /\ y \in Xfilepipe /\ Same(x, y) /\ y.flags = x.flags \ {"Writable"}
    /\ y.reqs = x.reqs /\ y.reply = x.reply /\ y.taken = x.taken
    /\ y.stream = x.stream \o BytesOf(Head(x.reqs).id, Len(x.buf), n)
    /\ Len(y.stream) = Len(x.stream) + n
    /\ y.buf \in Seq(Bytes) /\ Len(y.buf) = Len(x.buf) + n

LEMMA PipWritePuts ==
    ASSUME NEW x, x \in Xfilepipe, CountInv(x), QueueInv(x), x.reqs # <<>>,
           x.direction = "Write"
    PROVE  \E n \in 0..(Count - Len(x.buf)) : \E y :
               /\ Put(x, y, n) /\ Fill(x) + n <= Cap
               /\ pip_write(x) = IF n > 0 /\ n = Count - Len(x.buf) THEN Written(y) ELSE y
<1> DEFINE id == Head(x.reqs).id
           todo == Count - Len(x.buf)
           n == IF ~x.peer THEN 0 ELSE IF Cap - Fill(x) < todo THEN Cap - Fill(x) ELSE todo
           data == [i \in 1..n |-> <<id, Len(x.buf) + i>>]
           b == x.buf \o [i \in 1..n |-> Uninitialized]
           s == x.stream \o data
           y == [x EXCEPT !.buf = @ \o [i \in 1..n |-> Uninitialized],
                          !.stream = @ \o data, !.flags = Cleared(@, "Writable")]
<1>1. /\ x.buf \in Seq(Bytes) /\ Len(x.buf) \in Nat /\ x.stream \in Seq(Bytes)
      /\ Len(x.stream) \in Nat /\ x.taken \in Nat /\ x.taken <= Len(x.stream)
      /\ Fill(x) = Len(x.stream) - x.taken /\ Fill(x) <= Cap /\ Len(x.buf) < Count
  BY Fields DEF CountInv, Fill
<1>2. todo \in Nat /\ todo > 0 /\ n \in 0..todo /\ Fill(x) + n <= Cap
  BY <1>1, Bounds
<1>3. id \in Ids
  BY FirstQueued
<1>4. pip_write(x) = IF n > 0 /\ n = todo THEN Written(y) ELSE y
  BY DEF pip_write
<1> HIDE DEF id, n
<1>5. data \in Seq(Bytes) /\ Len(data) = n
  <2>1. \A i \in 1..n : <<id, Len(x.buf) + i>> \in Bytes
    BY <1>1, <1>2, <1>3, Bounds DEF Bytes
  <2>2. n \in Nat
    BY <1>2
  <2>3. data \in [1..n -> Bytes]
    BY <2>1
  <2> HIDE DEF data
  <2> QED BY <2>2, <2>3
<1>6. [i \in 1..n |-> Uninitialized] \in Seq(Bytes) /\ Len([i \in 1..n |-> Uninitialized]) = n
  <2>1. Uninitialized \in Bytes
    BY Bounds DEF Uninitialized, Bytes
  <2> HIDE DEF todo
  <2> QED BY <1>2, <2>1
<1> HIDE DEF data
<1>7. /\ b \in Seq(Bytes) /\ Len(b) = Len(x.buf) + n
      /\ s \in Seq(Bytes) /\ Len(s) = Len(x.stream) + n
  BY <1>1, <1>5, <1>6, ConcatProperties
<1>8. y = [x EXCEPT !.buf = b, !.stream = s, !.flags = x.flags \ {"Writable"}]
  BY DEF Cleared, Xfilepipe
<1> HIDE DEF b, s, y, todo
<1>9. y \in Xfilepipe
  <2>1. x.flags \ {"Writable"} \in SUBSET {"Readable", "Writable", "Error"}
    BY Fields
  <2> QED BY <1>7, <1>8, <2>1 DEF Xfilepipe
<1>10. /\ Same(x, y) /\ y.flags = x.flags \ {"Writable"} /\ y.reqs = x.reqs
       /\ y.reply = x.reply /\ y.taken = x.taken /\ y.buf = b /\ y.stream = s
  BY <1>8 DEF Same, Xfilepipe
<1>11. Put(x, y, n)
  BY <1>7, <1>9, <1>10 DEF Put, BytesOf, s, data, id
<1> QED BY <1>2, <1>4, <1>11 DEF todo

\* pip_write puts what there is room for into the pipe.
LEMMA PipWriteKeeps ==
    ASSUME NEW x, PipeInv(x)
    PROVE  LET y == pip_write(x)
           IN  /\ PipeInv(y) /\ Same(x, y) /\ Together(x, y)
               /\ "Error" \in y.flags <=> "Error" \in x.flags
<1>1. x \in Xfilepipe /\ x.direction \in {"Read", "Write"}
  BY Fields DEF PipeInv, CountInv
<1>2. CASE x.reqs = <<>> \/ x.direction # "Write"
  BY <1>2 DEF pip_write, Same, Together
<1>3. CASE x.reqs # <<>> /\ x.direction = "Write"
  <2>1. /\ Len(x.buf) \in Nat /\ Len(x.stream) \in Nat /\ x.taken \in Nat
        /\ x.taken <= Len(x.stream) /\ Fill(x) = Len(x.stream) - x.taken /\ Len(x.buf) < Count
    BY <1>1, <1>3, Fields DEF PipeInv, CountInv, Fill
  <2> DEFINE todo == Count - Len(x.buf)
  <2>2. PICK n \in 0..todo : \E z : /\ Put(x, z, n) /\ Fill(x) + n <= Cap
                                    /\ pip_write(x) = IF n > 0 /\ n = todo THEN Written(z) ELSE z
    BY <1>1, <1>3, PipWritePuts DEF PipeInv
  <2>3. PICK y : /\ Put(x, y, n) /\ Fill(x) + n <= Cap
                 /\ pip_write(x) = IF n > 0 /\ n = todo THEN Written(y) ELSE y
    BY <2>2
  <2>4. /\ y \in Xfilepipe /\ Same(x, y) /\ y.flags = x.flags \ {"Writable"} /\ y.reqs = x.reqs
        /\ y.reply = x.reply /\ y.taken = x.taken /\ Len(y.buf) = Len(x.buf) + n
        /\ Len(y.stream) = Len(x.stream) + n
    BY <2>3 DEF Put
  <2>5. n \in Nat /\ n <= todo
    BY <2>1, Bounds
  <2> HIDE DEF todo
  <2>6. QueueInv(y) /\ ClientInv(y)
    <3>1. \A i : Waiting(y, i) <=> Waiting(x, i)
      BY <2>4 DEF Waiting
    <3>2. QueuedIds(y) = QueuedIds(x)
      BY <2>4 DEF QueuedIds
    <3> QED BY <2>4, <3>1, <3>2 DEF PipeInv, QueueInv, ClientInv, Same
  <2>7. ASSUME NEW z, z \in Xfilepipe, Same(y, z), z.flags = y.flags, z.stream = y.stream,
                z.taken = y.taken, Len(z.buf) < Count, QueueInv(z), ClientInv(z)
         PROVE  /\ PipeInv(z) /\ Same(x, z) /\ Together(x, z)
                /\ "Error" \in z.flags <=> "Error" \in x.flags
    <3>1. Same(x, z) /\ z.direction = "Write"
      BY <1>3, <2>4, <2>7 DEF Same
    <3>2. Fill(z) = Fill(x) + n /\ z.taken <= Len(z.stream)
      <4>1. Fill(z) = Len(y.stream) - x.taken /\ z.taken = x.taken /\ Len(z.stream) = Len(y.stream)
        BY <2>4, <2>7 DEF Fill
      <4> QED BY <2>1, <2>4, <2>5, <4>1
    <3>3. "Error" \in z.flags <=> "Error" \in x.flags
      BY <2>4, <2>7
    <3>4. "Readable" \notin z.flags /\ ("Error" \in z.flags => ~z.peer)
      BY <1>3, <2>4, <2>7, <3>1 DEF PipeInv, CountInv, Same
    <3>5. CountInv(z)
      BY <2>3, <2>7, <3>2, <3>4 DEF CountInv
    <3> QED BY <1>3, <2>7, <3>1, <3>3, <3>5
          DEF PipeInv, StreamInv, DataInv, Together
  <2>8. CASE n > 0 /\ n = todo
    <3>1. pip_write(x) = Written(y)
      BY <2>3, <2>8
    <3>2. y.direction = "Write" /\ y.reqs # <<>>
      BY <1>3, <2>4 DEF Same
    <3> DEFINE z == Written(y)
    <3>3. /\ z \in Xfilepipe /\ QueueInv(z) /\ ClientInv(z) /\ Same(y, z)
          /\ z.flags = y.flags /\ z.stream = y.stream /\ z.taken = y.taken
          /\ z.buf = <<>>
      BY <2>4, <2>6, <3>2, WrittenKeeps
    <3> HIDE DEF z
    <3>4. Len(z.buf) < Count
      BY <3>3, Bounds
    <3>5. /\ PipeInv(z) /\ Same(x, z) /\ Together(x, z)
          /\ "Error" \in z.flags <=> "Error" \in x.flags
      BY <2>7, <3>3, <3>4
    <3> QED BY <3>1, <3>5 DEF z
  <2>9. CASE ~(n > 0 /\ n = todo)
    <3>1. pip_write(x) = y
      BY <2>3, <2>9
    <3>2. Len(y.buf) < Count
      BY <2>1, <2>4, <2>5, <2>9, Bounds DEF todo
    <3>3. Same(y, y)
      BY DEF Same
    <3>4. /\ PipeInv(y) /\ Same(x, y) /\ Together(x, y)
          /\ "Error" \in y.flags <=> "Error" \in x.flags
      BY <2>4, <2>6, <2>7, <3>2, <3>3
    <3> QED BY <3>1, <3>4
  <2> QED BY <2>8, <2>9
<1> QED BY <1>1, <1>2, <1>3

\* The writes that wait are refused when the descriptor is closed.
LEMMA RefuseWritesKeeps ==
    ASSUME NEW x, PipeInv(x), x.direction = "Write"
    PROVE  LET y == RefuseWrites(x)
           IN  /\ PipeInv(y) /\ Same(x, y) /\ Together(x, y)
               /\ y.flags = x.flags /\ y.reqs = <<>>
<1>1. x \in Xfilepipe
  BY DEF PipeInv, CountInv
<1>2. CASE x.reqs = <<>>
  BY <1>2 DEF RefuseWrites, Same, Together
<1>3. CASE x.reqs # <<>>
  <2> DEFINE n(id) == IF id = Head(x.reqs).id THEN Len(x.buf) ELSE 0
             r == [id \in Ids |-> IF id \in QueuedIds(x)
                                  THEN Rwrite(x.reply[id], n(id)) ELSE x.reply[id]]
             y == RefuseWrites(x)
  <2>1. y = [x EXCEPT !.reply = r, !.reqs = <<>>, !.buf = <<>>]
    BY <1>1, <1>3 DEF RefuseWrites, Xfilepipe
  <2>2. ASSUME NEW id \in Ids
        PROVE  n(id) \in 0..Count /\ x.reply[id] \in Replies
    BY <1>1, Fields, Bounds DEF PipeInv, CountInv
  <2> HIDE DEF n, y
  <2>3. r \in [Ids -> Replies]
    BY <2>2 DEF Rwrite, Replies
  <2>4. ASSUME NEW id \in Ids
        PROVE  r[id].type # "waiting"
    <3>1. CASE id \in QueuedIds(x)
      BY <2>2, <3>1 DEF Rwrite, Replies
    <3>2. CASE id \notin QueuedIds(x)
      BY <3>2 DEF PipeInv, QueueInv, Waiting
    <3> QED BY <3>1, <3>2
  <2> HIDE DEF r
  <2>5. y \in Xfilepipe
    <3>1. <<>> \in Seq(Bytes) /\ <<>> \in Seq(Xpipereq)
      OBVIOUS
    <3> QED BY <1>1, <2>1, <2>3, <3>1 DEF Xfilepipe
  <2>6. /\ Same(x, y) /\ y.flags = x.flags /\ y.reqs = <<>> /\ y.buf = <<>>
        /\ y.reply = r /\ y.stream = x.stream /\ y.taken = x.taken
    BY <1>1, <2>1 DEF Same, Xfilepipe
  <2>7. \A id \in Ids : ~Waiting(y, id)
    BY <2>4, <2>6 DEF Waiting
  <2>8. QueueInv(y) /\ ClientInv(y)
    <3>1. QueuedIds(y) = {}
      BY <2>6, QueuedAt
    <3> QED BY <2>6, <2>7, <3>1 DEF QueueInv, ClientInv
  <2>9. CountInv(y)
    <3>1. Fill(y) = Fill(x) /\ Len(y.buf) = 0 /\ y.taken <= Len(y.stream)
      BY <2>6 DEF Fill, PipeInv, CountInv
    <3> QED BY <2>5, <2>6, <3>1, Bounds DEF PipeInv, CountInv, Same
  <2>10. PipeInv(y) /\ Together(x, y)
    BY <2>6, <2>8, <2>9 DEF PipeInv, StreamInv, DataInv, Together, Same
  <2> QED BY <2>6, <2>10 DEF y
<1> QED BY <1>2, <1>3

\* pip_disconnect, after the buffer got what was left in the pipe
LEMMA DisconnectKeeps ==
    ASSUME NEW x, PipeInv(x), x.direction = "Read" => ~x.peer /\ Fill(x) = 0
    PROVE  LET y == pip_disconnect(x)
           IN  /\ PipeInv(y) /\ Together(x, y) /\ ClosedInv(y)
               /\ y.direction = x.direction /\ y.peer = x.peer /\ ~y.lspfd
<1> DEFINE c == [x EXCEPT !.lspfd = FALSE]
           y == IF x.direction = "Read" THEN pip_read_buf(c) ELSE RefuseWrites(c)
<1>1. x \in Xfilepipe /\ x.direction \in {"Read", "Write"}
  BY Fields DEF PipeInv, CountInv
<1>2. pip_disconnect(x) = y
  BY DEF pip_disconnect
<1>3. c \in Xfilepipe
  BY <1>1 DEF Xfilepipe
<1>4. /\ c.direction = x.direction /\ c.peer = x.peer /\ ~c.lspfd /\ c.flags = x.flags
      /\ c.buf = x.buf /\ c.reqs = x.reqs /\ c.stream = x.stream /\ c.taken = x.taken
      /\ c.reply = x.reply
  BY <1>1 DEF Xfilepipe
<1> HIDE DEF c
<1>5. PipeInv(c) /\ Together(x, c) /\ Fill(c) = Fill(x)
  <2>1. \A id : Waiting(c, id) <=> Waiting(x, id)
    BY <1>4 DEF Waiting
  <2>2. QueuedIds(c) = QueuedIds(x) /\ Fill(c) = Fill(x) /\ Handed(c) = Handed(x)
    BY <1>4 DEF QueuedIds, Fill, Handed
  <2>3. CountInv(c) /\ QueueInv(c) /\ ClientInv(c)
    BY <1>3, <1>4, <2>1, <2>2 DEF PipeInv, CountInv, QueueInv, ClientInv
  <2>4. StreamInv(c) /\ DataInv(c)
    BY <1>4, <2>2 DEF PipeInv, StreamInv, DataInv
  <2> QED BY <1>4, <2>2, <2>3, <2>4 DEF PipeInv, Together
<1>6. /\ PipeInv(y) /\ Same(c, y) /\ Together(c, y) /\ y.reqs = <<>>
      /\ x.direction = "Read" => Fill(y) = Fill(c)
  <2>1. CASE x.direction = "Read"
    BY <1>4, <1>5, <2>1, ReadBufKeeps
  <2>2. CASE x.direction = "Write"
    BY <1>4, <1>5, <2>2, RefuseWritesKeeps
  <2> QED BY <1>1, <2>1, <2>2
<1> HIDE DEF y
<1>7. Together(x, y)
  BY <1>1, <1>4, <1>5, <1>6, TogetherAgain
<1>8. ClosedInv(y)
  <2>1. QueuedIds(y) = {}
    BY <1>6, QueuedAt
  <2>2. \A id \in Ids : ~Waiting(y, id)
    BY <1>6, <2>1 DEF PipeInv, QueueInv
  <2> QED BY <1>4, <1>5, <1>6, <2>2 DEF ClosedInv, Same
<1> QED BY <1>2, <1>4, <1>6, <1>7, <1>8 DEF Same

-----------------------------------------------------------------------------
(* pip_notify                                                              *)

\* What a notification of an open descriptor leaves
LEMMA NotifyKeeps ==
    ASSUME NEW x, PipeInv(x), x.lspfd
    PROVE  LET y == pip_notify(x)
           IN  /\ PipeInv(y) /\ Together(x, y) /\ y.direction = x.direction
               /\ y.lspfd => "Error" \notin y.flags
               /\ ~y.lspfd => ClosedInv(y)
<1> DEFINE y == IF Reads(x) THEN pip_read(x) ELSE x
           z == IF "Writable" \in y.flags THEN pip_write(y) ELSE y
           e == pip_read_eof(z)
<1>1. pip_notify(x) = IF "Error" \in z.flags THEN pip_disconnect(e) ELSE z
  BY DEF pip_notify
<1>2. x \in Xfilepipe
  BY DEF PipeInv, CountInv
<1>3. PipeInv(y) /\ Same(x, y) /\ Together(x, y)
  BY PipReadKeeps DEF Same, Together
<1> HIDE DEF y
<1>4. PipeInv(z) /\ Same(y, z) /\ Together(y, z)
  <2>1. CASE "Writable" \in y.flags
    BY <1>3, <2>1, PipWriteKeeps
  <2>2. CASE "Writable" \notin y.flags
    BY <1>3, <2>2 DEF Same, Together
  <2> QED BY <2>1, <2>2
<1> HIDE DEF z
<1>5. Same(x, z) /\ Together(x, z)
  BY <1>2, <1>3, <1>4, TogetherAgain DEF Same
<1>6. CASE "Error" \notin z.flags
  BY <1>1, <1>4, <1>5, <1>6 DEF Same
<1>7. CASE "Error" \in z.flags
  <2>1. z \in Xfilepipe /\ z.taken <= Len(z.stream) /\ ~z.peer
    BY <1>4, <1>7 DEF PipeInv, CountInv
  <2>2. Fill(z) \in Nat
    BY <2>1, Fields DEF Fill
  <2>3. PipeInv(e) /\ Same(z, e) /\ Together(z, e) /\ Fill(e) = Fill(z) - Taken(z, Fill(z))
    BY <1>4, <2>2, SpfdReadKeeps DEF pip_read_eof
  <2> HIDE DEF e
  <2>4. e.direction = "Read" => ~e.peer /\ Fill(e) = 0
    BY <2>1, <2>2, <2>3 DEF Taken, Same
  <2> DEFINE d == pip_disconnect(e)
  <2>5. PipeInv(d) /\ Together(e, d) /\ ClosedInv(d) /\ d.direction = e.direction /\ ~d.lspfd
    BY <2>3, <2>4, DisconnectKeeps
  <2>6. pip_notify(x) = d
    BY <1>1, <1>7
  <2> HIDE DEF d
  <2>7. Together(x, e) /\ Same(x, e)
    BY <1>2, <1>5, <2>3, TogetherAgain DEF Same
  <2>8. Together(x, d)
    BY <1>2, <2>5, <2>7, TogetherAgain DEF Same
  <2> QED BY <2>5, <2>6, <2>7, <2>8 DEF Same
<1> QED BY <1>6, <1>7

-----------------------------------------------------------------------------
(* pip_addreq                                                              *)

\* The queue q is s with r at place k; what was at place i is at p[i].
IsQueued(q, s, r, k, p) ==
    /\ q \in Seq(Xpipereq) /\ DOMAIN q = 1..(Len(s) + 1) /\ q[k] = r
    /\ \A i \in DOMAIN s : q[p[i]] = s[i]
    /\ \A j \in (1..(Len(s) + 1)) \ {k} : \E i \in DOMAIN s : p[i] = j

\* The new request is at some place of the queue.
LEMMA QueuedElements ==
    ASSUME NEW s \in Seq(Xpipereq), NEW r \in Xpipereq
    PROVE  \E k \in 1..(Len(s) + 1) : \E p \in [DOMAIN s -> (1..(Len(s) + 1)) \ {k}] :
               IsQueued(Queued(s, r), s, r, k, p)
<1> DEFINE later == {i \in DOMAIN s : s[i].fid > r.fid}
           k == IF later = {} THEN Len(s) + 1 ELSE Min(later)
<1>1. Len(s) \in Nat /\ DOMAIN s = 1..Len(s)
  OBVIOUS
<1>2. k \in 1..(Len(s) + 1)
  <2>1. CASE later = {}
    BY <1>1, <2>1
  <2>2. CASE later # {}
    <3>1. later \in SUBSET Nat
      BY <1>1
    <3>2. Min(later) \in later
      BY <2>2, <3>1, MinMember
    <3> QED BY <1>1, <2>2, <3>2
  <2> QED BY <2>1, <2>2
<1>3. Queued(s, r) = InsertAt(s, k, r)
  BY DEF Queued
<1> HIDE DEF k
<1> DEFINE q == Queued(s, r)
<1>4. /\ q \in Seq(Xpipereq) /\ Len(q) = Len(s) + 1
      /\ \A i \in 1..(Len(s) + 1) : q[i] = IF i < k THEN s[i] ELSE IF i = k THEN r ELSE s[i - 1]
  <2> DEFINE t == InsertAt(s, k, r)
  <2>1. /\ t \in Seq(Xpipereq) /\ Len(t) = Len(s) + 1
        /\ \A i \in 1..(Len(s) + 1) : t[i] = IF i < k THEN s[i] ELSE IF i = k THEN r ELSE s[i - 1]
    <3> HIDE DEF k
    <3> QED BY <1>2, Inserted
  <2>2. q = t
    BY <1>3
  <2> HIDE DEF q, t
  <2> QED BY <2>1, <2>2
<1> DEFINE p == [i \in DOMAIN s |-> IF i < k THEN i ELSE i + 1]
<1>5. p \in [DOMAIN s -> (1..(Len(s) + 1)) \ {k}]
  <2>1. ASSUME NEW i \in 1..Len(s)
        PROVE  (IF i < k THEN i ELSE i + 1) \in (1..(Len(s) + 1)) \ {k}
    BY <1>1, <1>2
  <2> QED BY <1>1, <2>1
<1> HIDE DEF q
<1>6. DOMAIN q = 1..(Len(s) + 1) /\ q[k] = r
  BY <1>1, <1>2, <1>4
<1>7. ASSUME NEW i \in DOMAIN s
      PROVE  q[p[i]] = s[i]
  BY <1>1, <1>2, <1>4
<1>8. ASSUME NEW j \in (1..(Len(s) + 1)) \ {k}
      PROVE  \E i \in DOMAIN s : p[i] = j
  <2> DEFINE i == IF j < k THEN j ELSE j - 1
  <2>1. i \in DOMAIN s /\ p[i] = j
    BY <1>1, <1>2
  <2> QED BY <2>1
<1> HIDE DEF p
<1>9. IsQueued(q, s, r, k, p)
  BY <1>4, <1>6, <1>7, <1>8 DEF IsQueued
<1> QED BY <1>2, <1>5, <1>9 DEF q

\* A request is sent: it is in the queue, and waits.
Sent(x, f, id) ==
    [x EXCEPT !.reqs = Queued(@, [fid |-> f, id |-> id]),
              !.reply[id].type = "waiting", !.reply[id].fid = f]

\* A request that is sent changes the queue and its own reply.
LEMMA SentFields ==
    ASSUME NEW x \in Xfilepipe, NEW f \in Readers \cup Writers, NEW id \in Ids
    PROVE  LET y == Sent(x, f, id)
           IN  /\ y \in Xfilepipe /\ Same(x, y)
               /\ y.flags = x.flags /\ y.buf = x.buf /\ y.stream = x.stream
               /\ y.taken = x.taken
               /\ y.reqs = Queued(x.reqs, [fid |-> f, id |-> id])
               /\ y.reply[id].type = "waiting" /\ y.reply[id].fid = f
               /\ y.reply[id].data = x.reply[id].data
               /\ \A i \in Ids \ {id} : y.reply[i] = x.reply[i]
<1> DEFINE r == [fid |-> f, id |-> id]
           q == Queued(x.reqs, r)
           w == [x.reply[id] EXCEPT !.type = "waiting", !.fid = f]
           y == Sent(x, f, id)
<1>1. r \in Xpipereq
  BY DEF Xpipereq
<1> HIDE DEF r
<1>2. q \in Seq(Xpipereq)
  BY <1>1, Fields, QueuedElements DEF IsQueued
<1>3. x.reply \in [Ids -> Replies] /\ x.reply[id] \in Replies
  BY Fields
<1>4. w \in Replies /\ w.type = "waiting" /\ w.fid = f /\ w.data = x.reply[id].data
  BY <1>3 DEF Replies
<1>5. y = [x EXCEPT !.reqs = q, !.reply = [x.reply EXCEPT ![id] = w]]
  BY <1>3 DEF Sent, Xfilepipe, Replies, r
<1> HIDE DEF w, q, y
<1>6. [x.reply EXCEPT ![id] = w] \in [Ids -> Replies]
  BY <1>3, <1>4
<1>7. y \in Xfilepipe
  BY <1>2, <1>5, <1>6 DEF Xfilepipe
<1>8. /\ Same(x, y) /\ y.flags = x.flags /\ y.buf = x.buf /\ y.stream = x.stream
      /\ y.taken = x.taken /\ y.reqs = q /\ y.reply = [x.reply EXCEPT ![id] = w]
  BY <1>5 DEF Same, Xfilepipe
<1>9. y.reply[id] = w /\ \A i \in Ids \ {id} : y.reply[i] = x.reply[i]
  BY <1>3, <1>8
<1> QED BY <1>4, <1>7, <1>8, <1>9 DEF q, y, r

\* What a client that obeys the rules may send.
MaySend(x, f, id) ==
    /\ \A i \in Ids : x.reply[i].type = "unsent" <=> i >= id
    /\ x.direction = "Read" => \A i \in Ids : Waiting(x, i) => x.reply[i].fid # f
    /\ x.direction = "Write" => \A i \in Ids : Waiting(x, i) => x.reply[i].fid = f

\* A new request in the queue of an open descriptor, or of one that has bytes left.
LEMMA SentKeeps ==
    ASSUME NEW x, PipeInv(x), NEW f \in Readers \cup Writers, NEW id \in Ids, MaySend(x, f, id)
    PROVE  PipeInv(Sent(x, f, id))
<1> DEFINE y == Sent(x, f, id)
           r == [fid |-> f, id |-> id]
<1>1. x \in Xfilepipe /\ id \in Int /\ x.reply[id].type = "unsent"
  BY Bounds DEF PipeInv, CountInv, MaySend, Ids
<1>2. /\ y \in Xfilepipe /\ Same(x, y)
      /\ y.flags = x.flags /\ y.buf = x.buf /\ y.stream = x.stream
      /\ y.taken = x.taken /\ y.reqs = Queued(x.reqs, r)
      /\ y.reply[id].type = "waiting" /\ y.reply[id].fid = f
      /\ y.reply[id].data = x.reply[id].data
      /\ \A i \in Ids \ {id} : y.reply[i] = x.reply[i]
  BY <1>1, SentFields
<1>3. r \in Xpipereq
  BY DEF Xpipereq
<1>4. Fill(y) = Fill(x) /\ Handed(y) = Handed(x)
  BY <1>2 DEF Fill, Handed
<1> HIDE DEF y, r
<1>5. CountInv(y)
  BY <1>2, <1>4 DEF PipeInv, CountInv, Same
<1>6. ASSUME NEW i \in Ids
      PROVE  Waiting(y, i) <=> Waiting(x, i) \/ i = id
  BY <1>2 DEF Waiting
<1>7. QueueInv(y)
  <2>1. x.reqs \in Seq(Xpipereq) /\ Len(x.reqs) \in Nat /\ DOMAIN x.reqs = 1..Len(x.reqs)
    BY <1>1, Fields
  <2>2. PICK k \in 1..(Len(x.reqs) + 1) :
            \E p \in [DOMAIN x.reqs -> (1..(Len(x.reqs) + 1)) \ {k}] :
                IsQueued(Queued(x.reqs, r), x.reqs, r, k, p)
    BY <1>3, <2>1, QueuedElements
  <2>3. PICK p \in [DOMAIN x.reqs -> (1..(Len(x.reqs) + 1)) \ {k}] :
            IsQueued(y.reqs, x.reqs, r, k, p)
    BY <1>2, <2>2
  <2>4. /\ DOMAIN y.reqs = 1..(Len(x.reqs) + 1)
        /\ y.reqs[k] = r
        /\ \A i \in DOMAIN x.reqs : y.reqs[p[i]] = x.reqs[i]
        /\ \A j \in (1..(Len(x.reqs) + 1)) \ {k} : \E i \in DOMAIN x.reqs : p[i] = j
    BY <2>3 DEF IsQueued
  <2>5. r.id = id /\ r.fid = f
    BY DEF r
  <2>6. \A i \in DOMAIN x.reqs : x.reqs[i].id \in Ids /\ x.reqs[i].id # id
    <3>1. ~Waiting(x, id)
      BY <1>1 DEF Waiting
    <3> QED BY <1>1, <3>1, Fields, QueuedAt DEF PipeInv, QueueInv
  \* A place of the new queue is k, or comes from one of the old queue.
  <2>7. ASSUME NEW j \in DOMAIN y.reqs, j # k
        PROVE  \E i \in DOMAIN x.reqs : p[i] = j /\ y.reqs[j] = x.reqs[i]
    <3>1. PICK i \in DOMAIN x.reqs : p[i] = j
      BY <2>4, <2>7
    <3> QED BY <2>4, <3>1
  <2>8. QueuedIds(y) = QueuedIds(x) \cup {id}
    <3>1. ASSUME NEW j \in DOMAIN y.reqs
          PROVE  y.reqs[j].id \in QueuedIds(x) \cup {id}
      BY <2>4, <2>5, <2>7, QueuedAt
    <3>2. id \in QueuedIds(y)
      BY <2>4, <2>5, QueuedAt
    <3>3. ASSUME NEW i \in DOMAIN x.reqs
          PROVE  x.reqs[i].id \in QueuedIds(y)
      <4>1. p[i] \in DOMAIN y.reqs /\ y.reqs[p[i]] = x.reqs[i]
        BY <2>4
      <4> QED BY <4>1, QueuedAt
    <3> QED BY <3>1, <3>2, <3>3, QueuedAt
  <2>9. {i \in Ids : Waiting(y, i)} = QueuedIds(y)
    BY <1>6, <2>8 DEF PipeInv, QueueInv
  <2>10. ASSUME NEW i \in DOMAIN y.reqs, NEW j \in DOMAIN y.reqs, y.reqs[i].id = y.reqs[j].id
        PROVE  i = j
    <3>1. CASE i = k \/ j = k
      BY <2>4, <2>5, <2>6, <2>7, <2>10, <3>1
    <3>2. CASE i # k /\ j # k
      BY <2>7, <2>10, <3>2 DEF PipeInv, QueueInv
    <3> QED BY <3>1, <3>2
  <2>11. ASSUME NEW i \in DOMAIN y.reqs
        PROVE  y.reply[y.reqs[i].id].fid = y.reqs[i].fid
    <3>1. ASSUME NEW j \in DOMAIN x.reqs
          PROVE  y.reply[x.reqs[j].id].fid = x.reqs[j].fid
      BY <1>2, <2>6 DEF PipeInv, QueueInv
    <3>2. CASE i = k
      BY <1>2, <2>4, <2>5, <3>2
    <3>3. CASE i # k
      BY <2>7, <3>1, <3>3
    <3> QED BY <3>2, <3>3
  <2> QED BY <2>9, <2>10, <2>11 DEF QueueInv
<1>8. ClientInv(y)
  <2>1. ASSUME NEW i \in Ids, NEW j \in Ids, Waiting(y, i), y.direction = "Read", i < j,
               y.reply[j].type # "unsent"
        PROVE  y.reply[i].fid # y.reply[j].fid
    <3>1. i # id
      <4>1. SUFFICES ASSUME i = id PROVE FALSE
        OBVIOUS
      <4>2. x.reply[j].type = "unsent" /\ j # id
        BY <2>1, <4>1, Bounds DEF MaySend, Ids
      <4> QED BY <1>2, <2>1, <4>2
    <3>2. Waiting(x, i)
      BY <1>6, <2>1, <3>1
    <3>3. CASE j = id
      BY <1>2, <2>1, <3>1, <3>2, <3>3 DEF MaySend, Same
    <3>4. CASE j # id
      BY <1>2, <2>1, <3>1, <3>2, <3>4 DEF PipeInv, ClientInv, Same
    <3> QED BY <3>3, <3>4
  <2>2. ASSUME NEW i \in Ids, NEW j \in Ids, Waiting(y, i), Waiting(y, j), y.direction = "Write"
        PROVE  y.reply[i].fid = y.reply[j].fid
    <3>1. ASSUME NEW n \in Ids, Waiting(y, n)
          PROVE  y.reply[n].fid = f
      BY <1>2, <1>6, <2>2, <3>1 DEF MaySend, Same
    <3> QED BY <2>2, <3>1
  <2> QED BY <2>1, <2>2 DEF ClientInv
<1>9. StreamInv(y)
  BY <1>2, <1>4 DEF PipeInv, StreamInv, Same
<1>10. DataInv(y)
  <2>1. SUFFICES ASSUME x.direction = "Read" PROVE DataInv(y)
    BY <1>2 DEF DataInv, Same
  <2>2. x.reply[id].data = <<>>
    BY <1>1, <2>1 DEF PipeInv, DataInv
  <2>3. \A i \in Ids : /\ y.reply[i].data = x.reply[i].data
                       /\ y.reply[i].data # <<>> => y.reply[i] = x.reply[i]
                       /\ y.reply[i].type = "Rread" => y.reply[i] = x.reply[i]
    BY <1>2, <2>2
  <2>4. ASSUME NEW i \in Ids, NEW j \in Ids, i < j, y.reply[i].fid = y.reply[j].fid,
               NEW k \in 1..Len(y.reply[i].data), NEW l \in 1..Len(y.reply[j].data)
        PROVE  y.reply[i].data[k][2] < y.reply[j].data[l][2]
    <3>1. y.reply[i].data # <<>> /\ y.reply[j].data # <<>>
      BY <2>4
    <3>2. y.reply[i] = x.reply[i] /\ y.reply[j] = x.reply[j]
      BY <2>3, <3>1
    <3> QED BY <2>1, <2>4, <3>2 DEF PipeInv, DataInv
  <2>5. \A i \in Ids : y.reply[i].data # <<>> => y.reply[i].type = "Rread"
    BY <2>1, <2>3 DEF PipeInv, DataInv
  <2>6. \A i \in Ids : (y.reply[i].type = "Rread" /\ y.reply[i].data = <<>>)
                           => ~y.peer /\ Fill(y) = 0
    BY <1>2, <1>4, <2>1, <2>3 DEF PipeInv, DataInv, Same
  <2>7. \A i \in Ids : \A k \in 1..Len(y.reply[i].data) : y.reply[i].data[k][2] <= Handed(y)
    BY <1>4, <2>1, <2>3 DEF PipeInv, DataInv
  <2>8. \A n \in 1..Handed(y) : \E i \in Ids : \E k \in 1..Len(y.reply[i].data) :
            y.reply[i].data[k] = <<0, n>>
    BY <1>4, <2>1, <2>3 DEF PipeInv, DataInv
  <2> QED BY <2>4, <2>5, <2>6, <2>7, <2>8 DEF DataInv
<1> QED BY <1>5, <1>7, <1>8, <1>9, <1>10 DEF PipeInv, y

\* The reads that waited are answered together, and with the same data, or none is;
\* none is answered as a write.
Alike(x, y) ==
    x.direction = "Read" =>
        /\ \A i, j \in Ids : (Waiting(x, i) /\ Waiting(x, j) /\ y.reply[i].type = "Rread") =>
               y.reply[j].type = "Rread" /\ y.reply[j].data = y.reply[i].data
        /\ \A i \in Ids : y.reply[i].type = "Rwrite" => x.reply[i].type = "Rwrite"

\* A function that answers together answers alike.
LEMMA TogetherAlike ==
    ASSUME NEW x, x \in Xfilepipe, NEW y, Together(x, y)
    PROVE  Alike(x, y)
<1> SUFFICES ASSUME x.direction = "Read" PROVE Alike(x, y)
  BY DEF Alike
<1>1. CASE y.reply = x.reply
  BY <1>1 DEF Alike, Waiting
<1>2. CASE \E data : y.reply = [id \in Ids |-> IF Waiting(x, id)
                                               THEN Rread(x.reply[id], data) ELSE x.reply[id]]
  <2>1. PICK data : y.reply = [id \in Ids |-> IF Waiting(x, id)
                                              THEN Rread(x.reply[id], data) ELSE x.reply[id]]
    BY <1>2
  <2>2. ASSUME NEW i \in Ids
        PROVE  IF Waiting(x, i) THEN y.reply[i].type = "Rread" /\ y.reply[i].data = data
                                ELSE y.reply[i] = x.reply[i]
    <3>1. x.reply[i] \in Replies
      BY Fields
    <3>2. Rread(x.reply[i], data).type = "Rread" /\ Rread(x.reply[i], data).data = data
      BY <3>1 DEF Rread, Replies
    <3> QED BY <2>1, <3>2
  <2> QED BY <2>2 DEF Alike
<1> QED BY <1>1, <1>2 DEF Together

\* A notification of an open descriptor is a step.
LEMMA NotifyStable ==
    ASSUME NEW x, PipeInv(x), x.lspfd
    PROVE  LET y == pip_notify(x)
           IN  StableInv(y) /\ Alike(x, y) /\ y.direction = x.direction
<1> DEFINE y == pip_notify(x)
<1>1. /\ PipeInv(y) /\ Together(x, y) /\ y.direction = x.direction
      /\ y.lspfd => "Error" \notin y.flags
      /\ ~y.lspfd => ClosedInv(y)
  BY NotifyKeeps
<1> HIDE DEF y
<1>2. Alike(x, y)
  BY <1>1, TogetherAlike DEF PipeInv, CountInv
<1>3. StableInv(y)
  BY <1>1 DEF PipeInv, StableInv
<1> QED BY <1>1, <1>2, <1>3 DEF y

\* A request on a closed descriptor that is answered without data
LEMMA AnsweredEmpty ==
    ASSUME NEW x, StableInv(x), ~x.lspfd, NEW f \in Readers \cup Writers, NEW id \in Ids,
           MaySend(x, f, id), NEW w \in Replies, w.type \in {"Rread", "Rerror"}, w.fid = f,
           x.direction = "Read" => x.buf = <<>> /\ w.data = <<>>
    PROVE  LET s == Sent(x, f, id)
           IN  StableInv([s EXCEPT !.reply = [s.reply EXCEPT ![id] = w]])
<1> DEFINE s == Sent(x, f, id)
<1>1. x \in Xfilepipe /\ CountInv(x) /\ ClosedInv(x)
  BY DEF StableInv, CountInv
<1>2. /\ s \in Xfilepipe /\ Same(x, s)
      /\ s.flags = x.flags /\ s.buf = x.buf /\ s.stream = x.stream
      /\ s.taken = x.taken
      /\ s.reqs = Queued(x.reqs, [fid |-> f, id |-> id])
      /\ s.reply[id].type = "waiting" /\ s.reply[id].fid = f
      /\ s.reply[id].data = x.reply[id].data
      /\ \A i \in Ids \ {id} : s.reply[i] = x.reply[i]
  BY <1>1, SentFields
<1> HIDE DEF s
<1> DEFINE r == [s.reply EXCEPT ![id] = w]
           y == [s EXCEPT !.reply = r]
<1>3. r \in [Ids -> Replies] /\ r[id] = w /\ \A i \in Ids \ {id} : r[i] = x.reply[i]
  BY <1>2, Fields
<1> HIDE DEF r
<1>4. y \in Xfilepipe
  BY <1>2, <1>3 DEF Xfilepipe
<1>5. /\ y.direction = x.direction /\ y.lspfd = x.lspfd /\ y.peer = x.peer
      /\ y.flags = x.flags /\ y.buf = x.buf /\ y.stream = x.stream /\ y.taken = x.taken
      /\ y.reply = r
  BY <1>2 DEF Xfilepipe, Same
<1> HIDE DEF y
<1>6. Fill(y) = Fill(x) /\ Handed(y) = Handed(x)
  BY <1>5 DEF Fill, Handed
<1>7. CountInv(y)
  BY <1>1, <1>4, <1>5, <1>6 DEF CountInv
<1>8. \A i \in Ids : ~Waiting(y, i)
  BY <1>1, <1>3, <1>5 DEF Waiting, ClosedInv
<1>9. ClientInv(y)
  BY <1>8 DEF ClientInv
<1>10. StreamInv(y)
  BY <1>5, <1>6 DEF StableInv, StreamInv
<1>11. DataInv(y)
  <2> SUFFICES ASSUME x.direction = "Read" PROVE DataInv(y)
    BY <1>5 DEF DataInv
  <2>1. x.reply[id].type = "unsent"
    BY Bounds DEF MaySend, Ids
  <2>2. x.reply[id].data = <<>>
    BY <2>1 DEF StableInv, DataInv
  <2>3. \A i \in Ids : y.reply[i].data = x.reply[i].data
    BY <1>3, <1>5, <2>2
  <2>4. \A i \in Ids : i # id => y.reply[i] = x.reply[i]
    BY <1>3, <1>5
  <2>5. ASSUME NEW i \in Ids, NEW j \in Ids, i < j, y.reply[i].fid = y.reply[j].fid,
               NEW k \in 1..Len(y.reply[i].data), NEW l \in 1..Len(y.reply[j].data)
        PROVE  y.reply[i].data[k][2] < y.reply[j].data[l][2]
    <3>1. y.reply[i].data # <<>> /\ y.reply[j].data # <<>>
      BY <2>5
    <3>2. y.reply[i] = x.reply[i] /\ y.reply[j] = x.reply[j]
      BY <2>2, <2>3, <2>4, <3>1
    <3> QED BY <2>5, <3>2 DEF StableInv, DataInv
  <2>6. \A i \in Ids : y.reply[i].data # <<>> => y.reply[i].type = "Rread"
    BY <2>2, <2>3, <2>4 DEF StableInv, DataInv
  <2>7. \A i \in Ids : (y.reply[i].type = "Rread" /\ y.reply[i].data = <<>>)
                           => ~y.peer /\ Fill(y) = 0
    BY <1>1, <1>5, <1>6 DEF ClosedInv
  <2>8. \A i \in Ids : \A k \in 1..Len(y.reply[i].data) : y.reply[i].data[k][2] <= Handed(y)
    BY <1>6, <2>3 DEF StableInv, DataInv
  <2>9. \A n \in 1..Handed(y) : \E i \in Ids : \E k \in 1..Len(y.reply[i].data) :
            y.reply[i].data[k] = <<0, n>>
    BY <1>6, <2>3 DEF StableInv, DataInv
  <2> QED BY <2>5, <2>6, <2>7, <2>8, <2>9 DEF DataInv
<1>12. ClosedInv(y)
  BY <1>1, <1>5, <1>6, <1>8 DEF ClosedInv
<1> QED BY <1>5, <1>7, <1>9, <1>10, <1>11, <1>12 DEF StableInv, y, r, s

\* pip_addreq, whether the descriptor is open or closed
LEMMA AddedKeeps ==
    ASSUME NEW x, StableInv(x), NEW f \in Readers \cup Writers, NEW id \in Ids, MaySend(x, f, id)
    PROVE  LET y == Added(x, [fid |-> f, id |-> id])
           IN  StableInv(y) /\ Alike(x, y) /\ y.direction = x.direction
<1> DEFINE s == Sent(x, f, id)
           y == Added(x, [fid |-> f, id |-> id])
<1>1. x \in Xfilepipe /\ x.reply[id].type = "unsent" /\ x.direction \in {"Read", "Write"}
  BY Bounds, Fields DEF StableInv, CountInv, MaySend, Ids
<1>2. y = IF x.lspfd THEN pip_notify(s)
          ELSE IF x.direction = "Write" THEN [s EXCEPT !.reply[id].type = "Rerror"]
          ELSE IF x.buf = <<>> THEN [s EXCEPT !.reply[id] = Rread(@, <<>>)]
          ELSE pip_read_buf(s)
  BY DEF Added, Sent
<1>3. /\ s \in Xfilepipe /\ Same(x, s)
      /\ s.flags = x.flags /\ s.buf = x.buf /\ s.stream = x.stream
      /\ s.taken = x.taken
      /\ s.reqs = Queued(x.reqs, [fid |-> f, id |-> id])
      /\ s.reply[id].type = "waiting" /\ s.reply[id].fid = f
      /\ s.reply[id].data = x.reply[id].data
      /\ \A i \in Ids \ {id} : s.reply[i] = x.reply[i]
  BY <1>1, SentFields
<1>4. PipeInv(x) => PipeInv(s)
  BY SentKeeps
<1> HIDE DEF s, y
<1>5. s.reply \in [Ids -> Replies] /\ s.reply[id] \in Replies
  BY <1>3, Fields
<1>6. CASE x.lspfd
  <2> DEFINE z == pip_notify(s)
  <2>1. PipeInv(s) /\ s.lspfd /\ s.direction = x.direction
    BY <1>3, <1>4, <1>6 DEF StableInv, PipeInv, Same
  <2>2. StableInv(z) /\ Alike(s, z) /\ z.direction = s.direction
    BY <2>1, NotifyStable
  <2>3. y = z
    BY <1>2, <1>6
  <2> HIDE DEF z
  <2>4. \A i \in Ids : /\ Waiting(x, i) => Waiting(s, i)
                       /\ s.reply[i].type = "Rwrite" => x.reply[i].type = "Rwrite"
    BY <1>3 DEF Waiting
  <2>5. Alike(x, y)
    BY <2>1, <2>2, <2>3, <2>4 DEF Alike
  <2> QED BY <2>1, <2>2, <2>3, <2>5 DEF y
<1>7. CASE ~x.lspfd
  <2>1. ClosedInv(x) /\ \A i \in Ids : ~Waiting(x, i)
    BY <1>7 DEF StableInv, ClosedInv
  <2>2. ASSUME \A i \in Ids : y.reply[i].type = "Rwrite" => x.reply[i].type = "Rwrite"
        PROVE  Alike(x, y)
    BY <2>1, <2>2 DEF Alike
  <2>3. CASE x.direction = "Write"
    <3> DEFINE w == [s.reply[id] EXCEPT !.type = "Rerror"]
    <3>1. w \in Replies /\ w.type = "Rerror" /\ w.fid = f
      BY <1>3, <1>5 DEF Replies
    <3>2. y = [s EXCEPT !.reply = [s.reply EXCEPT ![id] = w]]
      BY <1>2, <1>3, <1>5, <1>7, <2>3 DEF Xfilepipe
    <3> HIDE DEF w
    <3>3. StableInv([s EXCEPT !.reply = [s.reply EXCEPT ![id] = w]])
      BY <1>7, <2>3, <3>1, AnsweredEmpty DEF s
    <3>4. y.direction = x.direction
      BY <1>3, <3>2 DEF Xfilepipe, Same
    <3>5. Alike(x, y)
      BY <2>3 DEF Alike
    <3> QED BY <3>2, <3>3, <3>4, <3>5 DEF y
  <2>4. CASE x.direction = "Read" /\ x.buf = <<>>
    <3> DEFINE w == Rread(s.reply[id], <<>>)
    <3>1. <<>> \in Seq(Bytes)
      OBVIOUS
    <3>2. w \in Replies /\ w.type = "Rread" /\ w.fid = f /\ w.data = <<>>
      BY <1>3, <1>5, <3>1 DEF Replies, Rread
    <3>3. y = [s EXCEPT !.reply = [s.reply EXCEPT ![id] = w]]
      BY <1>2, <1>3, <1>5, <1>7, <2>4 DEF Xfilepipe
    <3> HIDE DEF w
    <3>4. StableInv([s EXCEPT !.reply = [s.reply EXCEPT ![id] = w]])
      BY <1>7, <2>4, <3>2, AnsweredEmpty DEF s
    <3>5. y.direction = x.direction
      BY <1>3, <3>3 DEF Xfilepipe, Same
    <3>6. y.reply[id] = w /\ \A i \in Ids \ {id} : y.reply[i] = x.reply[i]
      BY <1>3, <1>5, <3>3 DEF Xfilepipe
    <3>7. Alike(x, y)
      BY <2>2, <3>2, <3>6
    <3> QED BY <3>3, <3>4, <3>5, <3>7 DEF y
  <2>5. CASE x.direction = "Read" /\ x.buf # <<>>
    <3> DEFINE z == pip_read_buf(s)
    <3>1. x.reqs = <<>>
      BY <2>1, <2>5 DEF ClosedInv
    <3>2. QueuedIds(x) = {}
      BY <3>1, QueuedAt
    <3>3. PipeInv(x)
      BY <2>1, <3>1, <3>2 DEF StableInv, PipeInv, QueueInv
    <3>4. PipeInv(s) /\ s.buf # <<>> /\ s.direction = "Read"
      BY <1>3, <1>4, <2>5, <3>3 DEF Same
    <3>5. /\ PipeInv(z) /\ Same(s, z) /\ z.flags = s.flags /\ Fill(z) = Fill(s)
          /\ z.reqs = <<>> /\ Together(s, z)
      BY <3>4, ReadBufKeeps
    <3>6. y = z
      BY <1>2, <1>7, <2>5
    <3> HIDE DEF z
    <3>7. \A i \in Ids : ~Waiting(z, i)
      <4>1. QueuedIds(z) = {}
        BY <3>5, QueuedAt
      <4> QED BY <3>5, <4>1 DEF PipeInv, QueueInv
    <3>8. Fill(z) = Fill(x) /\ z.peer = x.peer /\ z.direction = x.direction /\ ~z.lspfd
      BY <1>3, <1>7, <3>5 DEF Fill, Same
    <3>9. ClosedInv(z)
      BY <2>1, <2>5, <3>5, <3>7, <3>8 DEF ClosedInv
    <3>10. Alike(x, y)
      <4>1. Alike(s, z)
        BY <1>3, <3>5, TogetherAlike
      <4>2. \A i \in Ids : s.reply[i].type = "Rwrite" => x.reply[i].type = "Rwrite"
        BY <1>3
      <4> QED BY <2>2, <3>4, <3>6, <4>1, <4>2 DEF Alike
    <3> QED BY <3>5, <3>6, <3>8, <3>9, <3>10 DEF PipeInv, StableInv, y
  <2> QED BY <1>1, <2>3, <2>4, <2>5
<1>8. x.lspfd \in BOOLEAN
  BY <1>1, Fields
<1> QED BY <1>6, <1>7, <1>8 DEF y

-----------------------------------------------------------------------------
(* pip_flushreq, sp_poll_once and the process                              *)

\* A request that waits in an open queue is taken out of it.
LEMMA FlushKeeps ==
    ASSUME NEW x, StableInv(x), NEW id \in Ids, Waiting(x, id), NEW i \in DOMAIN x.reqs,
           x.reqs[i].id = id
    PROVE  LET y == [x EXCEPT !.reqs = RemoveAt(@, i), !.reply[id].type = "Rflush"]
           IN  StableInv(y) /\ Alike(x, y) /\ y.direction = x.direction
<1> DEFINE q == RemoveAt(x.reqs, i)
           w == [x.reply[id] EXCEPT !.type = "Rflush"]
           r == [x.reply EXCEPT ![id] = w]
           y == [x EXCEPT !.reqs = q, !.reply = r]
<1>1. x \in Xfilepipe /\ CountInv(x)
  BY DEF StableInv, CountInv
<1>2. /\ x.reply \in [Ids -> Replies] /\ x.reply[id] \in Replies
      /\ x.reqs \in Seq(Xpipereq) /\ Len(x.reqs) \in Nat /\ DOMAIN x.reqs = 1..Len(x.reqs)
  BY <1>1, Fields
<1>3. x.lspfd /\ QueueInv(x)
  BY DEF StableInv, ClosedInv
<1>4. y = [x EXCEPT !.reqs = RemoveAt(@, i), !.reply[id].type = "Rflush"]
  BY <1>1, <1>2 DEF Xfilepipe
<1>5. w \in Replies /\ w.type = "Rflush" /\ w.fid = x.reply[id].fid /\ w.data = x.reply[id].data
  BY <1>2 DEF Replies
<1>6. /\ q \in Seq(Xpipereq) /\ Len(q) = Len(x.reqs) - 1
      /\ \A j \in 1..(Len(x.reqs) - 1) : q[j] = IF j < i THEN x.reqs[j] ELSE x.reqs[j + 1]
  BY <1>2, Removed
<1> HIDE DEF w, q
<1>7. r \in [Ids -> Replies] /\ r[id] = w /\ \A j \in Ids \ {id} : r[j] = x.reply[j]
  BY <1>2, <1>5
<1> HIDE DEF r
<1>8. y \in Xfilepipe
  BY <1>1, <1>6, <1>7 DEF Xfilepipe
<1>9. /\ y.direction = x.direction /\ y.lspfd = x.lspfd /\ y.peer = x.peer
      /\ y.flags = x.flags /\ y.buf = x.buf /\ y.stream = x.stream /\ y.taken = x.taken
      /\ y.reqs = q /\ y.reply = r
  BY <1>1 DEF Xfilepipe
<1> HIDE DEF y
<1>10. Fill(y) = Fill(x) /\ Handed(y) = Handed(x)
  BY <1>9 DEF Fill, Handed
<1>11. \A j \in Ids : /\ Waiting(y, j) <=> Waiting(x, j) /\ j # id
                      /\ y.reply[j].fid = x.reply[j].fid
                      /\ y.reply[j].data = x.reply[j].data
                      /\ y.reply[j].type = "unsent" <=> x.reply[j].type = "unsent"
                      /\ y.reply[j].type = "Rread" <=> x.reply[j].type = "Rread"
  BY <1>5, <1>7, <1>9 DEF Waiting
<1>12. QueueInv(y)
  \* A place of the new queue comes from one of the old queue that is not i.
  <2> DEFINE p == [j \in DOMAIN q |-> IF j < i THEN j ELSE j + 1]
  <2>1. DOMAIN q = 1..(Len(x.reqs) - 1)
    BY <1>2, <1>6
  <2>2. /\ p \in [DOMAIN q -> DOMAIN x.reqs \ {i}]
        /\ \A j \in DOMAIN q : q[j] = x.reqs[p[j]]
        /\ \A j, k \in DOMAIN q : p[j] = p[k] => j = k
    <3>1. ASSUME NEW j \in DOMAIN q
          PROVE  /\ p[j] = IF j < i THEN j ELSE j + 1
                 /\ p[j] \in DOMAIN x.reqs \ {i} /\ q[j] = x.reqs[p[j]] /\ j \in Int
      <4>1. p[j] = IF j < i THEN j ELSE j + 1
        OBVIOUS
      <4> HIDE DEF p
      <4>2. /\ j \in 1..(Len(x.reqs) - 1) /\ i \in 1..Len(x.reqs)
            /\ q[j] = IF j < i THEN x.reqs[j] ELSE x.reqs[j + 1]
        BY <1>2, <1>6, <2>1
      <4>3. q[j] = x.reqs[p[j]]
        BY <4>1, <4>2
      <4>4. p[j] \in 1..Len(x.reqs) /\ p[j] # i
        BY <1>2, <4>1, <4>2
      <4> QED BY <1>2, <4>1, <4>2, <4>3, <4>4
    <3>2. p \in [DOMAIN q -> DOMAIN x.reqs \ {i}]
      BY <3>1
    <3>3. i \in Int
      BY <1>2
    <3> HIDE DEF p
    <3> QED BY <3>1, <3>2, <3>3
  <2>3. \A k \in DOMAIN x.reqs \ {i} : \E j \in DOMAIN q : p[j] = k
    <3> SUFFICES ASSUME NEW k \in DOMAIN x.reqs \ {i} PROVE \E j \in DOMAIN q : p[j] = k
      OBVIOUS
    <3> DEFINE j == IF k < i THEN k ELSE k - 1
    <3>1. j \in DOMAIN q /\ p[j] = k
      BY <1>2, <2>1
    <3> QED BY <3>1
  <2> HIDE DEF p
  <2>4. \A k \in DOMAIN x.reqs \ {i} : x.reqs[k].id \in Ids /\ x.reqs[k].id # id
    BY <1>1, <1>3, Fields DEF QueueInv
  <2>5. QueuedIds(y) = QueuedIds(x) \ {id}
    <3>1. ASSUME NEW j \in DOMAIN y.reqs
          PROVE  y.reqs[j].id \in QueuedIds(x) \ {id}
      BY <1>9, <2>2, <2>4, QueuedAt
    <3>2. ASSUME NEW k \in DOMAIN x.reqs, x.reqs[k].id # id
          PROVE  x.reqs[k].id \in QueuedIds(y)
      <4>1. PICK j \in DOMAIN q : p[j] = k
        BY <2>3, <3>2
      <4> QED BY <1>9, <2>2, <4>1, QueuedAt
    <3> QED BY <3>1, <3>2, QueuedAt
  <2>6. {j \in Ids : Waiting(y, j)} = QueuedIds(y)
    BY <1>3, <1>11, <2>5 DEF QueueInv
  <2>7. \A j, k \in DOMAIN y.reqs : y.reqs[j].id = y.reqs[k].id => j = k
    BY <1>3, <1>9, <2>2 DEF QueueInv
  <2>8. \A j \in DOMAIN y.reqs : y.reply[y.reqs[j].id].fid = y.reqs[j].fid
    BY <1>3, <1>9, <1>11, <2>2, <2>4 DEF QueueInv
  <2> QED BY <2>6, <2>7, <2>8 DEF QueueInv
<1>13. CountInv(y)
  BY <1>1, <1>8, <1>9, <1>10 DEF CountInv
<1>14. ClientInv(y)
  BY <1>9, <1>11 DEF StableInv, ClientInv
<1>15. StreamInv(y) /\ DataInv(y)
  <2>1. StreamInv(y)
    BY <1>9, <1>10 DEF StableInv, StreamInv
  <2>2. DataInv(y)
    <3> SUFFICES ASSUME x.direction = "Read" PROVE DataInv(y)
      BY <1>9 DEF DataInv
    <3>1. DataInv(x)
      BY DEF StableInv
    <3>2. \A j \in Ids : y.reply[j].data # <<>> => y.reply[j].type = "Rread"
      BY <1>11, <3>1 DEF DataInv
    <3>3. \A j \in Ids : (y.reply[j].type = "Rread" /\ y.reply[j].data = <<>>)
                            => ~y.peer /\ Fill(y) = 0
      BY <1>9, <1>10, <1>11, <3>1 DEF DataInv
    <3>4. \A j \in Ids : \A k \in 1..Len(y.reply[j].data) : y.reply[j].data[k][2] <= Handed(y)
      BY <1>10, <1>11, <3>1 DEF DataInv
    <3>5. \A n \in 1..Handed(y) : \E j \in Ids : \E k \in 1..Len(y.reply[j].data) :
              y.reply[j].data[k] = <<0, n>>
      <4>1. \A j \in Ids : y.reply[j].data = x.reply[j].data
        BY <1>11
      <4>2. \A n \in 1..Handed(y) : \E j \in Ids : \E k \in 1..Len(x.reply[j].data) :
                x.reply[j].data[k] = <<0, n>>
        BY <1>10, <3>1 DEF DataInv
      <4> QED BY <4>1, <4>2
    <3>6. ASSUME NEW j \in Ids, NEW m \in Ids, j < m, y.reply[j].fid = y.reply[m].fid,
                 NEW k \in 1..Len(y.reply[j].data), NEW l \in 1..Len(y.reply[m].data)
          PROVE  y.reply[j].data[k][2] < y.reply[m].data[l][2]
      <4>1. /\ x.reply[j].fid = x.reply[m].fid
            /\ y.reply[j].data = x.reply[j].data /\ y.reply[m].data = x.reply[m].data
        BY <1>11, <3>6
      <4> QED BY <3>1, <3>6, <4>1 DEF DataInv
    <3> QED BY <3>2, <3>3, <3>4, <3>5, <3>6 DEF DataInv
  <2> QED BY <2>1, <2>2
<1>16. StableInv(y)
  BY <1>3, <1>9, <1>12, <1>13, <1>14, <1>15 DEF StableInv
<1>17. Alike(x, y)
  <2>1. \A j \in Ids : y.reply[j].type = "Rwrite" => x.reply[j].type = "Rwrite"
    BY <1>5, <1>7, <1>9
  <2> QED BY <1>11, <2>1 DEF Alike, Waiting
<1> QED BY <1>4, <1>9, <1>16, <1>17 DEF y

\* What is said of the data does not depend on the flags.
LEMMA DataSame ==
    ASSUME NEW x, NEW y, StreamInv(x), DataInv(x), y.direction = x.direction, y.buf = x.buf,
           y.stream = x.stream, y.taken = x.taken, y.reply = x.reply, y.peer => x.peer
    PROVE  StreamInv(y) /\ DataInv(y)
<1>1. Fill(y) = Fill(x) /\ Handed(y) = Handed(x)
  BY DEF Fill, Handed
<1>2. StreamInv(y)
  BY <1>1 DEF StreamInv
<1>3. DataInv(y)
  <2> SUFFICES ASSUME x.direction = "Read" PROVE DataInv(y)
    BY DEF DataInv
  <2>1. \A id \in Ids : y.reply[id].data # <<>> => y.reply[id].type = "Rread"
    BY DEF DataInv
  <2>2. \A id \in Ids : (y.reply[id].type = "Rread" /\ y.reply[id].data = <<>>)
                            => ~y.peer /\ Fill(y) = 0
    BY <1>1 DEF DataInv
  <2>3. /\ \A id \in Ids : \A k \in 1..Len(y.reply[id].data) :
               y.reply[id].data[k][2] <= Handed(y)
        /\ \A i \in 1..Handed(y) : \E id \in Ids : \E k \in 1..Len(y.reply[id].data) :
               y.reply[id].data[k] = <<0, i>>
    BY <1>1 DEF DataInv
  <2>4. \A i, j \in Ids : (i < j /\ y.reply[i].fid = y.reply[j].fid) =>
               \A k \in 1..Len(y.reply[i].data), l \in 1..Len(y.reply[j].data) :
                   y.reply[i].data[k][2] < y.reply[j].data[l][2]
    BY DEF DataInv
  <2> QED BY <2>1, <2>2, <2>3, <2>4 DEF DataInv
<1> QED BY <1>2, <1>3

\* The poll loop sets flags that tell the state of the pipe, and notifies.
LEMMA PollKeeps ==
    ASSUME NEW x, StableInv(x), x.lspfd
    PROVE  LET y == pip_notify([x EXCEPT !.flags = @ \cup revents(x)])
           IN  StableInv(y) /\ Alike(x, y) /\ y.direction = x.direction
<1> DEFINE s == [x EXCEPT !.flags = x.flags \cup revents(x)]
           y == pip_notify(s)
<1>1. x \in Xfilepipe /\ CountInv(x) /\ x.flags \subseteq {"Readable", "Writable", "Error"}
  BY Fields DEF StableInv, CountInv
<1>2. /\ revents(x) \subseteq {"Readable", "Writable", "Error"}
      /\ "Readable" \in revents(x) => x.direction = "Read" /\ Fill(x) > 0
      /\ "Error" \in revents(x) => ~x.peer
  BY DEF revents
<1>3. s \in Xfilepipe
  BY <1>1, <1>2 DEF Xfilepipe
<1>4. /\ s.direction = x.direction /\ s.lspfd = x.lspfd /\ s.peer = x.peer
      /\ s.flags = x.flags \cup revents(x) /\ s.buf = x.buf /\ s.reqs = x.reqs
      /\ s.stream = x.stream /\ s.taken = x.taken /\ s.reply = x.reply
  BY <1>1 DEF Xfilepipe
<1> HIDE DEF s
<1>5. QueuedIds(s) = QueuedIds(x) /\ Fill(s) = Fill(x) /\ Handed(s) = Handed(x)
  BY <1>4 DEF QueuedIds, Fill, Handed
<1>6. \A id : Waiting(s, id) <=> Waiting(x, id)
  BY <1>4 DEF Waiting
<1>7. CountInv(s)
  BY <1>1, <1>2, <1>3, <1>4, <1>5 DEF CountInv
<1>8. QueueInv(s) /\ ClientInv(s)
  BY <1>4, <1>5, <1>6 DEF StableInv, QueueInv, ClientInv
<1>9. StreamInv(s) /\ DataInv(s)
  BY <1>4, DataSame DEF StableInv
<1>10. StableInv(y) /\ Alike(s, y) /\ y.direction = s.direction
  BY <1>4, <1>7, <1>8, <1>9, NotifyStable DEF PipeInv
<1> HIDE DEF y
<1>11. Alike(x, y)
  BY <1>4, <1>6, <1>10 DEF Alike
<1> QED BY <1>4, <1>10, <1>11 DEF y, s

\* The process changes the pipe in the kernel, and nothing of what xcpufs keeps.
LEMMA ProcessKeeps ==
    ASSUME NEW x, NEW y, y.direction = x.direction, y.reqs = x.reqs, y.reply = x.reply
    PROVE  /\ QueueInv(x) => QueueInv(y)
           /\ ClientInv(x) => ClientInv(y)
           /\ Alike(x, y)
<1>1. QueuedIds(y) = QueuedIds(x) /\ \A id : Waiting(y, id) <=> Waiting(x, id)
  BY DEF QueuedIds, Waiting
<1>2. QueueInv(x) => QueueInv(y)
  BY <1>1 DEF QueueInv
<1>3. ClientInv(x) => ClientInv(y)
  BY <1>1 DEF ClientInv
<1>4. Alike(x, y)
  BY DEF Alike, Waiting
<1> QED BY <1>2, <1>3, <1>4

\* The process writes a byte, for which there is room.
LEMMA ProduceKeeps ==
    ASSUME NEW x, StableInv(x), x.direction = "Read", x.peer,
           Len(x.stream) < MaxBytes, Fill(x) < Cap
    PROVE  LET y == [x EXCEPT !.stream = Append(@, <<0, Len(@) + 1>>)]
           IN  StableInv(y) /\ Alike(x, y) /\ y.direction = x.direction
<1> DEFINE b == <<0, Len(x.stream) + 1>>
           s == Append(x.stream, b)
           y == [x EXCEPT !.stream = s]
<1>1. x \in Xfilepipe /\ CountInv(x)
  BY DEF StableInv, CountInv
<1>2. x.stream \in Seq(Bytes) /\ Len(x.stream) \in Nat /\ x.taken \in Nat /\ MaxBytes \in Nat
  BY <1>1, Fields, Bounds
<1>3. b \in Bytes
  BY <1>2 DEF Bytes
<1> HIDE DEF b
<1>4. /\ s \in Seq(Bytes) /\ Len(s) = Len(x.stream) + 1
      /\ \A i \in 1..(Len(x.stream) + 1) : s[i] = IF i <= Len(x.stream) THEN x.stream[i] ELSE b
  BY <1>2, <1>3, AppendProperties
<1> HIDE DEF s
<1>5. y \in Xfilepipe
  BY <1>1, <1>4 DEF Xfilepipe
<1>6. /\ y.direction = x.direction /\ y.lspfd = x.lspfd /\ y.peer = x.peer
      /\ y.flags = x.flags /\ y.buf = x.buf /\ y.reqs = x.reqs /\ y.reply = x.reply
      /\ y.stream = s /\ y.taken = x.taken
  BY <1>1 DEF Xfilepipe
<1> HIDE DEF y
<1>7. Fill(x) = Len(x.stream) - x.taken /\ Fill(y) = Fill(x) + 1 /\ Handed(y) = Handed(x)
  BY <1>2, <1>4, <1>6 DEF Fill, Handed
<1>8. CountInv(y)
  BY <1>1, <1>2, <1>4, <1>5, <1>6, <1>7, Bounds DEF CountInv
<1>9. StreamInv(y)
  <2>1. StreamInv(x)
    BY DEF StableInv
  <2>2. ASSUME NEW i \in 1..(Len(x.stream) + 1)
        PROVE  s[i] = <<0, i>>
    <3>1. CASE i <= Len(x.stream)
      <4>1. \A k \in 1..Len(x.stream) : x.stream[k] = <<0, k>>
        BY <2>1 DEF StreamInv
      <4>2. i \in 1..Len(x.stream) /\ s[i] = x.stream[i]
        BY <1>2, <1>4, <3>1
      <4> QED BY <4>1, <4>2
    <3>2. CASE i > Len(x.stream)
      BY <1>2, <1>4, <3>2 DEF b
    <3> QED BY <1>2, <3>1, <3>2
  <2> QED BY <1>4, <1>6, <1>7, <2>1, <2>2 DEF StreamInv
<1>10. DataInv(y)
  <2>1. DataInv(x)
    BY DEF StableInv
  <2>2. \A id \in Ids : y.reply[id].data # <<>> => y.reply[id].type = "Rread"
    BY <1>6, <2>1 DEF DataInv
  <2>3. \A id \in Ids : ~(y.reply[id].type = "Rread" /\ y.reply[id].data = <<>>)
    BY <1>6, <2>1 DEF DataInv
  <2>4. /\ \A id \in Ids : \A k \in 1..Len(y.reply[id].data) :
               y.reply[id].data[k][2] <= Handed(y)
        /\ \A i \in 1..Handed(y) : \E id \in Ids : \E k \in 1..Len(y.reply[id].data) :
               y.reply[id].data[k] = <<0, i>>
    BY <1>6, <1>7, <2>1 DEF DataInv
  <2>5. \A i, j \in Ids : (i < j /\ y.reply[i].fid = y.reply[j].fid) =>
               \A k \in 1..Len(y.reply[i].data), l \in 1..Len(y.reply[j].data) :
                   y.reply[i].data[k][2] < y.reply[j].data[l][2]
    BY <1>6, <2>1 DEF DataInv
  <2> QED BY <2>2, <2>3, <2>4, <2>5 DEF DataInv
<1>11. x.lspfd
  BY DEF StableInv, ClosedInv
<1>12. StableInv(y) /\ Alike(x, y)
  BY <1>6, <1>8, <1>9, <1>10, <1>11, ProcessKeeps DEF StableInv
<1> QED BY <1>6, <1>12 DEF y, s, b

\* The process reads a byte of its standard input.
LEMMA ConsumeKeeps ==
    ASSUME NEW x, StableInv(x), x.direction = "Write", Fill(x) > 0
    PROVE  LET y == [x EXCEPT !.taken = @ + 1]
           IN  StableInv(y) /\ Alike(x, y) /\ y.direction = x.direction
<1> DEFINE y == [x EXCEPT !.taken = x.taken + 1]
<1>1. x \in Xfilepipe /\ CountInv(x)
  BY DEF StableInv, CountInv
<1>2. Len(x.stream) \in Nat /\ x.taken \in Nat
  BY <1>1, Fields
<1>3. y \in Xfilepipe
  <2>1. x.taken + 1 \in Nat
    BY <1>2
  <2> QED BY <1>1, <2>1 DEF Xfilepipe
<1>4. /\ y.direction = x.direction /\ y.lspfd = x.lspfd /\ y.peer = x.peer
      /\ y.flags = x.flags /\ y.buf = x.buf /\ y.reqs = x.reqs /\ y.reply = x.reply
      /\ y.stream = x.stream /\ y.taken = x.taken + 1
  BY <1>1 DEF Xfilepipe
<1> HIDE DEF y
<1>5. Fill(x) = Len(x.stream) - x.taken /\ Fill(y) = Fill(x) - 1
  BY <1>2, <1>4 DEF Fill
<1>6. CountInv(y)
  BY <1>1, <1>2, <1>3, <1>4, <1>5, Bounds DEF CountInv
<1>7. StreamInv(y) /\ DataInv(y)
  BY <1>4 DEF StreamInv, DataInv
<1>8. ClosedInv(x) => ClosedInv(y)
  BY <1>4 DEF ClosedInv, Waiting
<1>9. StableInv(y) /\ Alike(x, y)
  BY <1>4, <1>6, <1>7, <1>8, ProcessKeeps DEF StableInv
<1> QED BY <1>4, <1>9 DEF y

\* The process ends.
LEMMA ExitKeeps ==
    ASSUME NEW x, StableInv(x), x.peer
    PROVE  LET y == [x EXCEPT !.peer = FALSE]
           IN  StableInv(y) /\ Alike(x, y) /\ y.direction = x.direction
<1> DEFINE y == [x EXCEPT !.peer = FALSE]
<1>1. x \in Xfilepipe /\ CountInv(x)
  BY DEF StableInv, CountInv
<1>2. y \in Xfilepipe
  BY <1>1 DEF Xfilepipe
<1>3. /\ y.direction = x.direction /\ y.lspfd = x.lspfd /\ ~y.peer
      /\ y.flags = x.flags /\ y.buf = x.buf /\ y.reqs = x.reqs /\ y.reply = x.reply
      /\ y.stream = x.stream /\ y.taken = x.taken
  BY <1>1 DEF Xfilepipe
<1> HIDE DEF y
<1>4. Fill(y) = Fill(x) /\ Handed(y) = Handed(x)
  BY <1>3 DEF Fill, Handed
<1>5. CountInv(y)
  BY <1>1, <1>2, <1>3, <1>4 DEF CountInv
<1>6. StreamInv(y) /\ DataInv(y)
  BY <1>3, DataSame DEF StableInv
<1>7. ClosedInv(x) => ClosedInv(y)
  BY <1>3, <1>4 DEF ClosedInv, Waiting
<1>8. StableInv(y) /\ Alike(x, y)
  BY <1>3, <1>5, <1>6, <1>7, ProcessKeeps DEF StableInv
<1> QED BY <1>3, <1>8 DEF y

-----------------------------------------------------------------------------
(* The specification                                                       *)

\* A pipe that was created has no requests, and nothing in it.
LEMMA Created ==
    ASSUME NEW d \in {"Read", "Write"}
    PROVE  StableInv(pip_create(d))
<1> DEFINE x == pip_create(d)
           unsent == [type |-> "unsent", fid |-> 0, data |-> <<>>, count |-> 0]
<1>1. Count \in Nat \ {0} /\ Cap \in Nat \ {0}
  BY Bounds
<1>2. unsent \in Replies
  <2>1. <<>> \in Seq(Bytes)
    OBVIOUS
  <2> QED BY <1>1, <2>1 DEF Replies
<1>3. /\ x.direction = d /\ x.lspfd = TRUE /\ x.flags = {} /\ x.buf = <<>> /\ x.reqs = <<>>
      /\ x.stream = <<>> /\ x.taken = 0 /\ x.peer = TRUE /\ x.reply = [id \in Ids |-> unsent]
  BY DEF pip_create
<1>4. x \in Xfilepipe
  BY <1>2 DEF pip_create, Xfilepipe
<1>5. unsent.type = "unsent" /\ unsent.data = <<>>
  OBVIOUS
<1> HIDE DEF x, unsent
<1>6. \A id \in Ids : ~Waiting(x, id) /\ x.reply[id].type = "unsent" /\ x.reply[id].data = <<>>
  BY <1>3, <1>5 DEF Waiting
<1>7. Fill(x) = 0 /\ Handed(x) = 0 /\ QueuedIds(x) = {}
  <2>1. Len(x.stream) = 0 /\ Len(x.buf) = 0 /\ DOMAIN x.reqs = {}
    BY <1>3
  <2>2. QueuedIds(x) = {}
    BY <2>1, QueuedAt
  <2>3. x.taken = 0
    BY <1>3
  <2>4. Fill(x) = 0 /\ Handed(x) = 0
    BY <2>1, <2>3 DEF Fill, Handed
  <2> QED BY <2>2, <2>4
<1>8. CountInv(x)
  BY <1>1, <1>3, <1>4, <1>7 DEF CountInv
<1>9. QueueInv(x) /\ ClientInv(x)
  BY <1>3, <1>6, <1>7 DEF QueueInv, ClientInv
<1>10. StreamInv(x)
  BY <1>3, <1>7 DEF StreamInv
<1>11. DataInv(x)
  BY <1>6, <1>7 DEF DataInv
<1> QED BY <1>3, <1>8, <1>9, <1>10, <1>11 DEF StableInv, x

\* Each action keeps the invariant, and answers the reads that wait alike.
LEMMA NextKeeps ==
    ASSUME Careful, IInv, [Next]_pipe
    PROVE  StableInv(pipe') /\ Alike(pipe, pipe') /\ pipe'.direction = pipe.direction
<1>1. StableInv(pipe)
  BY DEF IInv
<1>2. ASSUME NEW f \in Readers, NEW id \in Ids, filepipe_read(f, id)
      PROVE  StableInv(pipe') /\ Alike(pipe, pipe') /\ pipe'.direction = pipe.direction
  <2>1. MaySend(pipe, f, id) /\ pipe' = Added(pipe, [fid |-> f, id |-> id])
    BY <1>2 DEF filepipe_read, ClientNext, MaySend
  <2>2. f \in Readers \cup Writers
    OBVIOUS
  <2> QED BY <1>1, <2>1, <2>2, AddedKeeps
<1>3. ASSUME NEW f \in Writers, NEW id \in Ids, filepipe_write(f, id)
      PROVE  StableInv(pipe') /\ Alike(pipe, pipe') /\ pipe'.direction = pipe.direction
  <2>1. MaySend(pipe, f, id) /\ pipe' = Added(pipe, [fid |-> f, id |-> id])
    BY <1>3 DEF filepipe_write, ClientNext, MaySend
  <2>2. f \in Readers \cup Writers
    OBVIOUS
  <2> QED BY <1>1, <2>1, <2>2, AddedKeeps
<1>4. ASSUME NEW id \in Ids, pip_flushreq(id)
      PROVE  StableInv(pipe') /\ Alike(pipe, pipe') /\ pipe'.direction = pipe.direction
  <2>1. PICK i \in DOMAIN pipe.reqs :
            /\ pipe.reqs[i].id = id
            /\ pipe' = [pipe EXCEPT !.reqs = RemoveAt(@, i), !.reply[id].type = "Rflush"]
    BY <1>4 DEF pip_flushreq
  <2>2. Waiting(pipe, id)
    BY <1>4 DEF pip_flushreq
  <2> QED BY <1>1, <2>1, <2>2, FlushKeeps
<1>5. CASE sp_poll_once
  <2>1. pipe.lspfd /\ pipe' = pip_notify([pipe EXCEPT !.flags = @ \cup revents(pipe)])
    BY <1>5 DEF sp_poll_once, Polled
  <2> QED BY <1>1, <2>1, PollKeeps
<1>6. CASE produce
  BY <1>1, <1>6, ProduceKeeps DEF produce
<1>7. CASE consume
  BY <1>1, <1>7, ConsumeKeeps DEF consume
<1>8. CASE exit
  BY <1>1, <1>8, ExitKeeps DEF exit
<1>9. CASE UNCHANGED pipe
  BY <1>1, <1>9, ProcessKeeps
<1> QED BY <1>2, <1>3, <1>4, <1>5, <1>6, <1>7, <1>8, <1>9 DEF Next

\* The counts of a pipe fit each other, its queue is the requests that wait, and what
\* has left its buffer was sent: this holds from pip_create on, however requests,
\* flushes, poll and the process are ordered, when the clients obey the rules.
THEOREM XPipeInvariant ==
    ASSUME Careful
    PROVE  Spec => []IInv
<1>1. Init => IInv
  BY Created DEF Init, IInv
<1>2. IInv /\ [Next]_pipe => IInv'
  BY NextKeeps DEF IInv
<1> QED BY <1>1, <1>2, PTL DEF Spec

\* Of the pipes of the careful clients: while a descriptor is in the poll table its queue
\* holds the requests that wait and no other, and afterwards none waits (pip_addreq,
\* pip_flushreq, pip_read_buf, pip_write and pip_disconnect of pipe.c).
THEOREM XPipeRequestsKept ==
    ASSUME Careful
    PROVE  Spec => []RequestsKept
<1>1. IInv => RequestsKept
  BY Fields DEF IInv, StableInv, CountInv, QueueInv, ClosedInv, RequestsKept, TypeOK
<1> QED BY <1>1, XPipeInvariant, PTL

\* A read is answered without data only once the process has closed its end of the pipe
\* and its output was read (pip_notify and pip_addreq of pipe.c).
THEOREM XPipeEofOnlyAtEnd ==
    ASSUME Careful
    PROVE  Spec => []EofOnlyAtEnd
<1>1. IInv => EofOnlyAtEnd
  BY DEF IInv, StableInv, DataInv, EofOnlyAtEnd
<1> QED BY <1>1, XPipeInvariant, PTL

\* Output that xcpufs has read is in the buffer or was sent, and each fid gets it in
\* order (pip_read_buf and pip_read_eof of pipe.c).
THEOREM XPipeOutputDelivered ==
    ASSUME Careful
    PROVE  Spec => []OutputDelivered
<1>1. ASSUME IInv, pipe.direction = "Read"
      PROVE  OutputDelivered
  <2>1. /\ pipe \in Xfilepipe /\ StreamInv(pipe) /\ DataInv(pipe)
    BY <1>1 DEF IInv, StableInv, CountInv
  <2>2. /\ pipe.buf \in Seq(Bytes) /\ Len(pipe.buf) \in Nat /\ pipe.taken \in Nat
        /\ \A id \in Ids : pipe.reply[id].data \in Seq(Bytes)
    BY <2>1, Fields
  <2>3. \A id \in Ids : ToSet(pipe.reply[id].data)
                            = {pipe.reply[id].data[k] : k \in 1..Len(pipe.reply[id].data)}
    BY <2>2 DEF ToSet
  <2>4. ASSUME NEW i \in 1..pipe.taken
        PROVE  \/ <<0, i>> \in ToSet(pipe.buf)
               \/ \E id \in Ids : <<0, i>> \in ToSet(pipe.reply[id].data)
    <3>1. CASE i \in 1..Handed(pipe)
      <4>1. PICK id \in Ids : \E k \in 1..Len(pipe.reply[id].data) :
                pipe.reply[id].data[k] = <<0, i>>
        BY <1>1, <2>1, <3>1 DEF DataInv
      <4> QED BY <2>3, <4>1
    <3>2. CASE i \notin 1..Handed(pipe)
      <4> DEFINE k == i - Handed(pipe)
      <4>1. k \in 1..Len(pipe.buf) /\ Handed(pipe) + k = i
        BY <1>1, <2>1, <2>2, <3>2 DEF StreamInv, Handed
      <4>2. pipe.buf[k] = <<0, i>>
        BY <1>1, <2>1, <4>1 DEF StreamInv
      <4> QED BY <2>2, <4>1, <4>2 DEF ToSet
    <3> QED BY <3>1, <3>2
  <2>5. ASSUME NEW i \in Ids, NEW j \in Ids, i < j, pipe.reply[i].fid = pipe.reply[j].fid,
               NEW a \in ToSet(pipe.reply[i].data), NEW b \in ToSet(pipe.reply[j].data)
        PROVE  a[2] < b[2]
    <3>1. PICK k \in 1..Len(pipe.reply[i].data) : a = pipe.reply[i].data[k]
      BY <2>3
    <3>2. PICK l \in 1..Len(pipe.reply[j].data) : b = pipe.reply[j].data[l]
      BY <2>3
    <3> QED BY <1>1, <2>1, <2>5, <3>1, <3>2 DEF DataInv
  <2> QED BY <2>4, <2>5 DEF OutputDelivered
<1>2. IInv => OutputDelivered
  BY <1>1 DEF OutputDelivered
<1> QED BY <1>2, XPipeInvariant, PTL

\* Reads that wait on different fids are answered together and with the same data
\* (pip_read_buf of pipe.c).
THEOREM XPipeSentToEveryReader ==
    ASSUME Careful
    PROVE  Spec => SentToEveryReader
<1> DEFINE A == \A i, j \in Ids :
                   (/\ Waiting(pipe, i) /\ Waiting(pipe, j)
                    /\ pipe.reply[i].fid # pipe.reply[j].fid
                    /\ pipe'.reply[i].type = "Rread") =>
                       /\ pipe'.reply[j].type = "Rread"
                       /\ pipe'.reply[j].data = pipe'.reply[i].data
<1>1. IInv /\ [Next]_pipe => A
  <2> SUFFICES ASSUME IInv, [Next]_pipe PROVE A
    OBVIOUS
  <2>1. CASE pipe.direction = "Read"
    BY <2>1, NextKeeps DEF Alike
  <2>2. CASE pipe.direction = "Write"
    BY <2>2 DEF IInv, StableInv, ClientInv
  <2>3. pipe.direction \in {"Read", "Write"}
    BY Fields DEF IInv, StableInv, CountInv
  <2> QED BY <2>1, <2>2, <2>3
<1>2. IInv /\ [Next]_pipe => [A]_pipe
  BY <1>1
<1> HIDE DEF A
<1>3. Spec => [][A]_pipe
  BY <1>2, XPipeInvariant, PTL DEF Spec
<1> QED BY <1>3 DEF SentToEveryReader, A

-----------------------------------------------------------------------------
(* The bytes of the writes                                                 *)

\* The bytes of write id in s are its first n, in order.
InOrder(s, id, n) ==
    /\ \A j \in 1..n : \E k \in DOMAIN s : s[k] = <<id, j>>
    /\ \A k \in DOMAIN s : s[k][1] = id => s[k][2] \in 1..n
    /\ \A k, l \in DOMAIN s : (k < l /\ s[k][1] = id /\ s[l][1] = id) => s[k][2] < s[l][2]

\* How many bytes of write id have passed: those that were reported, or those of
\* the first write of the queue, which buflen counts.
Passed(x, id) ==
    IF x.reply[id].type = "Rwrite" THEN x.reply[id].count
    ELSE IF Waiting(x, id) /\ x.reqs[1].id = id THEN Len(x.buf) ELSE 0

\* The writes of which something is claimed; a write that is flushed, refused after
\* the end, or answered with an Rread may have left anything in the pipe.
Claims == {"unsent", "waiting", "Rwrite"}

\* What was passed is in the pipe, in order; without a request buflen counts nothing.
WroteInv(x) ==
    x.direction = "Write" =>
        /\ \A id \in Ids : x.reply[id].type \in Claims => InOrder(x.stream, id, Passed(x, id))
        /\ (x.reqs = <<>> /\ "Error" \notin x.flags) => x.buf = <<>>

\* A function that writes nothing, and answers with what has passed
LEMMA WroteSame ==
    ASSUME NEW x, NEW y, x.direction = "Write" => WroteInv(x),
           y.direction = x.direction, y.stream = x.stream,
           \A id \in Ids : y.reply[id].type \in Claims =>
               x.reply[id].type \in Claims /\ Passed(y, id) = Passed(x, id),
           (y.reqs = <<>> /\ "Error" \notin y.flags) => y.buf = <<>>
    PROVE  WroteInv(y)
BY DEF WroteInv

\* What has passed of a write that does not wait is what it was answered.
LEMMA PassedNotWaiting ==
    ASSUME NEW x, NEW y, NEW id, y.reply[id] = x.reply[id], ~Waiting(x, id)
    PROVE  Passed(y, id) = Passed(x, id)
BY DEF Passed, Waiting

\* Bytes m + 1 to m + n of write id behind its first m
LEMMA InOrderAppended ==
    ASSUME NEW s \in Seq(Bytes), NEW id \in Ids, NEW m \in Nat, NEW n \in Nat
    PROVE  /\ InOrder(s, id, m) => InOrder(s \o BytesOf(id, m, n), id, m + n)
           /\ \A i \in Ids \ {id} : \A k \in Nat :
                  InOrder(s, i, k) => InOrder(s \o BytesOf(id, m, n), i, k)
<1> DEFINE d == [i \in 1..n |-> <<id, m + i>>]
           t == s \o d
           L == Len(s)
<1>1. L \in Nat /\ DOMAIN s = 1..L
  OBVIOUS
<1>2. Len(d) = n /\ d \in Seq(Ids \X Nat)
  <2>1. \A i \in 1..n : <<id, m + i>> \in Ids \X Nat
    OBVIOUS
  <2> HIDE DEF L
  <2> QED BY <2>1
<1>3. /\ DOMAIN t = 1..(L + n)
      /\ \A k \in 1..L : t[k] = s[k]
      /\ \A k \in (L + 1)..(L + n) : t[k] = d[k - L]
  <2> DEFINE S == Bytes \cup (Ids \X Nat)
  <2>1. s \in Seq(S) /\ d \in Seq(S)
    <3>1. \A k \in 1..L : s[k] \in S
      BY <1>1
    <3>2. \A k \in 1..n : d[k] \in S
      OBVIOUS
    <3> HIDE DEF d, S
    <3> QED BY <1>1, <1>2, <3>1, <3>2
  <2> HIDE DEF d, S
  <2>2. /\ t \in Seq(S) /\ Len(t) = L + n
        /\ \A k \in 1..(L + n) : t[k] = IF k <= L THEN s[k] ELSE d[k - L]
    BY <1>1, <1>2, <2>1, ConcatProperties
  <2> HIDE DEF t, L
  <2>3. DOMAIN t = 1..(L + n)
    BY <2>2
  <2>4. \A k \in 1..L : k \in 1..(L + n) /\ k <= L
    BY <1>1
  <2>5. \A k \in (L + 1)..(L + n) : k \in 1..(L + n) /\ ~(k <= L)
    BY <1>1
  <2> QED BY <2>2, <2>3, <2>4, <2>5
<1> HIDE DEF t
<1>4. ASSUME NEW k \in (L + 1)..(L + n)
      PROVE  t[k] = <<id, m + (k - L)>> /\ t[k][1] = id /\ t[k][2] = m + (k - L)
  <2>1. k - L \in 1..n
    BY <1>1
  <2>2. d[k - L] = <<id, m + (k - L)>>
    BY <2>1
  <2>3. t[k] = <<id, m + (k - L)>>
    BY <1>3, <2>2
  <2> QED BY <2>3
<1> HIDE DEF d, L
<1>5. ASSUME InOrder(s, id, m)
      PROVE  InOrder(t, id, m + n)
  <2>1. ASSUME NEW j \in 1..(m + n)
        PROVE  \E k \in DOMAIN t : t[k] = <<id, j>>
    <3>1. CASE j <= m
      <4>1. PICK k \in DOMAIN s : s[k] = <<id, j>>
        BY <1>5, <3>1 DEF InOrder
      <4>2. k \in DOMAIN t /\ t[k] = s[k]
        BY <1>1, <1>3
      <4> QED BY <4>1, <4>2
    <3>2. CASE ~(j <= m)
      <4>1. PICK k \in Nat : k = L + (j - m)
        BY <1>1, <3>2
      <4>2. k \in (L + 1)..(L + n) /\ m + (k - L) = j /\ k \in DOMAIN t
        BY <1>1, <1>3, <3>2, <4>1
      <4>3. t[k] = <<id, j>>
        BY <1>4, <4>2
      <4> QED BY <4>2, <4>3
    <3> QED BY <3>1, <3>2
  <2>2. ASSUME NEW k \in DOMAIN t, t[k][1] = id
        PROVE  t[k][2] \in 1..(m + n) /\ (k \in 1..L => t[k][2] \in 1..m)
    <3>1. CASE k \in 1..L
      <4>1. s[k][2] \in 1..m
        BY <1>1, <1>3, <1>5, <2>2, <3>1 DEF InOrder
      <4>2. t[k][2] \in 1..m
        BY <1>3, <3>1, <4>1
      <4> QED BY <4>2
    <3>2. CASE k \notin 1..L
      <4>1. k \in (L + 1)..(L + n)
        BY <1>1, <1>3, <3>2
      <4>2. t[k][2] = m + (k - L)
        BY <1>4, <4>1
      <4> QED BY <1>1, <3>2, <4>1, <4>2
    <3> QED BY <3>1, <3>2
  <2>3. ASSUME NEW k \in DOMAIN t, NEW l \in DOMAIN t, k < l, t[k][1] = id, t[l][1] = id
        PROVE  t[k][2] < t[l][2]
    <3>1. CASE l \in 1..L
      <4>1. k \in 1..L
        BY <1>1, <1>3, <2>3, <3>1
      <4> QED BY <1>1, <1>3, <1>5, <2>3, <3>1, <4>1 DEF InOrder
    <3>2. CASE l \notin 1..L
      <4>1. l \in (L + 1)..(L + n)
        BY <1>1, <1>3, <3>2
      <4>2. t[l][2] = m + (l - L)
        BY <1>4, <4>1
      <4>3. CASE k \in 1..L
        <5>1. t[k][2] \in 1..m
          BY <2>2, <2>3, <4>3
        <5> QED BY <1>1, <4>1, <4>2, <5>1
      <4>4. CASE k \notin 1..L
        <5>1. k \in (L + 1)..(L + n)
          BY <1>1, <1>3, <4>4
        <5>2. t[k][2] = m + (k - L)
          BY <1>4, <5>1
        <5> QED BY <1>1, <2>3, <4>1, <4>2, <5>1, <5>2
      <4> QED BY <4>3, <4>4
    <3> QED BY <3>1, <3>2
  <2> QED BY <2>1, <2>2, <2>3 DEF InOrder
<1>6. ASSUME NEW i \in Ids \ {id}, NEW n2 \in Nat, InOrder(s, i, n2)
      PROVE  InOrder(t, i, n2)
  <2>1. \A k \in DOMAIN t : t[k][1] = i => k \in DOMAIN s
    <3> SUFFICES ASSUME NEW k \in DOMAIN t, k \notin DOMAIN s PROVE t[k][1] # i
      OBVIOUS
    <3>1. k \in (L + 1)..(L + n)
      BY <1>1, <1>3
    <3> QED BY <1>4, <3>1
  <2>2. \A k \in DOMAIN s : k \in DOMAIN t /\ t[k] = s[k]
    BY <1>1, <1>3
  <2> QED BY <1>6, <2>1, <2>2 DEF InOrder
<1> QED BY <1>5, <1>6 DEF t, d, BytesOf


\* pip_read_buf answers the writes that wait with an Rread, after an error.
LEMMA ReadBufWrote ==
    ASSUME NEW x, PipeInv(x), WroteInv(x), x.direction = "Write", "Error" \in x.flags
    PROVE  WroteInv(pip_read_buf(x))
<1>1. x \in Xfilepipe
  BY DEF PipeInv, CountInv
<1>2. CASE x.reqs = <<>>
  BY <1>2 DEF pip_read_buf
<1>3. CASE x.reqs # <<>>
  <2> DEFINE y == pip_read_buf(x)
  <2>1. \E data \in [Ids -> Seq(Bytes)] : \E d \in 0..Len(x.buf) : y = ReadBuf(x, data, d)
    BY <1>1, <1>3, ReadBufTypes DEF PipeInv
  <2>2. PICK data \in [Ids -> Seq(Bytes)], d \in 0..Len(x.buf) : y = ReadBuf(x, data, d)
    BY <2>1
  <2> HIDE DEF y
  <2>3. /\ Same(x, y) /\ y.flags = x.flags /\ y.stream = x.stream
        /\ y.reply = [id \in Ids |-> IF id \in QueuedIds(x)
                                     THEN Rread(x.reply[id], data[id]) ELSE x.reply[id]]
    BY <1>1, <2>2, ReadBufFields
  <2>4. ASSUME NEW id \in Ids, y.reply[id].type \in Claims
        PROVE  x.reply[id].type \in Claims /\ Passed(y, id) = Passed(x, id)
    <3>1. id \notin QueuedIds(x)
      <4>1. x.reply[id] \in Replies
        BY <1>1, Fields
      <4>2. Rread(x.reply[id], data[id]).type = "Rread"
        BY <4>1 DEF Rread, Replies
      <4> QED BY <2>3, <2>4, <4>2 DEF Claims
    <3>2. y.reply[id] = x.reply[id]
      BY <2>3, <3>1
    <3>3. ~Waiting(x, id)
      BY <3>1 DEF PipeInv, QueueInv
    <3> QED BY <2>4, <3>2, <3>3, PassedNotWaiting
  <2>5. WroteInv(y)
    BY <2>3, <2>4, WroteSame DEF Same
  <2> QED BY <2>5 DEF y
<1> QED BY <1>2, <1>3

\* spfd_read takes nothing from the pipe of stdin.
LEMMA SpfdReadWrote ==
    ASSUME NEW x, PipeInv(x), WroteInv(x), x.direction = "Write", NEW n \in Nat
    PROVE  WroteInv(spfd_read(x, n))
<1> DEFINE y == spfd_read(x, n)
<1>1. x \in Xfilepipe
  BY DEF PipeInv, CountInv
<1>2. /\ PipeInv(y) /\ Same(x, y) /\ y.flags = x.flags \ {"Readable"} /\ y.reqs = x.reqs
      /\ y.reply = x.reply /\ y.stream = x.stream
      /\ Len(y.buf) = Len(x.buf) + Taken(x, n)
  BY SpfdReadKeeps
<1> HIDE DEF y
<1>3. Len(y.buf) = Len(x.buf)
  <2>1. Taken(x, n) = 0 /\ Len(x.buf) \in Nat
    BY <1>1, Fields DEF Taken
  <2> QED BY <1>2, <2>1
<1>4. \A id \in Ids : Passed(y, id) = Passed(x, id)
  BY <1>2, <1>3 DEF Passed, Waiting
<1>5. (y.reqs = <<>> /\ "Error" \notin y.flags) => y.buf = <<>>
  <2> SUFFICES ASSUME y.reqs = <<>>, "Error" \notin y.flags PROVE y.buf = <<>>
    OBVIOUS
  <2>1. x.buf = <<>>
    BY <1>2 DEF WroteInv
  <2>2. Len(y.buf) = 0 /\ y.buf \in Seq(Bytes)
    BY <1>2, <1>3, <2>1, Fields DEF PipeInv, CountInv
  <2> QED BY <2>2, EmptySeq
<1>6. WroteInv(y)
  BY <1>2, <1>4, <1>5, WroteSame DEF Same
<1> QED BY <1>6 DEF y

\* pip_read does nothing to the pipe of stdin, but for an error.
LEMMA PipReadWrote ==
    ASSUME NEW x, PipeInv(x), WroteInv(x), x.direction = "Write"
    PROVE  WroteInv(pip_read(x))
<1>1. CASE "Error" \in x.flags
  <2> DEFINE z == pip_read_eof(x)
  <2>1. Fill(x) \in Nat
    BY Fields DEF PipeInv, CountInv, Fill
  <2>2. PipeInv(z) /\ Same(x, z) /\ z.flags = x.flags \ {"Readable"} /\ WroteInv(z)
    BY <2>1, SpfdReadKeeps, SpfdReadWrote DEF pip_read_eof
  <2>3. pip_read(x) = pip_read_buf(z)
    BY <1>1 DEF pip_read
  <2> HIDE DEF z
  <2> QED BY <1>1, <2>2, <2>3, ReadBufWrote DEF Same
<1>2. CASE "Error" \notin x.flags
  BY <1>2 DEF pip_read
<1> QED BY <1>1, <1>2

\* pip_write passes bytes of the first write, and answers it when it has passed all.
LEMMA PipWriteWrote ==
    ASSUME NEW x, PipeInv(x), WroteInv(x), x.direction = "Write"
    PROVE  WroteInv(pip_write(x))
<1>1. x \in Xfilepipe
  BY DEF PipeInv, CountInv
<1>2. CASE x.reqs = <<>>
  BY <1>2 DEF pip_write
<1>3. CASE x.reqs # <<>>
  <2> DEFINE h == Head(x.reqs).id
             todo == Count - Len(x.buf)
  <2>1. PICK n \in 0..todo : \E z : /\ Put(x, z, n) /\ Fill(x) + n <= Cap
                                    /\ pip_write(x) = IF n > 0 /\ n = todo THEN Written(z) ELSE z
    BY <1>1, <1>3, PipWritePuts DEF PipeInv
  <2>2. PICK y : /\ Put(x, y, n)
                 /\ pip_write(x) = IF n > 0 /\ n = todo THEN Written(y) ELSE y
    BY <2>1
  <2>3. /\ Len(x.buf) \in Nat /\ Len(x.buf) < Count /\ n \in Nat /\ n <= todo
        /\ x.stream \in Seq(Bytes) /\ Count \in Nat
    BY <1>1, Fields, Bounds DEF PipeInv, CountInv
  <2>4. x.reqs[1].id = h /\ h \in Ids /\ Waiting(x, h)
    BY <1>1, <1>3, FirstQueued DEF PipeInv
  <2> HIDE DEF h, todo
  <2>5. /\ y \in Xfilepipe /\ Same(x, y) /\ y.reqs = x.reqs /\ y.reply = x.reply
        /\ y.stream = x.stream \o BytesOf(h, Len(x.buf), n)
        /\ y.stream \in Seq(Bytes) /\ Len(y.stream) = Len(x.stream) + n
        /\ Len(y.buf) = Len(x.buf) + n
    BY <2>2, Fields DEF Put, h
  <2>6. /\ InOrder(x.stream, h, Len(x.buf)) => InOrder(y.stream, h, Len(x.buf) + n)
        /\ \A i \in Ids \ {h} : \A k \in Nat : InOrder(x.stream, i, k) => InOrder(y.stream, i, k)
    <3>1. PICK m \in Nat : m = Len(x.buf)
      BY <2>3
    <3>2. PICK s \in Seq(Bytes) : s = x.stream
      BY <2>3
    <3>3. n \in Nat /\ h \in Ids
      BY <2>3, <2>4
    <3>4. /\ InOrder(s, h, m) => InOrder(s \o BytesOf(h, m, n), h, m + n)
          /\ \A i \in Ids \ {h} : \A k \in Nat :
                 InOrder(s, i, k) => InOrder(s \o BytesOf(h, m, n), i, k)
      BY <3>3, InOrderAppended
    <3>5. y.stream = s \o BytesOf(h, m, n)
      BY <2>5, <3>1, <3>2
    <3> QED BY <3>1, <3>2, <3>4, <3>5
  <2>7. InOrder(y.stream, h, Len(x.buf) + n)
    <3>1. Passed(x, h) = Len(x.buf) /\ x.reply[h].type \in Claims
      BY <2>4 DEF Passed, Waiting, Claims
    <3> QED BY <2>4, <2>6, <3>1 DEF WroteInv
  <2>8. ASSUME NEW id \in Ids, id # h, x.reply[id].type \in Claims
        PROVE  /\ InOrder(y.stream, id, Passed(x, id))
               /\ Passed(x, id) = IF x.reply[id].type = "Rwrite" THEN x.reply[id].count ELSE 0
    <3>1. Passed(x, id) = IF x.reply[id].type = "Rwrite" THEN x.reply[id].count ELSE 0
      BY <2>4, <2>8 DEF Passed
    <3>2. x.reply[id].count \in Nat
      <4>1. x.reply[id] \in Replies
        BY <1>1, Fields
      <4>2. x.reply[id].count \in 0..Count
        BY <4>1 DEF Replies
      <4> QED BY <2>3, <4>2
    <3>3. Passed(x, id) \in Nat
      BY <3>1, <3>2
    <3>4. InOrder(x.stream, id, Passed(x, id))
      BY <2>8 DEF WroteInv
    <3> QED BY <2>6, <2>8, <3>1, <3>3, <3>4
  <2>9. CASE n > 0 /\ n = todo
    <3> DEFINE z == Written(y)
    <3>1. QueueInv(y) /\ ClientInv(y)
      <4>1. \A i : Waiting(y, i) <=> Waiting(x, i)
        BY <2>5 DEF Waiting
      <4>2. QueuedIds(y) = QueuedIds(x)
        BY <2>5 DEF QueuedIds
      <4> QED BY <2>5, <4>1, <4>2 DEF PipeInv, QueueInv, ClientInv, Same
    <3>2. y.reqs # <<>> /\ y.direction = "Write" /\ Head(y.reqs).id = h
      BY <1>3, <2>5 DEF Same, h
    <3>3. /\ Same(y, z) /\ z.stream = y.stream /\ z.buf = <<>>
          /\ z.reply[h].type = "Rwrite" /\ z.reply[h].count = Count
          /\ \A id \in Ids : id # h => z.reply[id] = y.reply[id]
      BY <2>5, <3>1, <3>2, WrittenKeeps
    <3>4. pip_write(x) = z
      BY <2>2, <2>9
    <3> HIDE DEF z
    <3>5. Len(z.buf) = 0
      BY <3>3
    <3>6. Len(x.buf) + n = Count
      BY <2>3, <2>9 DEF todo
    <3>7. ASSUME NEW id \in Ids, z.reply[id].type \in Claims
          PROVE  InOrder(z.stream, id, Passed(z, id))
      <4>1. CASE id = h
        BY <2>7, <3>3, <3>6, <4>1 DEF Passed
      <4>2. CASE id # h
        <5>1. z.reply[id] = x.reply[id]
          BY <2>5, <3>3, <4>2
        <5>2. Passed(z, id) = IF x.reply[id].type = "Rwrite" THEN x.reply[id].count ELSE 0
          BY <3>5, <5>1 DEF Passed
        <5> QED BY <2>8, <3>3, <3>7, <4>2, <5>1, <5>2
      <4> QED BY <4>1, <4>2
    <3>8. WroteInv(z)
      BY <3>3, <3>7 DEF WroteInv
    <3> QED BY <3>4, <3>8
  <2>10. CASE ~(n > 0 /\ n = todo)
    <3>1. pip_write(x) = y
      BY <2>2, <2>10
    <3>2. ASSUME NEW id \in Ids, y.reply[id].type \in Claims
          PROVE  InOrder(y.stream, id, Passed(y, id))
      <4>1. CASE id = h
        <5>1. Passed(y, h) = Len(x.buf) + n
          BY <2>4, <2>5 DEF Passed, Waiting
        <5> QED BY <2>7, <4>1, <5>1
      <4>2. CASE id # h
        <5>1. Passed(y, id) = IF x.reply[id].type = "Rwrite" THEN x.reply[id].count ELSE 0
          BY <2>4, <2>5, <4>2 DEF Passed
        <5> QED BY <2>5, <2>8, <3>2, <4>2, <5>1
      <4> QED BY <4>1, <4>2
    <3>3. WroteInv(y)
      BY <1>3, <2>5, <3>2 DEF WroteInv
    <3> QED BY <3>1, <3>3
  <2> QED BY <2>9, <2>10
<1> QED BY <1>2, <1>3

\* A write that is refused is told what has passed of it.
LEMMA RefuseWritesWrote ==
    ASSUME NEW x, PipeInv(x), WroteInv(x), x.direction = "Write"
    PROVE  WroteInv(RefuseWrites(x))
<1>1. x \in Xfilepipe
  BY DEF PipeInv, CountInv
<1>2. CASE x.reqs = <<>>
  BY <1>2 DEF RefuseWrites
<1>3. CASE x.reqs # <<>>
  <2> DEFINE h == Head(x.reqs).id
             n(id) == IF id = h THEN Len(x.buf) ELSE 0
             r == [id \in Ids |-> IF id \in QueuedIds(x)
                                  THEN Rwrite(x.reply[id], n(id)) ELSE x.reply[id]]
             y == RefuseWrites(x)
  <2>1. y = [x EXCEPT !.reply = r, !.reqs = <<>>, !.buf = <<>>]
    BY <1>1, <1>3 DEF RefuseWrites, Xfilepipe
  <2>2. x.reqs[1].id = h
    BY <1>1, <1>3, FirstQueued DEF PipeInv
  <2> HIDE DEF h, y
  <2>3. /\ y.direction = x.direction /\ y.flags = x.flags /\ y.reqs = <<>> /\ y.buf = <<>>
        /\ y.reply = r /\ y.stream = x.stream
    BY <1>1, <2>1 DEF Xfilepipe
  <2>4. ASSUME NEW id \in Ids, y.reply[id].type \in Claims
        PROVE  x.reply[id].type \in Claims /\ Passed(y, id) = Passed(x, id)
    <3>1. CASE id \in QueuedIds(x)
      <4>1. x.reply[id] \in Replies
        BY <1>1, Fields
      <4>2. y.reply[id] = Rwrite(x.reply[id], n(id))
        BY <2>3, <3>1
      <4>3. y.reply[id].type = "Rwrite" /\ y.reply[id].count = n(id)
        BY <4>1, <4>2 DEF Rwrite, Replies
      <4>4. Waiting(x, id)
        BY <3>1 DEF PipeInv, QueueInv
      <4> QED BY <2>2, <4>3, <4>4 DEF Passed, Waiting, Claims
    <3>2. CASE id \notin QueuedIds(x)
      <4>1. y.reply[id] = x.reply[id]
        BY <2>3, <3>2
      <4>2. ~Waiting(x, id)
        BY <3>2 DEF PipeInv, QueueInv
      <4> QED BY <2>4, <4>1, <4>2, PassedNotWaiting
    <3> QED BY <3>1, <3>2
  <2>5. WroteInv(y)
    BY <2>3, <2>4, WroteSame
  <2> QED BY <2>5 DEF y
<1> QED BY <1>2, <1>3


\* pip_disconnect
LEMMA DisconnectWrote ==
    ASSUME NEW x, PipeInv(x), WroteInv(x), x.direction = "Write"
    PROVE  WroteInv(pip_disconnect(x))
<1> DEFINE c == [x EXCEPT !.lspfd = FALSE]
<1>1. x \in Xfilepipe
  BY DEF PipeInv, CountInv
<1>2. pip_disconnect(x) = RefuseWrites(c)
  BY DEF pip_disconnect, Xfilepipe
<1>3. c \in Xfilepipe
  BY <1>1 DEF Xfilepipe
<1>4. /\ c.direction = x.direction /\ c.peer = x.peer /\ c.flags = x.flags
      /\ c.buf = x.buf /\ c.reqs = x.reqs /\ c.stream = x.stream /\ c.taken = x.taken
      /\ c.reply = x.reply
  BY <1>1 DEF Xfilepipe
<1> HIDE DEF c
<1>5. /\ \A id : Waiting(c, id) <=> Waiting(x, id)
      /\ QueuedIds(c) = QueuedIds(x) /\ Fill(c) = Fill(x)
  BY <1>4 DEF Waiting, QueuedIds, Fill
<1>6. CountInv(c) /\ QueueInv(c) /\ ClientInv(c)
  BY <1>3, <1>4, <1>5 DEF PipeInv, CountInv, QueueInv, ClientInv
<1>7. PipeInv(c)
  BY <1>4, <1>6 DEF PipeInv, StreamInv, DataInv
<1>8. \A id \in Ids : Passed(c, id) = Passed(x, id)
  BY <1>4, <1>5 DEF Passed
<1>9. WroteInv(c)
  BY <1>4, <1>8, WroteSame DEF WroteInv
<1> QED BY <1>2, <1>4, <1>7, <1>9, RefuseWritesWrote

\* pip_notify
LEMMA NotifyWrote ==
    ASSUME NEW x, PipeInv(x), WroteInv(x), x.direction = "Write"
    PROVE  WroteInv(pip_notify(x))
<1> DEFINE y == IF Reads(x) THEN pip_read(x) ELSE x
           z == IF "Writable" \in y.flags THEN pip_write(y) ELSE y
           e == pip_read_eof(z)
<1>1. pip_notify(x) = IF "Error" \in z.flags THEN pip_disconnect(e) ELSE z
  BY DEF pip_notify
<1>2. PipeInv(y) /\ WroteInv(y) /\ y.direction = "Write"
  BY PipReadKeeps, PipReadWrote DEF Same
<1> HIDE DEF y
<1>3. PipeInv(z) /\ WroteInv(z) /\ z.direction = "Write"
  BY <1>2, PipWriteKeeps, PipWriteWrote DEF Same
<1> HIDE DEF z
<1>4. PipeInv(e) /\ WroteInv(e) /\ e.direction = "Write"
  <2>1. Fill(z) \in Nat
    BY <1>3, Fields DEF PipeInv, CountInv, Fill
  <2> QED BY <1>3, <2>1, SpfdReadKeeps, SpfdReadWrote DEF pip_read_eof, Same
<1> HIDE DEF e
<1> QED BY <1>1, <1>3, <1>4, DisconnectWrote

\* A request goes behind those of the same fid.
LEMMA QueuedLast ==
    ASSUME NEW s \in Seq(Xpipereq), NEW r \in Xpipereq, \A i \in DOMAIN s : s[i].fid = r.fid
    PROVE  /\ Queued(s, r) # <<>>
           /\ s # <<>> => Queued(s, r)[1] = s[1]
<1>1. Len(s) \in Nat /\ DOMAIN s = 1..Len(s)
  OBVIOUS
<1>2. r.fid \in Nat
  BY Bounds DEF Xpipereq
<1>3. {i \in DOMAIN s : s[i].fid > r.fid} = {}
  BY <1>2
<1>4. PICK n \in 1..(Len(s) + 1) : n = Len(s) + 1
  BY <1>1
<1>5. Queued(s, r) = InsertAt(s, n, r)
  BY <1>3, <1>4 DEF Queued
<1>6. PICK q \in Seq(Xpipereq) :
          /\ q = Queued(s, r) /\ Len(q) = Len(s) + 1
          /\ \A i \in 1..(Len(s) + 1) : q[i] = IF i < n THEN s[i] ELSE IF i = n THEN r ELSE s[i - 1]
  <2>1. /\ InsertAt(s, n, r) \in Seq(Xpipereq)
        /\ Len(InsertAt(s, n, r)) = Len(s) + 1
        /\ \A i \in 1..(Len(s) + 1) :
               InsertAt(s, n, r)[i] = IF i < n THEN s[i] ELSE IF i = n THEN r ELSE s[i - 1]
    BY <1>4, Inserted
  <2> QED BY <1>5, <2>1
<1>7. /\ Len(q) = Len(s) + 1
      /\ \A i \in 1..(Len(s) + 1) : q[i] = IF i < Len(s) + 1 THEN s[i]
                                           ELSE IF i = Len(s) + 1 THEN r ELSE s[i - 1]
  BY <1>4, <1>6
<1>8. q # <<>>
  BY <1>1, <1>7
<1>9. ASSUME s # <<>>
      PROVE  q[1] = s[1]
  <2>1. Len(s) >= 1
    BY <1>1, <1>9, EmptySeq
  <2>2. 1 \in 1..(Len(s) + 1) /\ 1 < Len(s) + 1
    BY <1>1, <2>1
  <2> QED BY <1>7, <2>2
<1> QED BY <1>6, <1>8, <1>9

\* A write that is sent goes behind those that wait; nothing of it has passed.
LEMMA SentWrote ==
    ASSUME NEW x, x \in Xfilepipe, QueueInv(x), WroteInv(x), x.direction = "Write",
           "Error" \notin x.flags, NEW f \in Readers \cup Writers, NEW id \in Ids,
           MaySend(x, f, id)
    PROVE  WroteInv(Sent(x, f, id))
<1> DEFINE s == Sent(x, f, id)
           r == [fid |-> f, id |-> id]
<1>1. x.reply[id].type = "unsent"
  BY Bounds DEF MaySend, Ids
<1>2. /\ s \in Xfilepipe /\ Same(x, s)
      /\ s.flags = x.flags /\ s.buf = x.buf /\ s.stream = x.stream
      /\ s.reqs = Queued(x.reqs, r)
      /\ s.reply[id].type = "waiting"
      /\ \A i \in Ids \ {id} : s.reply[i] = x.reply[i]
  BY SentFields
<1>3. /\ r \in Xpipereq /\ r.fid = f /\ r.id = id
      /\ x.reqs \in Seq(Xpipereq) /\ DOMAIN x.reqs = 1..Len(x.reqs) /\ Len(x.reqs) \in Nat
      /\ \A i \in DOMAIN x.reqs : x.reqs[i].id \in Ids
  BY Fields DEF Xpipereq
<1> HIDE DEF s, r
<1>4. \A i \in DOMAIN x.reqs : /\ Waiting(x, x.reqs[i].id)
                               /\ x.reqs[i].fid = r.fid
  <2> SUFFICES ASSUME NEW i \in DOMAIN x.reqs
               PROVE  Waiting(x, x.reqs[i].id) /\ x.reqs[i].fid = r.fid
    OBVIOUS
  <2>1. x.reqs[i].id \in Ids /\ Waiting(x, x.reqs[i].id)
    BY <1>3, QueuedAt DEF QueueInv
  <2>2. x.reply[x.reqs[i].id].fid = f
    BY <2>1 DEF MaySend
  <2> QED BY <1>3, <2>1, <2>2 DEF QueueInv
<1>5. s.reqs # <<>> /\ (x.reqs # <<>> => s.reqs[1] = x.reqs[1])
  BY <1>2, <1>3, <1>4, QueuedLast
<1>6. x.reqs = <<>> => x.buf = <<>>
  BY DEF WroteInv
<1>7. x.reqs # <<>> => 1 \in DOMAIN x.reqs
  BY <1>3, EmptySeq
<1>8. ASSUME NEW i \in Ids, s.reply[i].type \in Claims
      PROVE  x.reply[i].type \in Claims /\ Passed(s, i) = Passed(x, i)
  <2>1. CASE x.reqs = <<>>
    <3>1. Len(s.buf) = 0 /\ Len(x.buf) = 0
      BY <1>2, <1>6, <2>1
    <3>2. \A j \in Ids : ~Waiting(x, j)
      BY <1>3, <2>1, QueuedAt DEF QueueInv
    <3>3. CASE i = id
      BY <1>1, <1>2, <3>1, <3>3 DEF Passed, Claims, Waiting
    <3>4. CASE i # id
      BY <1>2, <1>8, <3>2, <3>4, PassedNotWaiting
    <3> QED BY <3>3, <3>4
  <2>2. CASE x.reqs # <<>>
    <3>1. s.reqs[1] = x.reqs[1] /\ Waiting(x, x.reqs[1].id)
      BY <1>4, <1>5, <1>7, <2>2
    <3>2. CASE i = id
      <4>1. s.reqs[1].id # id
        BY <1>1, <3>1 DEF Waiting
      <4> QED BY <1>1, <1>2, <3>2, <4>1 DEF Passed, Claims, Waiting
    <3>3. CASE i # id
      <4>1. s.reply[i] = x.reply[i] /\ s.buf = x.buf
        BY <1>2, <3>3
      <4> QED BY <1>8, <3>1, <4>1 DEF Passed, Waiting
    <3> QED BY <3>2, <3>3
  <2> QED BY <2>1, <2>2
<1>9. WroteInv(s)
  BY <1>2, <1>5, <1>8, WroteSame DEF Same
<1> QED BY <1>9 DEF s

\* pip_addreq of a write
LEMMA AddedWrote ==
    ASSUME NEW x, StableInv(x), WroteInv(x), x.direction = "Write",
           NEW f \in Readers \cup Writers, NEW id \in Ids, MaySend(x, f, id)
    PROVE  WroteInv(Added(x, [fid |-> f, id |-> id]))
<1> DEFINE s == Sent(x, f, id)
           y == Added(x, [fid |-> f, id |-> id])
<1>1. x \in Xfilepipe
  BY DEF StableInv, CountInv
<1>2. y = IF x.lspfd THEN pip_notify(s) ELSE [s EXCEPT !.reply[id].type = "Rerror"]
  BY DEF Added, Sent
<1>3. CASE x.lspfd
  <2>1. PipeInv(x) /\ "Error" \notin x.flags
    BY <1>3 DEF StableInv, PipeInv
  <2>2. PipeInv(s)
    BY <2>1, SentKeeps
  <2>3. WroteInv(s)
    BY <1>1, <2>1, SentWrote DEF PipeInv
  <2>4. s.direction = "Write"
    BY <1>1, SentFields DEF Same
  <2> HIDE DEF s, y
  <2>5. WroteInv(y)
    BY <1>2, <1>3, <2>2, <2>3, <2>4, NotifyWrote
  <2> QED BY <2>5 DEF y
<1>4. CASE ~x.lspfd
  <2>1. /\ s \in Xfilepipe /\ Same(x, s) /\ s.stream = x.stream
        /\ s.reqs = Queued(x.reqs, [fid |-> f, id |-> id])
        /\ \A i \in Ids \ {id} : s.reply[i] = x.reply[i]
    BY <1>1, SentFields
  <2>2. y = [s EXCEPT !.reply[id].type = "Rerror"]
    BY <1>2, <1>4
  <2>3. s.reqs # <<>>
    <3>1. PICK r \in Xpipereq : r = [fid |-> f, id |-> id]
      BY DEF Xpipereq
    <3>2. x.reqs \in Seq(Xpipereq) /\ Len(x.reqs) \in Nat
      BY <1>1, Fields
    <3>3. DOMAIN Queued(x.reqs, r) = 1..(Len(x.reqs) + 1)
      BY <3>2, QueuedElements DEF IsQueued
    <3>4. 1 \in DOMAIN Queued(x.reqs, r)
      BY <3>2, <3>3
    <3> QED BY <2>1, <3>1, <3>4
  <2> HIDE DEF s, y
  <2>4. s.reply \in [Ids -> Replies] /\ s.reply[id] \in Replies
    BY <2>1, Fields
  <2>5. /\ y.direction = x.direction /\ y.stream = x.stream /\ y.reqs # <<>>
        /\ y.reply[id].type = "Rerror" /\ \A i \in Ids \ {id} : y.reply[i] = x.reply[i]
    <3> DEFINE w == [s.reply[id] EXCEPT !.type = "Rerror"]
    <3>1. y = [s EXCEPT !.reply = [s.reply EXCEPT ![id] = w]]
      BY <2>1, <2>2, <2>4 DEF Xfilepipe
    <3>2. w.type = "Rerror"
      BY <2>4 DEF Replies
    <3> HIDE DEF w
    <3>3. /\ y.direction = s.direction /\ y.stream = s.stream /\ y.reqs = s.reqs
          /\ y.reply = [s.reply EXCEPT ![id] = w]
      BY <2>1, <3>1 DEF Xfilepipe
    <3> QED BY <2>1, <2>3, <2>4, <3>2, <3>3 DEF Same
  <2>6. ASSUME NEW i \in Ids, y.reply[i].type \in Claims
        PROVE  x.reply[i].type \in Claims /\ Passed(y, i) = Passed(x, i)
    <3>1. i # id
      BY <2>5, <2>6 DEF Claims
    <3>2. y.reply[i] = x.reply[i] /\ ~Waiting(x, i)
      BY <1>4, <2>5, <3>1 DEF StableInv, ClosedInv
    <3> QED BY <2>6, <3>2, PassedNotWaiting
  <2>7. WroteInv(y)
    BY <2>5, <2>6, WroteSame
  <2> QED BY <2>7 DEF y
<1> QED BY <1>3, <1>4

\* A write of which no part has passed leaves the queue.
LEMMA FlushWrote ==
    ASSUME NEW x, StableInv(x), WroteInv(x), x.direction = "Write", NEW id \in Ids,
           Waiting(x, id), NEW i \in DOMAIN x.reqs, x.reqs[i].id = id,
           i # 1 \/ x.buf = <<>>
    PROVE  WroteInv([x EXCEPT !.reqs = RemoveAt(@, i), !.reply[id].type = "Rflush"])
<1> DEFINE q == RemoveAt(x.reqs, i)
           w == [x.reply[id] EXCEPT !.type = "Rflush"]
           y == [x EXCEPT !.reqs = q, !.reply = [x.reply EXCEPT ![id] = w]]
<1>1. x \in Xfilepipe
  BY DEF StableInv, CountInv
<1>2. /\ x.reply \in [Ids -> Replies] /\ x.reply[id] \in Replies
      /\ x.reqs \in Seq(Xpipereq) /\ Len(x.reqs) \in Nat /\ DOMAIN x.reqs = 1..Len(x.reqs)
  BY <1>1, Fields
<1>3. y = [x EXCEPT !.reqs = RemoveAt(@, i), !.reply[id].type = "Rflush"]
  BY <1>1, <1>2 DEF Xfilepipe
<1>4. w.type = "Rflush"
  BY <1>2 DEF Replies
<1>5. /\ q \in Seq(Xpipereq) /\ Len(q) = Len(x.reqs) - 1
      /\ \A j \in 1..(Len(x.reqs) - 1) : q[j] = IF j < i THEN x.reqs[j] ELSE x.reqs[j + 1]
  <2> HIDE DEF w, y
  <2>1. PICK p \in Seq(Xpipereq) : p = x.reqs
    BY <1>2
  <2>2. i \in 1..Len(p)
    BY <1>2, <2>1
  <2>3. /\ RemoveAt(p, i) \in Seq(Xpipereq) /\ Len(RemoveAt(p, i)) = Len(p) - 1
        /\ \A j \in 1..(Len(p) - 1) : RemoveAt(p, i)[j] = IF j < i THEN p[j] ELSE p[j + 1]
    BY <2>2, Removed
  <2> QED BY <2>1, <2>3
<1> HIDE DEF w, q
<1>6. /\ y.direction = x.direction /\ y.flags = x.flags /\ y.buf = x.buf
      /\ y.stream = x.stream /\ y.reqs = q
      /\ y.reply[id] = w /\ \A j \in Ids \ {id} : y.reply[j] = x.reply[j]
  BY <1>1, <1>2 DEF Xfilepipe
<1> HIDE DEF y
<1>7. i # 1 => q[1] = x.reqs[1] /\ q # <<>>
  <2> SUFFICES ASSUME i # 1 PROVE q[1] = x.reqs[1] /\ q # <<>>
    OBVIOUS
  <2>1. 1 \in 1..(Len(x.reqs) - 1) /\ 1 < i
    BY <1>2
  <2>2. Len(q) >= 1
    BY <1>2, <1>5, <2>1
  <2> QED BY <1>5, <2>1, <2>2
<1>8. ASSUME NEW j \in Ids, y.reply[j].type \in Claims
      PROVE  x.reply[j].type \in Claims /\ Passed(y, j) = Passed(x, j)
  <2>1. j # id
    BY <1>4, <1>6, <1>8 DEF Claims
  <2>2. y.reply[j] = x.reply[j]
    BY <1>6, <2>1
  <2>3. CASE i = 1
    <3>1. Len(y.buf) = 0 /\ Len(x.buf) = 0
      BY <1>6, <2>3
    <3> QED BY <1>8, <2>2, <3>1 DEF Passed, Waiting
  <2>4. CASE i # 1
    BY <1>6, <1>7, <1>8, <2>2, <2>4 DEF Passed, Waiting
  <2> QED BY <2>3, <2>4
<1>9. WroteInv(y)
  BY <1>6, <1>7, <1>8, WroteSame
<1> QED BY <1>3, <1>9 DEF y

\* The poll loop
LEMMA PollWrote ==
    ASSUME NEW x, StableInv(x), WroteInv(x), x.direction = "Write", x.lspfd
    PROVE  WroteInv(pip_notify([x EXCEPT !.flags = @ \cup revents(x)]))
<1> DEFINE s == [x EXCEPT !.flags = x.flags \cup revents(x)]
<1>1. x \in Xfilepipe /\ CountInv(x) /\ x.flags \subseteq {"Readable", "Writable", "Error"}
  BY Fields DEF StableInv, CountInv
<1>2. /\ revents(x) \subseteq {"Readable", "Writable", "Error"}
      /\ "Readable" \notin revents(x)
      /\ "Error" \in revents(x) => ~x.peer
  BY DEF revents
<1>3. s \in Xfilepipe
  BY <1>1, <1>2 DEF Xfilepipe
<1>4. /\ s.direction = x.direction /\ s.lspfd = x.lspfd /\ s.peer = x.peer
      /\ s.flags = x.flags \cup revents(x) /\ s.buf = x.buf /\ s.reqs = x.reqs
      /\ s.stream = x.stream /\ s.taken = x.taken /\ s.reply = x.reply
  BY <1>1 DEF Xfilepipe
<1> HIDE DEF s
<1>5. /\ \A id : Waiting(s, id) <=> Waiting(x, id)
      /\ QueuedIds(s) = QueuedIds(x) /\ Fill(s) = Fill(x)
  BY <1>4 DEF QueuedIds, Fill, Waiting
<1>6. CountInv(s) /\ QueueInv(s) /\ ClientInv(s)
  BY <1>1, <1>2, <1>3, <1>4, <1>5 DEF StableInv, CountInv, QueueInv, ClientInv
<1>7. PipeInv(s)
  BY <1>4, <1>6 DEF PipeInv, StreamInv, DataInv
<1>8. \A id \in Ids : Passed(s, id) = Passed(x, id)
  BY <1>4, <1>5 DEF Passed
<1>9. WroteInv(s)
  BY <1>4, <1>8, WroteSame DEF WroteInv
<1>10. WroteInv(pip_notify(s))
  BY <1>4, <1>7, <1>9, NotifyWrote
<1> QED BY <1>10 DEF s

\* Each action keeps what is said of the writes.
LEMMA NextWrote ==
    ASSUME Careful, IInv, WroteInv(pipe), [Next]_pipe
    PROVE  WroteInv(pipe')
<1>1. StableInv(pipe) /\ pipe \in Xfilepipe /\ pipe.direction \in {"Read", "Write"}
  BY Fields DEF IInv, StableInv, CountInv
<1>2. CASE pipe.direction = "Write"
  <2>1. ASSUME NEW f \in Writers, NEW id \in Ids, filepipe_write(f, id)
        PROVE  WroteInv(pipe')
    <3>1. MaySend(pipe, f, id) /\ pipe' = Added(pipe, [fid |-> f, id |-> id])
      BY <2>1 DEF filepipe_write, ClientNext, MaySend
    <3>2. f \in Readers \cup Writers
      OBVIOUS
    <3> QED BY <1>1, <1>2, <3>1, <3>2, AddedWrote
  <2>2. ASSUME NEW id \in Ids, pip_flushreq(id)
        PROVE  WroteInv(pipe')
    <3>1. PICK i \in DOMAIN pipe.reqs :
              /\ pipe.reqs[i].id = id /\ (i # 1 \/ pipe.buf = <<>>)
              /\ pipe' = [pipe EXCEPT !.reqs = RemoveAt(@, i), !.reply[id].type = "Rflush"]
      BY <1>2, <2>2 DEF pip_flushreq
    <3>2. Waiting(pipe, id)
      BY <2>2 DEF pip_flushreq
    <3> QED BY <1>1, <1>2, <3>1, <3>2, FlushWrote
  <2>3. CASE sp_poll_once
    <3>1. pipe.lspfd /\ pipe' = pip_notify([pipe EXCEPT !.flags = @ \cup revents(pipe)])
      BY <2>3 DEF sp_poll_once, Polled
    <3> QED BY <1>1, <1>2, <3>1, PollWrote
  <2>4. CASE consume \/ exit \/ UNCHANGED pipe
    <3>1. /\ pipe'.direction = pipe.direction /\ pipe'.stream = pipe.stream
          /\ pipe'.flags = pipe.flags /\ pipe'.buf = pipe.buf /\ pipe'.reqs = pipe.reqs
          /\ pipe'.reply = pipe.reply
      BY <1>1, <2>4 DEF consume, exit, Xfilepipe
    <3>2. \A id \in Ids : Passed(pipe', id) = Passed(pipe, id)
      BY <3>1 DEF Passed, Waiting
    <3> QED BY <3>1, <3>2, WroteSame DEF WroteInv
  <2>5. ASSUME NEW f \in Readers, NEW id \in Ids PROVE ~filepipe_read(f, id)
    BY <1>2 DEF filepipe_read
  <2>6. ~produce
    BY <1>2 DEF produce
  <2> QED BY <2>1, <2>2, <2>3, <2>4, <2>5, <2>6 DEF Next
<1>3. CASE pipe.direction = "Read"
  <2>1. pipe'.direction = pipe.direction
    BY NextKeeps
  <2> QED BY <1>3, <2>1 DEF WroteInv
<1> QED BY <1>1, <1>2, <1>3


\* A write that is answered with n has put its first n bytes into the pipe, in order
\* and once each, whatever was sent, flushed or refused before and after it (pip_addreq,
\* pip_write, pip_flushreq and pip_disconnect of pipe.c).
THEOREM XPipeWritePassed ==
    ASSUME Careful
    PROVE  Spec => []WritePassed
<1> DEFINE R == pipe.direction = "Read" => \A id \in Ids : pipe.reply[id].type # "Rwrite"
<1>1. Init => IInv /\ WroteInv(pipe) /\ R
  <2> SUFFICES ASSUME NEW d \in {"Read", "Write"}, pipe = pip_create(d)
               PROVE  IInv /\ WroteInv(pipe) /\ R
    BY DEF Init
  <2>1. IInv
    BY Created DEF IInv
  <2>2. /\ pipe.buf = <<>> /\ pipe.reqs = <<>> /\ pipe.stream = <<>>
        /\ \A id \in Ids : pipe.reply[id].type = "unsent"
    BY DEF pip_create
  <2>3. \A id \in Ids : Passed(pipe, id) = 0
    BY <2>2 DEF Passed, Waiting
  <2>4. \A id \in Ids : InOrder(pipe.stream, id, 0)
    BY <2>2 DEF InOrder
  <2> QED BY <2>1, <2>2, <2>3, <2>4 DEF WroteInv
<1>2. (IInv /\ WroteInv(pipe) /\ R) /\ [Next]_pipe => (IInv /\ WroteInv(pipe) /\ R)'
  <2> SUFFICES ASSUME IInv, WroteInv(pipe), R, [Next]_pipe
               PROVE  (IInv /\ WroteInv(pipe) /\ R)'
    OBVIOUS
  <2>1. StableInv(pipe') /\ Alike(pipe, pipe') /\ pipe'.direction = pipe.direction
    BY NextKeeps
  <2>2. R'
    BY <2>1 DEF Alike
  <2> QED BY <2>1, <2>2, NextWrote DEF IInv
<1>3. ASSUME IInv, WroteInv(pipe), R
      PROVE  WritePassed
  <2>1. /\ pipe \in Xfilepipe /\ pipe.direction \in {"Read", "Write"}
        /\ pipe.stream \in Seq(Bytes)
    BY <1>3, Fields DEF IInv, StableInv, CountInv
  <2> SUFFICES ASSUME NEW id \in Ids, pipe.reply[id].type = "Rwrite"
               PROVE  LET places == {k \in DOMAIN pipe.stream : pipe.stream[k][1] = id}
                      IN  /\ {pipe.stream[k][2] : k \in places} = 1..pipe.reply[id].count
                          /\ \A k, l \in places : k < l => pipe.stream[k][2] < pipe.stream[l][2]
    BY DEF WritePassed
  <2>2. pipe.direction = "Write"
    BY <1>3, <2>1
  <2>3. InOrder(pipe.stream, id, pipe.reply[id].count)
    BY <1>3, <2>2 DEF WroteInv, Passed, Claims
  <2>4. \A j \in 1..pipe.reply[id].count :
            \E k \in DOMAIN pipe.stream : pipe.stream[k][1] = id /\ pipe.stream[k][2] = j
    <3> SUFFICES ASSUME NEW j \in 1..pipe.reply[id].count
                 PROVE  \E k \in DOMAIN pipe.stream : pipe.stream[k][1] = id /\ pipe.stream[k][2] = j
      OBVIOUS
    <3>1. PICK k \in DOMAIN pipe.stream : pipe.stream[k] = <<id, j>>
      BY <2>3 DEF InOrder
    <3> QED BY <3>1
  <2> QED BY <2>3, <2>4 DEF InOrder
<1>4. IInv /\ WroteInv(pipe) /\ R => WritePassed
  BY <1>3
<1> HIDE DEF R
<1> QED BY <1>1, <1>2, <1>4, PTL DEF Spec

=============================================================================
