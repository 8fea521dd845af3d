--------------------------- MODULE Tspawn_proofs ---------------------------
(***************************************************************************)
(* Proofs about Tspawn, for any list of nodes and any "max sessions": the  *)
(* types, and that the nodes fit, each is created once, and a clone        *)
(* command is answered when all is done.                                   *)
(***************************************************************************)
EXTENDS Tspawn, FiniteSetTheorems, TLAPS

-----------------------------------------------------------------------------
(* The inductive invariant                                                 *)

\* What a list of ns nodes has come to when i of them were looked at and idx
\* nodes created: the groups but the last are full, and of a node behind the
\* groups there is one for each.
Divided(ns, i, idx) ==
    /\ i < GroupsEnd(ns) => i = idx * GroupSize(ns) /\ idx < Groups(ns)
    /\ i >= GroupsEnd(ns) => idx = Groups(ns) + (i - GroupsEnd(ns))

SrvInv(k) ==
    LET s == srv[k] IN
    s.st # "idle" =>
        /\ s.lo <= s.hi
        /\ s.i <= Length(s)
        /\ s.st = "spawning" => s.i < Length(s)
        /\ s.st \in {"copying", "done"} => s.i = Length(s)
        /\ Divided(Length(s), s.i, s.idx)

\* The list of a server is that of the clone command it was sent.
ListInv ==
    /\ srv[0].st # "idle" => srv[0].lo = 1 /\ srv[0].hi = N
    /\ \A c \in Nodes : srv[c].st # "idle" =>
           /\ node[c].copy \notin {"none", "copying"}
           /\ srv[c].lo = node[c].lo
           /\ srv[c].hi = node[c].hi

\* Node d is still to be created: by server k, or by node c when it has the list.
InRest(k, d) == srv[k].st = "spawning" /\ srv[k].lo + srv[k].i <= d /\ d <= srv[k].hi

InPart(c, d) == node[c].copy = "copying" /\ node[c].lo <= d /\ d <= node[c].hi

\* Nobody else will create it, and nobody has.
RestInv ==
    \A d \in Nodes :
        /\ \A k \in Servers : InRest(k, d) =>
               /\ node[d].copy = "none"
               /\ \A l \in Servers : InRest(l, d) => l = k
               /\ \A c \in Nodes : ~InPart(c, d)
        /\ \A c \in Nodes : InPart(c, d) =>
               /\ node[d].copy = "none"
               /\ \A b \in Nodes : InPart(b, d) => b = c
        /\ srv[0].st = "idle" => node[d].copy = "none"

MadeInv ==
    \A c \in Nodes :
        /\ made[c] = (IF node[c].copy = "none" THEN 0 ELSE 1)
        /\ node[c].copy # "none" => srv[node[c].by].st # "idle"
        /\ node[c].copy = "dropped" => srv[node[c].by].st = "error"

\* The nodes a server is copying to
Copies(k) == {c \in Nodes : Busy(k, c)}

\* ndone counts the copies that have ended.
CountInv ==
    \A k \in Servers :
        /\ srv[k].st \in {"spawning", "copying", "done"} =>
               srv[k].idx = srv[k].ndone + Cardinality(Copies(k))
        /\ srv[k].st = "copying" => srv[k].ndone < NNodes(Length(srv[k]))
        /\ srv[k].st = "done" => srv[k].ndone >= NNodes(Length(srv[k]))
        /\ srv[k].st = "error" => Copies(k) = {}

\* The nodes a server has looked at are its own, or in a part of the list.
CoverInv ==
    \A k \in Servers, d \in Nodes :
        (srv[k].st # "idle" /\ srv[k].lo <= d /\ d < srv[k].lo + srv[k].i) =>
            \E c \in Nodes :
                /\ node[c].copy # "none"
                /\ node[c].by = k
                /\ d = c \/ (node[c].lo <= d /\ d <= node[c].hi)

Failed == \E c \in Nodes : node[c].copy = "failed"

\* A node that has been copied to has seen to its part of the list.
PartInv ==
    Failed \/ \A c, d \in Nodes :
        (node[c].copy = "copied" /\ node[c].lo <= d /\ d <= node[c].hi) =>
            node[d].copy = "copied"

IInv ==
    /\ TypeOK
    /\ \A k \in Servers : SrvInv(k)
    /\ ListInv
    /\ RestInv
    /\ MadeInv
    /\ CountInv
    /\ CoverInv
    /\ PartInv

-----------------------------------------------------------------------------
(* The division of a list                                                  *)

\* The ceiling division gives the least number of parts.
LEMMA CeilDivLeast ==
    ASSUME NEW a \in Nat, NEW b \in Nat \ {0}
    PROVE  /\ CeilDiv(a, b) \in Nat
           /\ b * CeilDiv(a, b) >= a
           /\ a = 0 => CeilDiv(a, b) = 0
           /\ a > 0 => CeilDiv(a, b) > 0 /\ b * (CeilDiv(a, b) - 1) < a
<1> DEFINE q == a \div b
           r == a % b
<1>1. q \in Nat /\ r \in 0..(b - 1) /\ a = b * q + r
  OBVIOUS
<1>2. b * (q + 1) = b * q + b /\ b * q \in Nat
  BY <1>1
<1>3. a > 0 /\ r = 0 => q > 0 /\ b * (q - 1) = b * q - b
  BY <1>1
<1>4. a = 0 => q = 0 /\ r = 0
  BY <1>1
<1> QED
  BY <1>1, <1>2, <1>3, <1>4 DEF CeilDiv
\* With the least numbers of parts, the groups end within the list, and they and
\* the nodes behind them are as many as the server copies to.
LEMMA Sizes ==
    ASSUME NEW ns \in Nat \ {0}, max \in Int
    PROVE  /\ NNodes(ns) \in 1..ns
           /\ GroupSize(ns) \in Nat \ {0}
           /\ Groups(ns) \in Nat
           /\ GroupsEnd(ns) \in 0..ns
           /\ Groups(ns) + (ns - GroupsEnd(ns)) = NNodes(ns)
           /\ GroupsEnd(ns) <= Groups(ns) * GroupSize(ns)
           /\ Groups(ns) > 0 => (Groups(ns) - 1) * GroupSize(ns) < GroupsEnd(ns)
           /\ Groups(ns) = 0 => GroupsEnd(ns) = 0
<1> DEFINE n == NNodes(ns)
           m == GroupSize(ns)
           g == Groups(ns)
           ce == GroupsEnd(ns)
<1>1. n \in 1..ns
  BY DEF NNodes, Lesser
<1>2. max > 0 => m = CeilDiv(ns, n)
  BY DEF GroupSize
<1>3. max <= 0 => m = 1 /\ n = ns
  BY DEF GroupSize, NNodes
<1>4. m \in Nat \ {0} /\ n * m >= ns
  <2> HIDE DEF n, m
  <2>1. n \in Nat \ {0}
    BY <1>1
  <2>2. /\ CeilDiv(ns, n) \in Nat
        /\ n * CeilDiv(ns, n) >= ns
        /\ CeilDiv(ns, n) > 0
    BY <2>1, CeilDivLeast
  <2>3. CASE max > 0
    BY <1>2, <2>2, <2>3
  <2>4. CASE max <= 0
    BY <1>1, <1>3, <2>4
  <2> QED
    BY <2>3, <2>4
<1>5. ce = ns - n + g
  BY DEF GroupsEnd
<1>6. CASE m > 1
  <2>1. g = CeilDiv(ns - n, m - 1)
    BY <1>6 DEF Groups
  <2>2. ns - n \in Nat /\ m - 1 \in Nat \ {0}
    BY <1>1, <1>4, <1>6
  <2> HIDE DEF n, m, g, ce
  <2>3. /\ g \in Nat
        /\ (m - 1) * g >= ns - n
        /\ ns - n = 0 => g = 0
        /\ ns - n > 0 => g > 0 /\ (m - 1) * (g - 1) < ns - n
    BY <2>1, <2>2, CeilDivLeast
  <2>4. (m - 1) * g = g * m - g /\ g * m \in Nat
    BY <1>4, <2>3
  <2>5. g > 0 => (m - 1) * (g - 1) = g * m - g - m + 1 /\ (g - 1) * m = g * m - m
    BY <1>4, <2>3
  <2>6. g <= n
    <3>1. SUFFICES ASSUME g >= n + 1 PROVE FALSE
      BY <1>1, <2>3
    <3>2. ns - n > 0
      BY <1>1, <2>2, <2>3, <3>1
    <3>3. (m - 1) * (g - 1) >= (m - 1) * n
      BY <1>1, <2>2, <2>3, <3>1
    <3>4. (m - 1) * n = n * m - n
      BY <1>1, <1>4
    <3> QED
      BY <1>1, <1>4, <2>2, <2>3, <3>2, <3>3, <3>4
  <2>7. /\ ce \in 0..ns
        /\ g + (ns - ce) = n
        /\ ce <= g * m
        /\ g > 0 => (g - 1) * m < ce
        /\ g = 0 => ce = 0
    BY <1>1, <1>4, <1>5, <2>2, <2>3, <2>4, <2>5, <2>6
  <2> QED
    BY <1>1, <1>4, <2>3, <2>7 DEF n, m, g, ce
<1>7. CASE m = 1
  <2>1. g = 0
    BY <1>7 DEF Groups
  <2>2. n = ns
    BY <1>1, <1>4, <1>7
  <2> QED
    BY <1>1, <1>4, <1>5, <2>1, <2>2
<1> QED
  BY <1>4, <1>6, <1>7

\* A turn of the loops ends within the list and keeps the division.
LEMMA NextGroup ==
    ASSUME NEW ns \in Nat \ {0}, max \in Int,
           NEW i \in Nat, NEW idx \in Nat, i < ns, Divided(ns, i, idx)
    PROVE  /\ EndOfGroup(ns, i) \in (i + 1)..ns
           /\ Divided(ns, EndOfGroup(ns, i), idx + 1)
<1> DEFINE n == NNodes(ns)
           m == GroupSize(ns)
           g == Groups(ns)
           ce == GroupsEnd(ns)
           e == EndOfGroup(ns, i)
<1>1. /\ m \in Nat \ {0} /\ g \in Nat /\ ce \in 0..ns
      /\ ce <= g * m
      /\ g > 0 => (g - 1) * m < ce
  BY Sizes
<1>2. CASE i >= ce
  <2>1. e = i + 1
    BY <1>2, <1>1 DEF EndOfGroup
  <2>2. idx = g + (i - ce)
    BY <1>2 DEF Divided
  <2> HIDE DEF g, ce, e, m
  <2>3. e \in (i + 1)..ns /\ e >= ce /\ idx + 1 = g + (e - ce)
    BY <1>1, <1>2, <2>1, <2>2
  <2>4. ~(e < ce)
    BY <1>1, <2>1, <2>3
  <2> QED
    BY <2>3, <2>4 DEF Divided, g, ce, e
<1>3. CASE i < ce
  <2>1. e = IF i + m < ce THEN i + m ELSE ce
    BY <1>3 DEF EndOfGroup, Lesser
  <2>2. i = idx * m /\ idx < g
    BY <1>3 DEF Divided
  <2>3. (idx + 1) * m = i + m
    BY <1>1, <2>2
  <2>4. idx + 1 = g => e = ce
    BY <1>1, <2>1, <2>2, <2>3
  <2>5. idx + 1 < g => (idx + 1) * m < ce
    <3>1. SUFFICES ASSUME idx + 1 <= g - 1 PROVE (idx + 1) * m < ce
      BY <1>1
    <3>2. (idx + 1) * m <= (g - 1) * m
      BY <1>1, <3>1
    <3> QED
      BY <1>1, <2>2, <3>2
  <2>6. CASE idx + 1 = g
    <3>1. e = ce
      BY <2>4, <2>6
    <3> QED
      BY <1>1, <1>3, <2>6, <3>1 DEF Divided
  <2>7. CASE idx + 1 < g
    <3>1. e = (idx + 1) * m /\ e < ce /\ e = i + m
      BY <1>1, <2>1, <2>3, <2>5, <2>7
    <3> QED
      BY <1>1, <2>7, <3>1 DEF Divided
  <2> QED
    BY <1>1, <2>2, <2>6, <2>7
<1> QED
  BY <1>1, <1>2, <1>3

\* The nodes fit, and there are as many as the server waits for at the end.
LEMMA AllNodes ==
    ASSUME NEW ns \in Nat \ {0}, max \in Int,
           NEW i \in 0..ns, NEW idx \in Nat, Divided(ns, i, idx)
    PROVE  /\ idx <= NNodes(ns)
           /\ i = ns => idx = NNodes(ns)
<1> QED
  BY Sizes DEF Divided
-----------------------------------------------------------------------------
(* What the invariant says of the properties                               *)

LEMMA CopiesFinite ==
    \A k : IsFiniteSet(Copies(k))
<1>1. IsFiniteSet(Nodes)
  BY FS_Interval, TspawnAssumption DEF Nodes
<1> QED
  BY <1>1, FS_Subset DEF Copies

LEMMA LengthType ==
    ASSUME TypeOK, NEW k \in Servers, SrvInv(k), srv[k].st # "idle"
    PROVE  /\ Length(srv[k]) \in Nat \ {0}
           /\ srv[k].i \in 0..Length(srv[k])
           /\ srv[k].idx \in Nat
           /\ srv[k].ndone \in Nat
           /\ max \in Int
<1>1. srv[k] \in TspawnState /\ max \in Int
  BY TspawnAssumption DEF TypeOK
<1>2. /\ srv[k].lo \in 1..(N + 1) /\ srv[k].hi \in 0..N /\ srv[k].i \in 0..N
      /\ srv[k].idx \in Nat /\ srv[k].ndone \in Nat
  BY <1>1 DEF TspawnState
<1>3. srv[k].lo <= srv[k].hi /\ srv[k].i <= Length(srv[k])
  BY DEF SrvInv
<1> QED
  BY <1>1, <1>2, <1>3, TspawnAssumption DEF Length

\* NodesFit follows from the division.
LEMMA InvNodesFit ==
    ASSUME IInv PROVE NodesFit
<1>1. SUFFICES ASSUME NEW k \in Servers, srv[k].st # "idle"
               PROVE  /\ srv[k].idx <= NNodes(Length(srv[k]))
                      /\ srv[k].st \in {"copying", "done"} =>
                             srv[k].idx = NNodes(Length(srv[k]))
  BY DEF NodesFit
<1>2. TypeOK /\ SrvInv(k)
  BY DEF IInv
<1>3. /\ Length(srv[k]) \in Nat \ {0} /\ srv[k].i \in 0..Length(srv[k])
      /\ srv[k].idx \in Nat /\ max \in Int
  BY <1>1, <1>2, LengthType
<1>4. /\ Divided(Length(srv[k]), srv[k].i, srv[k].idx)
      /\ srv[k].st \in {"copying", "done"} => srv[k].i = Length(srv[k])
  BY <1>1, <1>2 DEF SrvInv
<1> QED
  BY <1>3, <1>4, AllNodes

\* A server that is done makes no copy any more.
LEMMA DoneNotBusy ==
    ASSUME IInv, NEW k \in Servers, srv[k].st = "done"
    PROVE  Copies(k) = {}
<1>1. srv[k].idx = NNodes(Length(srv[k]))
  BY InvNodesFit DEF NodesFit
<1>2. /\ srv[k].idx = srv[k].ndone + Cardinality(Copies(k))
      /\ srv[k].ndone >= NNodes(Length(srv[k]))
  BY DEF IInv, CountInv
<1>3. srv[k].ndone \in Nat
  BY DEF IInv, TypeOK, TspawnState
<1>4. IsFiniteSet(Copies(k)) /\ Cardinality(Copies(k)) \in Nat
  BY CopiesFinite, FS_CardinalityType
<1>5. Cardinality(Copies(k)) = 0
  BY <1>1, <1>2, <1>3, <1>4
<1> QED
  BY <1>4, <1>5, FS_EmptySet

\* When nothing failed, a server that is done has seen to its list.
LEMMA DoneCopied ==
    ASSUME IInv, ~Failed, NEW k \in Servers, srv[k].st = "done",
           NEW d \in Nodes, srv[k].lo <= d, d <= srv[k].hi
    PROVE  node[d].copy = "copied"
<1>1. d < srv[k].lo + srv[k].i
  <2>1. srv[k].i = Length(srv[k])
    BY DEF IInv, SrvInv
  <2>2. srv[k].lo \in Int /\ srv[k].hi \in Int
    BY DEF IInv, TypeOK, TspawnState
  <2> QED
    BY <2>1, <2>2 DEF Length, Nodes
<1>2. PICK c \in Nodes : /\ node[c].copy # "none"
                         /\ node[c].by = k
                         /\ d = c \/ (node[c].lo <= d /\ d <= node[c].hi)
  BY <1>1 DEF IInv, CoverInv
<1>3. c \notin Copies(k)
  BY DoneNotBusy
<1>4. node[c].copy \notin {"copying", "cloning"}
  BY <1>2, <1>3 DEF Copies, Busy
<1>5. node[c].copy \notin {"failed", "dropped"}
  BY <1>2 DEF IInv, MadeInv, Failed
<1>6. node[c].copy = "copied"
  <2>1. node[c] \in Node
    BY DEF IInv, TypeOK
  <2>2. node[c].copy \in {"none", "copying", "cloning", "copied", "failed", "dropped"}
    BY <2>1 DEF Node
  <2> QED
    BY <1>2, <1>4, <1>5, <2>2
<1> QED
  BY <1>2, <1>6 DEF IInv, PartInv

LEMMA InvAnsweredLast ==
    ASSUME IInv PROVE AnsweredLast
<1>1. ASSUME NEW k \in Servers, srv[k].st \in {"done", "error"}, NEW c \in Nodes
      PROVE  ~Busy(k, c)
  <2>1. Copies(k) = {}
    BY <1>1, DoneNotBusy DEF IInv, CountInv
  <2> QED
    BY <2>1 DEF Copies
<1>2. ASSUME srv[0].st = "done", ~Failed, NEW c \in Nodes
      PROVE  node[c].copy = "copied"
  <2>1. srv[0].lo = 1 /\ srv[0].hi = N
    BY <1>2 DEF IInv, ListInv
  <2>2. 0 \in Servers /\ 1 <= c /\ c <= N
    BY TspawnAssumption DEF Servers, Nodes
  <2> QED
    BY <1>2, <2>1, <2>2, DoneCopied
<1> QED
  BY <1>1, <1>2 DEF AnsweredLast, Failed

LEMMA InvMadeOnce ==
    ASSUME IInv PROVE MadeOnce
<1> QED
  BY DEF IInv, MadeInv, MadeOnce
-----------------------------------------------------------------------------
(* A turn of the loops of tspawn()                                         *)

\* Server k creates node c for the part of its list up to e, and is then new.
Turned(k, c, e, new, how) ==
    /\ srv[k].st = "spawning"
    /\ c = srv[k].lo + srv[k].i
    /\ c <= srv[k].hi
    /\ e \in (srv[k].i + 1)..Length(srv[k])
    /\ Divided(Length(srv[k]), e, srv[k].idx + 1)
    /\ new \in TspawnState
    /\ new.lo = srv[k].lo /\ new.hi = srv[k].hi
    /\ new.i = e /\ new.idx = srv[k].idx + 1
    /\ \/ how = "copied" /\ e = srv[k].i + 1 /\ new.ndone = srv[k].ndone + 1
       \/ how = "copying" /\ new.ndone = srv[k].ndone
    /\ e < Length(srv[k]) => new.st = "spawning"
    /\ e = Length(srv[k]) =>
           new.st = IF new.ndone >= NNodes(Length(srv[k])) THEN "done" ELSE "copying"
    /\ srv' = [srv EXCEPT ![k] = new]
    /\ node' = [node EXCEPT ![c] =
           [copy |-> how, by |-> k, lo |-> c + 1, hi |-> srv[k].lo + e - 1]]
    /\ made' = [made EXCEPT ![c] = IF @ < 2 THEN @ + 1 ELSE @]
    /\ UNCHANGED <<max, empty>>

LEMMA TspawnTurns ==
    ASSUME IInv, NEW k \in Servers, tspawn(k)
    PROVE  \E c \in Nodes, e \in Nat : \E new, how : Turned(k, c, e, new, how)
<1> DEFINE s == srv[k]
           c == s.lo + s.i
           e == EndOfGroup(Length(s), s.i)
           t == [s EXCEPT !.i = e, !.idx = @ + 1]
           atonce == empty /\ e = s.i + 1
           u == IF atonce THEN node_cb(t) ELSE t
           new == IF e < Length(s) THEN u ELSE Async(u)
           how == IF atonce THEN "copied" ELSE "copying"
<1>1. /\ s.st = "spawning"
      /\ srv' = [srv EXCEPT ![k] = new]
      /\ node' = [node EXCEPT ![c] = [copy |-> how, by |-> k, lo |-> c + 1, hi |-> s.lo + e - 1]]
      /\ made' = [made EXCEPT ![c] = IF @ < 2 THEN @ + 1 ELSE @]
      /\ UNCHANGED <<max, empty>>
  BY Zenon DEF tspawn
<1>2. /\ s \in TspawnState /\ SrvInv(k)
      /\ Length(s) \in Nat \ {0} /\ s.i \in 0..Length(s) /\ s.i < Length(s)
      /\ s.idx \in Nat /\ s.ndone \in Nat /\ max \in Int
      /\ Divided(Length(s), s.i, s.idx)
  <2>1. TypeOK /\ SrvInv(k)
    BY DEF IInv
  <2>2. s \in TspawnState
    BY <2>1 DEF TypeOK
  <2>3. s.i < Length(s) /\ Divided(Length(s), s.i, s.idx)
    BY <1>1, <2>1 DEF SrvInv
  <2> QED
    BY <1>1, <2>1, <2>2, <2>3, LengthType
<1>3. e \in (s.i + 1)..Length(s) /\ Divided(Length(s), e, s.idx + 1)
  BY <1>2, NextGroup
<1>4. /\ s.lo \in 1..(N + 1) /\ s.hi \in 0..N /\ Length(s) = s.hi - s.lo + 1
      /\ c \in Nodes /\ c <= s.hi /\ e \in 0..N
  <2>1. s.lo \in 1..(N + 1) /\ s.hi \in 0..N /\ Length(s) = s.hi - s.lo + 1
    BY <1>2 DEF TspawnState, Length
  <2> HIDE DEF e, s
  <2>2. s.lo + s.i \in 1..N /\ s.lo + s.i <= s.hi /\ e \in 0..N
    BY <1>2, <1>3, <2>1, TspawnAssumption
  <2> QED
    BY <2>1, <2>2 DEF Nodes, s
<1> HIDE DEF e
<1>5. /\ t \in TspawnState /\ t.lo = s.lo /\ t.hi = s.hi /\ t.i = e /\ t.idx = s.idx + 1
      /\ t.ndone = s.ndone /\ t.st = "spawning" /\ Length(t) = Length(s)
  <2>1. s.idx + 1 \in Nat /\ e \in 0..N /\ s \in TspawnState /\ s.st = "spawning"
    BY <1>1, <1>2, <1>4
  <2> HIDE DEF s
  <2>2. /\ t \in TspawnState /\ t.lo = s.lo /\ t.hi = s.hi /\ t.i = e
        /\ t.idx = s.idx + 1 /\ t.ndone = s.ndone /\ t.st = "spawning"
    BY <2>1 DEF TspawnState
  <2> QED
    BY <2>2 DEF Length
<1>6. node_cb(t) = [t EXCEPT !.ndone = s.ndone + 1]
  BY <1>5 DEF node_cb, TspawnState
<1> HIDE DEF t
<1>7. /\ u \in TspawnState /\ u.lo = s.lo /\ u.hi = s.hi /\ u.i = e /\ u.idx = s.idx + 1
      /\ u.ndone = (IF atonce THEN s.ndone + 1 ELSE s.ndone)
      /\ u.st = "spawning" /\ Length(u) = Length(s)
  BY <1>2, <1>5, <1>6 DEF TspawnState, Length
<1> HIDE DEF u
<1>8. /\ Async(u) \in TspawnState /\ Async(u).lo = s.lo /\ Async(u).hi = s.hi
      /\ Async(u).i = e /\ Async(u).idx = s.idx + 1 /\ Async(u).ndone = u.ndone
      /\ Async(u).st = IF u.ndone >= NNodes(Length(s)) THEN "done" ELSE "copying"
  BY <1>7 DEF Async, TspawnState
<1>9. /\ new \in TspawnState /\ new.lo = s.lo /\ new.hi = s.hi
      /\ new.i = e /\ new.idx = s.idx + 1 /\ new.ndone = u.ndone
      /\ e < Length(s) => new.st = "spawning"
      /\ e = Length(s) =>
             new.st = IF new.ndone >= NNodes(Length(s)) THEN "done" ELSE "copying"
  BY <1>3, <1>7, <1>8, <1>2
<1> HIDE DEF new
<1>10. \/ how = "copied" /\ e = s.i + 1 /\ new.ndone = s.ndone + 1
       \/ how = "copying" /\ new.ndone = s.ndone
  BY <1>7, <1>9
<1> HIDE DEF how
<1>11. Turned(k, c, e, new, how)
  BY <1>1, <1>3, <1>4, <1>9, <1>10 DEF Turned
<1>12. e \in Nat
  BY <1>4, TspawnAssumption
<1> QED
  BY <1>4, <1>11, <1>12
\* The types spelled out for arithmetic.
LEMMA Types ==
    ASSUME TypeOK
    PROVE  /\ max \in Int
           /\ \A k \in Servers :
                  /\ srv[k] \in TspawnState
                  /\ srv[k].lo \in 1..(N + 1) /\ srv[k].hi \in 0..N
                  /\ srv[k].i \in 0..N /\ srv[k].idx \in Nat /\ srv[k].ndone \in Nat
                  /\ Length(srv[k]) = srv[k].hi - srv[k].lo + 1
           /\ \A c \in Nodes :
                  /\ node[c] \in Node
                  /\ node[c].by \in Servers
                  /\ node[c].lo \in 1..(N + 1) /\ node[c].hi \in 0..N
                  /\ node[c].copy \in {"none", "copying", "cloning", "copied", "failed", "dropped"}
                  /\ made[c] \in 0..2
           /\ N \in Nat \ {0}
<1> QED
  BY TspawnAssumption DEF TypeOK, TspawnState, Node, Length

LEMMA TurnedInv ==
    ASSUME IInv, NEW k \in Servers, NEW c \in Nodes, NEW e \in Nat, NEW new, NEW how,
           Turned(k, c, e, new, how)
    PROVE  IInv'
<1> DEFINE s == srv[k]
<1>1. /\ TypeOK /\ ListInv /\ RestInv /\ MadeInv /\ CountInv /\ CoverInv /\ PartInv
      /\ \A l \in Servers : SrvInv(l)
  BY DEF IInv
<1>2. /\ s.st = "spawning" /\ c = s.lo + s.i /\ c <= s.hi
      /\ e \in (s.i + 1)..Length(s)
      /\ new \in TspawnState
      /\ new.lo = s.lo /\ new.hi = s.hi /\ new.i = e /\ new.idx = s.idx + 1
      /\ \/ how = "copied" /\ e = s.i + 1 /\ new.ndone = s.ndone + 1
         \/ how = "copying" /\ new.ndone = s.ndone
      /\ e < Length(s) => new.st = "spawning"
      /\ e = Length(s) =>
             new.st = IF new.ndone >= NNodes(Length(s)) THEN "done" ELSE "copying"
      /\ max' = max /\ empty' = empty
  BY DEF Turned
<1>3. /\ s.lo \in 1..(N + 1) /\ s.hi \in 0..N /\ s.i \in 0..N /\ s.idx \in Nat
      /\ s.ndone \in Nat /\ Length(s) = s.hi - s.lo + 1 /\ N \in Nat \ {0}
      /\ c \in 1..N
  BY <1>1, Types DEF Nodes
<1>4. /\ \A l \in Servers : srv'[l] = IF l = k THEN new ELSE srv[l]
      /\ DOMAIN srv' = Servers
  BY <1>1 DEF Turned, TypeOK
<1>5. /\ \A d \in Nodes : d # c => node'[d] = node[d]
      /\ node'[c].copy = how /\ node'[c].by = k
      /\ node'[c].lo = c + 1 /\ node'[c].hi = s.lo + e - 1
  BY <1>1 DEF Turned, TypeOK
<1>6. InRest(k, c)
  BY <1>2, <1>3 DEF InRest
<1>7. node[c].copy = "none" /\ srv[c].st = "idle" /\ c # k
  <2>1. node[c].copy = "none"
    BY <1>1, <1>6 DEF RestInv
  <2>2. srv[c].st = "idle"
    BY <1>1, <2>1 DEF ListInv
  <2> QED
    BY <1>2, <2>1, <2>2
<1>8. new.st \in {"spawning", "copying", "done"}
  BY <1>2, <1>3
<1>9. how \in {"copying", "copied"} /\ s.lo + e - 1 <= s.hi /\ s.lo + e > c
  BY <1>2, <1>3
<1>10. TypeOK'
  <2>1. srv' \in [Servers -> TspawnState]
    BY <1>1, <1>2 DEF TypeOK, Turned
  <2>2. [copy |-> how, by |-> k, lo |-> c + 1, hi |-> s.lo + e - 1] \in Node
    BY <1>2, <1>3, <1>9 DEF Node
  <2>3. node' \in [Nodes -> Node]
    BY <1>1, <2>2 DEF TypeOK, Turned
  <2>4. made' \in [Nodes -> 0..2]
    BY <1>1 DEF TypeOK, Turned
  <2> QED
    BY <1>1, <1>2, <2>1, <2>3, <2>4 DEF TypeOK
<1>11. ASSUME NEW l \in Servers PROVE SrvInv(l)'
  <2>1. CASE l = k
    <3>1. Divided(Length(s), e, s.idx + 1)
      BY DEF Turned
    <3>2. srv'[k].lo <= srv'[k].hi /\ srv'[k].i <= Length(srv'[k])
      BY <1>2, <1>3, <1>4 DEF Length
    <3>3. /\ srv'[k].st = "spawning" => srv'[k].i < Length(srv'[k])
          /\ srv'[k].st \in {"copying", "done"} => srv'[k].i = Length(srv'[k])
      BY <1>2, <1>3, <1>4 DEF Length
    <3>4. Length(srv'[k]) = Length(s) /\ srv'[k].i = e /\ srv'[k].idx = s.idx + 1
      BY <1>2, <1>4 DEF Length
    <3> QED
      BY <1>2, <2>1, <3>1, <3>2, <3>3, <3>4
      DEF SrvInv, Divided, GroupsEnd, Groups, GroupSize, NNodes
  <2>2. CASE l # k
    <3>1. srv'[l] = srv[l]
      BY <1>4, <2>2
    <3> QED
      BY <1>1, <1>2, <3>1
      DEF SrvInv, Divided, GroupsEnd, Groups, GroupSize, NNodes
  <2> QED
    BY <2>1, <2>2
<1>12. ListInv'
  <2>1. srv'[0].st # "idle" => srv'[0].lo = 1 /\ srv'[0].hi = N
    BY <1>1, <1>2, <1>4, TspawnAssumption DEF ListInv, Servers
  <2>2. ASSUME NEW b \in Nodes, srv'[b].st # "idle"
        PROVE  /\ node'[b].copy \notin {"none", "copying"}
               /\ srv'[b].lo = node'[b].lo
               /\ srv'[b].hi = node'[b].hi
    <3>1. b \in Servers
      BY TspawnAssumption DEF Nodes, Servers
    <3>2. b # c
      BY <1>4, <1>7, <2>2, <3>1
    <3>3. node'[b] = node[b] /\ srv[b].st # "idle"
      BY <1>2, <1>4, <1>5, <2>2, <3>1, <3>2
    <3> QED
      BY <1>1, <1>2, <1>4, <3>1, <3>3 DEF ListInv
  <2> QED
    BY <2>1, <2>2 DEF ListInv
<1>13. RestInv'
  <2>1. ASSUME NEW l \in Servers, NEW d \in Nodes, InRest(l, d)'
        PROVE  InRest(l, d) /\ d # c /\ (l = k => d >= s.lo + e)
    <3>1. CASE l = k
      <4>1. d >= s.lo + e /\ d <= s.hi
        BY <1>2, <1>4, <2>1, <3>1 DEF InRest
      <4> QED
        BY <1>2, <1>3, <3>1, <4>1 DEF InRest, Nodes
    <3>2. CASE l # k
      <4>1. InRest(l, d)
        BY <1>4, <2>1, <3>2 DEF InRest
      <4> QED
        BY <1>1, <1>6, <3>2, <4>1 DEF RestInv
    <3> QED
      BY <3>1, <3>2
  <2>2. ASSUME NEW b \in Nodes, NEW d \in Nodes, InPart(b, d)'
        PROVE  d # c /\ (IF b = c THEN InRest(k, d) /\ d < s.lo + e ELSE InPart(b, d))
    <3>1. CASE b = c
      <4>1. c + 1 <= d /\ d <= s.lo + e - 1
        BY <1>5, <2>2, <3>1 DEF InPart
      <4> QED
        BY <1>2, <1>3, <1>9, <3>1, <4>1 DEF InRest, Nodes
    <3>2. CASE b # c
      <4>1. InPart(b, d)
        BY <1>5, <2>2, <3>2 DEF InPart
      <4> QED
        BY <1>1, <1>6, <3>2, <4>1 DEF RestInv
    <3> QED
      BY <3>1, <3>2
  <2>3. ASSUME NEW d \in Nodes, NEW l \in Servers, InRest(l, d)'
        PROVE  /\ node'[d].copy = "none"
               /\ \A j \in Servers : InRest(j, d)' => j = l
               /\ \A b \in Nodes : ~InPart(b, d)'
    <3>1. InRest(l, d) /\ d # c /\ (l = k => d >= s.lo + e)
      BY <2>1, <2>3
    <3>2. node'[d].copy = "none"
      BY <1>1, <1>5, <3>1 DEF RestInv
    <3>3. \A j \in Servers : InRest(j, d)' => j = l
      BY <1>1, <2>1, <3>1 DEF RestInv
    <3>4. ASSUME NEW b \in Nodes, InPart(b, d)' PROVE FALSE
      <4>1. IF b = c THEN InRest(k, d) /\ d < s.lo + e ELSE InPart(b, d)
        BY <2>2, <3>4
      <4>2. b = c => l = k
        BY <1>1, <3>1, <4>1 DEF RestInv
      <4>3. b = c
        BY <1>1, <3>1, <4>1 DEF RestInv
      <4> QED
        BY <1>3, <3>1, <4>1, <4>2, <4>3 DEF Nodes
    <3> QED
      BY <3>2, <3>3, <3>4
  <2>4. ASSUME NEW d \in Nodes, NEW b \in Nodes, InPart(b, d)'
        PROVE  /\ node'[d].copy = "none"
               /\ \A a \in Nodes : InPart(a, d)' => a = b
    <3>1. d # c /\ (IF b = c THEN InRest(k, d) ELSE InPart(b, d))
      BY <2>2, <2>4
    <3>2. node'[d].copy = "none"
      BY <1>1, <1>5, <3>1 DEF RestInv
    <3>3. ASSUME NEW a \in Nodes, InPart(a, d)' PROVE a = b
      <4>1. IF a = c THEN InRest(k, d) ELSE InPart(a, d)
        BY <2>2, <3>3
      <4> QED
        BY <1>1, <3>1, <4>1 DEF RestInv
    <3> QED
      BY <3>2, <3>3
  <2>5. srv'[0].st # "idle"
    <3>1. 0 \in Servers
      BY TspawnAssumption DEF Servers
    <3>2. CASE k = 0
      BY <1>4, <1>8, <3>1, <3>2
    <3>3. CASE k # 0
      <4>1. k \in Nodes
        BY <3>3 DEF Servers, Nodes
      <4>2. node[k].copy # "none"
        BY <1>1, <1>2, <4>1 DEF ListInv
      <4>3. srv[0].st # "idle"
        BY <1>1, <4>1, <4>2 DEF RestInv
      <4> QED
        BY <1>4, <3>1, <3>3, <4>3
    <3> QED
      BY <3>2, <3>3
  <2> QED
    BY <2>3, <2>4, <2>5 DEF RestInv
<1>14. MadeInv'
  <2>1. made[c] = 0 /\ made'[c] = 1
    BY <1>1, <1>7 DEF MadeInv, Turned, TypeOK
  <2>2. \A b \in Nodes : b # c => made'[b] = made[b]
    BY <1>1 DEF Turned, TypeOK
  <2>3. ASSUME NEW b \in Nodes
        PROVE  /\ made'[b] = (IF node'[b].copy = "none" THEN 0 ELSE 1)
               /\ node'[b].copy # "none" => srv'[node'[b].by].st # "idle"
               /\ node'[b].copy = "dropped" => srv'[node'[b].by].st = "error"
    <3>1. CASE b = c
      BY <1>4, <1>5, <1>8, <1>9, <2>1, <3>1
    <3>2. CASE b # c
      <4>1. node'[b] = node[b] /\ made'[b] = made[b] /\ node[b].by \in Servers
        BY <1>1, <1>5, <2>2, <3>2, Types
      <4> QED
        BY <1>1, <1>2, <1>4, <1>8, <4>1 DEF MadeInv
    <3> QED
      BY <3>1, <3>2
  <2> QED
    BY <2>3 DEF MadeInv
<1>15. CountInv'
  <2>1. Copies(k)' = IF how = "copying" THEN Copies(k) \cup {c} ELSE Copies(k)
    BY <1>5, <1>7, <1>9 DEF Copies, Busy
  <2>2. c \notin Copies(k) /\ IsFiniteSet(Copies(k))
    BY <1>7, CopiesFinite DEF Copies, Busy
  <2>3. Cardinality(Copies(k) \cup {c}) = Cardinality(Copies(k)) + 1
    BY <2>2, FS_AddElement
  <2>4. Cardinality(Copies(k)) \in Nat
    BY <2>2, FS_CardinalityType
  <2>5. ASSUME NEW l \in Servers, l # k PROVE Copies(l)' = Copies(l)
    BY <1>5, <1>7, <2>5 DEF Copies, Busy
  <2>6. s.idx = s.ndone + Cardinality(Copies(k))
    BY <1>1, <1>2 DEF CountInv
  <2>7. srv'[k].idx = srv'[k].ndone + Cardinality(Copies(k)')
    BY <1>2, <1>3, <1>4, <2>1, <2>3, <2>4, <2>6
  <2>8. NNodes(Length(srv[k]))' = NNodes(Length(srv[k]))
    BY <1>2, <1>4 DEF NNodes, Length
  <2>9. /\ srv'[k].st = "copying" => srv'[k].ndone < NNodes(Length(srv[k]))'
        /\ srv'[k].st = "done" => srv'[k].ndone >= NNodes(Length(srv[k]))'
    <3>1. NNodes(Length(s)) \in Int
      BY <1>1, <1>2, <1>3, Types DEF NNodes, Lesser
    <3> QED
      BY <1>2, <1>3, <1>4, <2>8, <3>1
  <2>10. ASSUME NEW l \in Servers
         PROVE  /\ srv'[l].st \in {"spawning", "copying", "done"} =>
                       srv'[l].idx = srv'[l].ndone + Cardinality(Copies(l)')
                /\ srv'[l].st = "copying" => srv'[l].ndone < NNodes(Length(srv[l]))'
                /\ srv'[l].st = "done" => srv'[l].ndone >= NNodes(Length(srv[l]))'
                /\ srv'[l].st = "error" => Copies(l)' = {}
    <3>1. CASE l = k
      BY <1>4, <1>8, <2>7, <2>9, <3>1
    <3>2. CASE l # k
      <4>1. srv'[l] = srv[l] /\ Copies(l)' = Copies(l)
        BY <1>4, <2>5, <3>2
      <4>2. NNodes(Length(srv[l]))' = NNodes(Length(srv[l]))
        BY <1>2, <4>1 DEF NNodes, Length
      <4> QED
        BY <1>1, <4>1, <4>2 DEF CountInv
    <3> QED
      BY <3>1, <3>2
  <2> QED
    BY <2>10 DEF CountInv
<1>16. CoverInv'
  <2>1. ASSUME NEW l \in Servers, NEW d \in Nodes,
               srv'[l].st # "idle", srv'[l].lo <= d, d < srv'[l].lo + srv'[l].i
        PROVE  \E b \in Nodes : /\ node'[b].copy # "none"
                                /\ node'[b].by = l
                                /\ d = b \/ (node'[b].lo <= d /\ d <= node'[b].hi)
    <3>1. CASE l = k /\ d >= c
      <4>1. d = c \/ (node'[c].lo <= d /\ d <= node'[c].hi)
        BY <1>2, <1>3, <1>4, <1>5, <2>1, <3>1 DEF Nodes
      <4> QED
        BY <1>5, <1>9, <3>1, <4>1
    <3>2. CASE l # k \/ d < c
      <4>1. srv[l].st # "idle" /\ srv[l].lo <= d /\ d < srv[l].lo + srv[l].i
        BY <1>2, <1>4, <2>1, <3>2
      <4>2. PICK b \in Nodes : /\ node[b].copy # "none"
                               /\ node[b].by = l
                               /\ d = b \/ (node[b].lo <= d /\ d <= node[b].hi)
        BY <1>1, <4>1 DEF CoverInv
      <4>3. node'[b] = node[b]
        BY <1>5, <1>7, <4>2
      <4> QED
        BY <4>2, <4>3
    <3> QED
      BY <1>3, <3>1, <3>2 DEF Nodes
  <2> QED
    BY <2>1 DEF CoverInv
<1>17. PartInv'
  <2>1. Failed => Failed'
    BY <1>5, <1>7 DEF Failed
  <2>2. ASSUME ~Failed, NEW b \in Nodes, NEW d \in Nodes,
               node'[b].copy = "copied", node'[b].lo <= d, d <= node'[b].hi
        PROVE  node'[d].copy = "copied"
    <3>1. b # c
      BY <1>2, <1>3, <1>5, <2>2 DEF Nodes
    <3>2. node[d].copy = "copied"
      BY <1>1, <1>5, <2>2, <3>1 DEF PartInv
    <3> QED
      BY <1>5, <1>7, <3>2
  <2> QED
    BY <2>1, <2>2 DEF PartInv
<1> QED
  BY <1>10, <1>11, <1>12, <1>13, <1>14, <1>15, <1>16, <1>17 DEF IInv
-----------------------------------------------------------------------------
(* The end of a copy                                                       *)

LEMMA EndsInv ==
    ASSUME IInv, NEW c \in Nodes, NEW k \in Servers, k = node[c].by,
           NEW how \in {"copied", "failed"},
           node[c].copy \in {"copying", "cloning"}, Ends(c, how),
           how = "copied" => \/ node[c].lo > node[c].hi
                             \/ node[c].copy = "cloning" /\ srv[c].st = "done"
    PROVE  IInv'
<1> DEFINE s == srv[k]
<1>1. /\ TypeOK /\ ListInv /\ RestInv /\ MadeInv /\ CountInv /\ CoverInv /\ PartInv
      /\ \A l \in Servers : SrvInv(l)
  BY DEF IInv
<1>2. /\ k \in Servers /\ s \in TspawnState /\ s.idx \in Nat /\ s.ndone \in Nat
      /\ max \in Int /\ Length(s) = s.hi - s.lo + 1 /\ s.lo \in Int /\ s.hi \in Int
      /\ c \in Copies(k)
  BY <1>1, Types DEF Copies, Busy
<1>3. s.st \in {"spawning", "copying"}
  <2>1. s.st # "idle" /\ s.st # "error"
    BY <1>1, <1>2 DEF MadeInv, CountInv
  <2>2. s.st # "done"
    BY <1>2, DoneNotBusy
  <2> QED
    BY <1>2, <2>1, <2>2 DEF TspawnState
<1>4. /\ \A d \in Nodes : d # c => node'[d] = node[d]
      /\ node'[c].copy = how /\ node'[c].by = k
      /\ node'[c].lo = node[c].lo /\ node'[c].hi = node[c].hi
      /\ node' \in [Nodes -> Node]
      /\ made' = made /\ max' = max /\ empty' = empty
  BY <1>1 DEF Ends, TypeOK, Node
<1>5. /\ \A l \in Servers : l # k => srv'[l] = srv[l]
      /\ srv'[k].lo = s.lo /\ srv'[k].hi = s.hi /\ srv'[k].i = s.i
      /\ srv'[k].idx = s.idx /\ srv'[k].ndone = s.ndone + 1
      /\ srv'[k].st = IF s.st = "copying" /\ s.ndone + 1 >= NNodes(Length(s))
                      THEN "done" ELSE s.st
      /\ srv' \in [Servers -> TspawnState]
  <2>1. srv' = [srv EXCEPT ![k] = node_cb(s)]
    BY DEF Ends
  <2>2. /\ node_cb(s).lo = s.lo /\ node_cb(s).hi = s.hi /\ node_cb(s).i = s.i
        /\ node_cb(s).idx = s.idx /\ node_cb(s).ndone = s.ndone + 1
        /\ node_cb(s).st = IF s.st = "copying" /\ s.ndone + 1 >= NNodes(Length(s))
                           THEN "done" ELSE s.st
        /\ node_cb(s) \in TspawnState
    <3>1. s \in TspawnState /\ s.ndone + 1 \in Nat
      BY <1>2
    <3> HIDE DEF s
    <3> QED
      BY <3>1 DEF node_cb, TspawnState
  <2> HIDE DEF s
  <2> QED
    BY <1>1, <1>2, <2>1, <2>2 DEF TypeOK
<1>6. TypeOK'
  BY <1>1, <1>4, <1>5 DEF TypeOK
<1>7. ASSUME NEW l \in Servers
      PROVE  /\ srv'[l].lo = srv[l].lo /\ srv'[l].hi = srv[l].hi /\ srv'[l].i = srv[l].i
             /\ srv'[l].idx = srv[l].idx
             /\ \/ srv'[l].st = srv[l].st
                \/ l = k /\ srv[l].st = "copying" /\ srv'[l].st = "done"
  BY <1>2, <1>5
<1>8. ASSUME NEW l \in Servers PROVE SrvInv(l)'
  <2>1. SrvInv(l)
    BY <1>1
  <2>2. Length(srv[l])' = Length(srv[l])
    BY <1>7 DEF Length
  <2> QED
    BY <1>4, <1>7, <2>1, <2>2
    DEF SrvInv, Divided, GroupsEnd, Groups, GroupSize, NNodes
<1>9. ListInv'
  <2>1. srv'[0].st # "idle" => srv'[0].lo = 1 /\ srv'[0].hi = N
    BY <1>1, <1>7, TspawnAssumption DEF ListInv, Servers
  <2>2. ASSUME NEW b \in Nodes, srv'[b].st # "idle"
        PROVE  /\ node'[b].copy \notin {"none", "copying"}
               /\ srv'[b].lo = node'[b].lo
               /\ srv'[b].hi = node'[b].hi
    <3>1. b \in Servers
      BY TspawnAssumption DEF Nodes, Servers
    <3>2. srv[b].st # "idle"
      BY <1>7, <2>2, <3>1
    <3> QED
      BY <1>1, <1>4, <1>7, <3>1, <3>2 DEF ListInv
  <2> QED
    BY <2>1, <2>2 DEF ListInv
<1>10. RestInv'
  <2>1. \A l \in Servers, d \in Nodes : InRest(l, d)' => InRest(l, d)
    BY <1>7 DEF InRest
  <2>2. \A b, d \in Nodes : InPart(b, d)' => InPart(b, d)
    BY <1>4 DEF InPart
  <2>3. \A d \in Nodes : node[d].copy = "none" => node'[d].copy = "none"
    BY <1>4
  <2>4. srv'[0].st = "idle" => srv[0].st = "idle"
    BY <1>7, TspawnAssumption DEF Servers
  <2> QED
    BY <1>1, <2>1, <2>2, <2>3, <2>4 DEF RestInv
<1>11. MadeInv'
  <2>1. ASSUME NEW b \in Nodes
        PROVE  /\ made'[b] = (IF node'[b].copy = "none" THEN 0 ELSE 1)
               /\ node'[b].copy # "none" => srv'[node'[b].by].st # "idle"
               /\ node'[b].copy = "dropped" => srv'[node'[b].by].st = "error"
    <3>1. node'[b].by = node[b].by /\ node[b].by \in Servers
      BY <1>1, <1>4, Types
    <3>2. /\ node'[b].copy = "none" <=> node[b].copy = "none"
          /\ node'[b].copy = "dropped" <=> node[b].copy = "dropped"
      BY <1>4, <1>2, <1>1, <1>3 DEF MadeInv
    <3> QED
      BY <1>1, <1>4, <1>7, <3>1, <3>2 DEF MadeInv
  <2> QED
    BY <2>1 DEF MadeInv
<1>12. CountInv'
  <2>1. Copies(k)' = Copies(k) \ {c}
    BY <1>4 DEF Copies, Busy
  <2>2. IsFiniteSet(Copies(k))
    BY CopiesFinite
  <2>3. Cardinality(Copies(k) \ {c}) = Cardinality(Copies(k)) - 1
    BY <1>2, <2>2, FS_RemoveElement
  <2>4. Cardinality(Copies(k)) \in Nat
    BY <2>2, FS_CardinalityType
  <2>5. ASSUME NEW l \in Servers, l # k PROVE Copies(l)' = Copies(l)
    BY <1>4, <2>5 DEF Copies, Busy
  <2>6. s.idx = s.ndone + Cardinality(Copies(k))
    BY <1>1, <1>2, <1>3 DEF CountInv
  <2>7. srv'[k].idx = srv'[k].ndone + Cardinality(Copies(k)')
    BY <1>2, <1>5, <2>1, <2>3, <2>4, <2>6
  <2>8. ASSUME NEW l \in Servers
        PROVE  NNodes(Length(srv[l]))' = NNodes(Length(srv[l]))
    BY <1>4, <1>7 DEF NNodes, Length
  <2>9. NNodes(Length(s)) \in Int
    BY <1>2 DEF NNodes, Lesser
  <2>10. ASSUME NEW l \in Servers
         PROVE  /\ srv'[l].st \in {"spawning", "copying", "done"} =>
                       srv'[l].idx = srv'[l].ndone + Cardinality(Copies(l)')
                /\ srv'[l].st = "copying" => srv'[l].ndone < NNodes(Length(srv[l]))'
                /\ srv'[l].st = "done" => srv'[l].ndone >= NNodes(Length(srv[l]))'
                /\ srv'[l].st = "error" => Copies(l)' = {}
    <3>1. CASE l = k
      <4>1. srv'[k].st \in {"spawning", "copying", "done"}
        BY <1>3, <1>5
      <4>2. srv'[k].st = "copying" => srv'[k].ndone < NNodes(Length(s))
        BY <1>2, <1>3, <1>5, <2>9
      <4>3. srv'[k].st = "done" => srv'[k].ndone >= NNodes(Length(s))
        BY <1>2, <1>3, <1>5, <2>9
      <4>4. NNodes(Length(srv[k]))' = NNodes(Length(s))
        BY <1>2, <2>8
      <4> QED
        BY <2>7, <3>1, <4>1, <4>2, <4>3, <4>4
    <3>2. CASE l # k
      <4>1. srv'[l] = srv[l] /\ Copies(l)' = Copies(l)
        BY <1>5, <2>5, <3>2
      <4> QED
        BY <1>1, <2>8, <4>1 DEF CountInv
    <3> QED
      BY <3>1, <3>2
  <2> QED
    BY <2>10 DEF CountInv
<1>13. CoverInv'
  <2>1. ASSUME NEW l \in Servers, NEW d \in Nodes,
               srv'[l].st # "idle", srv'[l].lo <= d, d < srv'[l].lo + srv'[l].i
        PROVE  \E b \in Nodes : /\ node'[b].copy # "none"
                                /\ node'[b].by = l
                                /\ d = b \/ (node'[b].lo <= d /\ d <= node'[b].hi)
    <3>1. PICK b \in Nodes : /\ node[b].copy # "none"
                             /\ node[b].by = l
                             /\ d = b \/ (node[b].lo <= d /\ d <= node[b].hi)
      BY <1>1, <1>7, <2>1 DEF CoverInv
    <3>2. /\ node'[b].copy # "none" /\ node'[b].by = node[b].by
          /\ node'[b].lo = node[b].lo /\ node'[b].hi = node[b].hi
      BY <1>4, <3>1
    <3> QED
      BY <3>1, <3>2
  <2> QED
    BY <2>1 DEF CoverInv
<1>14. PartInv'
  <2>1. Failed \/ how = "failed" => Failed'
    BY <1>4 DEF Failed
  <2>2. ASSUME ~Failed, how = "copied", NEW b \in Nodes, NEW d \in Nodes,
               node'[b].copy = "copied", node'[b].lo <= d, d <= node'[b].hi
        PROVE  node'[d].copy = "copied"
    <3>1. CASE b = c
      <4>1. node[c].lo <= d /\ d <= node[c].hi
        BY <1>4, <2>2, <3>1
      <4>2. srv[c].st = "done"
        BY <1>1, <2>2, <4>1, Types DEF Nodes
      <4>3. c \in Servers
        BY DEF Nodes, Servers
      <4>4. srv[c].lo = node[c].lo /\ srv[c].hi = node[c].hi
        BY <1>1, <4>2 DEF ListInv
      <4>5. node[d].copy = "copied"
        BY <2>2, <4>1, <4>2, <4>3, <4>4, DoneCopied
      <4> QED
        BY <1>4, <2>2, <4>5
    <3>2. CASE b # c
      <4>1. node[d].copy = "copied"
        BY <1>1, <1>4, <2>2, <3>2 DEF PartInv
      <4> QED
        BY <1>4, <2>2, <4>1
    <3> QED
      BY <3>1, <3>2
  <2> QED
    BY <2>1, <2>2 DEF PartInv
<1> QED
  BY <1>6, <1>8, <1>9, <1>10, <1>11, <1>12, <1>13, <1>14 DEF IInv
-----------------------------------------------------------------------------
(* The start and the failure of a clone command                            *)

\* Nothing of a list has been looked at.
LEMMA DividedInit ==
    ASSUME NEW ns \in Nat \ {0}, max \in Int
    PROVE  Divided(ns, 0, 0)
<1> DEFINE m == GroupSize(ns)
           g == Groups(ns)
           ce == GroupsEnd(ns)
<1>1. /\ m \in Nat \ {0} /\ g \in Nat /\ ce \in 0..ns
      /\ ce <= g * m
      /\ g > 0 => (g - 1) * m < ce
      /\ g = 0 => ce = 0
  BY Sizes
<1> HIDE DEF m, g, ce
<1>2. 0 * m = 0 /\ (g > 0 => (g - 1) * m >= 0)
  BY <1>1
<1>3. 0 < ce => 0 < g
  BY <1>1
<1>4. 0 >= ce => ce = 0 /\ g = 0
  BY <1>1, <1>2
<1> QED
  BY <1>1, <1>2, <1>3, <1>4 DEF Divided, m, g, ce

\* A list that was not looked at satisfies the invariant of a server.
LEMMA CloningInv ==
    ASSUME TypeOK, max' = max, NEW k \in Servers, NEW lo \in 1..N, NEW hi \in 1..N,
           lo <= hi, srv'[k] = Cloning(lo, hi)
    PROVE  /\ Cloning(lo, hi) \in TspawnState
           /\ srv'[k].st = "spawning" /\ srv'[k].lo = lo /\ srv'[k].hi = hi
           /\ srv'[k].i = 0 /\ srv'[k].idx = 0 /\ srv'[k].ndone = 0
           /\ SrvInv(k)'
<1>1. N \in Nat \ {0} /\ max \in Int
  BY Types
<1>2. Cloning(lo, hi) = [st |-> "spawning", lo |-> lo, hi |-> hi, i |-> 0, idx |-> 0, ndone |-> 0]
  BY DEF Cloning, NoTspawn
<1>3. /\ Cloning(lo, hi) \in TspawnState
      /\ srv'[k].st = "spawning" /\ srv'[k].lo = lo /\ srv'[k].hi = hi
      /\ srv'[k].i = 0 /\ srv'[k].idx = 0 /\ srv'[k].ndone = 0
  BY <1>1, <1>2 DEF TspawnState
<1>4. hi - lo + 1 \in Nat \ {0}
  BY <1>1
<1>5. Divided(hi - lo + 1, 0, 0)
  BY <1>1, <1>4, DividedInit
<1>6. Length(srv[k])' = hi - lo + 1
  BY <1>3 DEF Length
<1>7. Divided(Length(srv[k]), srv[k].i, srv[k].idx)'
  BY <1>3, <1>5, <1>6 DEF Divided, GroupsEnd, Groups, GroupSize, NNodes
<1> QED
  BY <1>3, <1>4, <1>6, <1>7 DEF SrvInv

LEMMA WriteInv ==
    ASSUME IInv, sctl_write PROVE IInv'
<1>1. /\ TypeOK /\ ListInv /\ RestInv /\ MadeInv /\ CountInv /\ CoverInv /\ PartInv
      /\ \A l \in Servers : SrvInv(l)
  BY DEF IInv
<1>2. /\ srv[0].st = "idle" /\ srv' = [srv EXCEPT ![0] = Cloning(1, N)]
      /\ node' = node /\ made' = made /\ max' = max /\ empty' = empty
  BY DEF sctl_write
<1>3. 0 \in Servers /\ 1 \in 1..N /\ N \in 1..N /\ N \in Nat \ {0} /\ max \in Int
  BY <1>1, Types, TspawnAssumption DEF Servers
<1>4. /\ srv'[0] = Cloning(1, N)
      /\ \A l \in Servers : l # 0 => srv'[l] = srv[l]
  BY <1>1, <1>2, <1>3 DEF TypeOK
<1>5. /\ Cloning(1, N) \in TspawnState
      /\ srv'[0].st = "spawning" /\ srv'[0].lo = 1 /\ srv'[0].hi = N
      /\ srv'[0].i = 0 /\ srv'[0].idx = 0 /\ srv'[0].ndone = 0
      /\ SrvInv(0)'
  BY <1>1, <1>2, <1>3, <1>4, CloningInv
<1>6. /\ \A d \in Nodes : node[d].copy = "none"
      /\ \A l \in Servers : l # 0 => srv[l].st = "idle"
  <2>1. \A d \in Nodes : node[d].copy = "none"
    BY <1>1, <1>2 DEF RestInv
  <2> QED
    BY <1>1, <2>1 DEF ListInv, Servers, Nodes
<1>7. TypeOK'
  BY <1>1, <1>2, <1>5 DEF TypeOK
<1>8. ASSUME NEW l \in Servers PROVE SrvInv(l)'
  BY <1>4, <1>5, <1>6 DEF SrvInv
<1>9. ListInv'
  BY <1>4, <1>5, <1>6 DEF ListInv, Nodes, Servers
<1>10. RestInv'
  <2>1. \A l \in Servers, d \in Nodes : InRest(l, d)' => l = 0
    BY <1>4, <1>6 DEF InRest
  <2>2. \A b, d \in Nodes : ~InPart(b, d)'
    BY <1>2, <1>6 DEF InPart
  <2> QED
    BY <1>2, <1>5, <1>6, <2>1, <2>2 DEF RestInv
<1>11. MadeInv'
  BY <1>1, <1>2, <1>6 DEF MadeInv
<1>12. CountInv'
  <2>1. \A l \in Servers : Copies(l)' = {}
    BY <1>2, <1>6 DEF Copies, Busy
  <2>2. Cardinality({}) = 0
    BY FS_EmptySet
  <2> QED
    BY <1>4, <1>5, <1>6, <2>1, <2>2 DEF CountInv
<1>13. CoverInv'
  BY <1>4, <1>5, <1>6 DEF CoverInv, Nodes
<1>14. PartInv'
  BY <1>2, <1>6 DEF PartInv
<1> QED
  BY <1>7, <1>8, <1>9, <1>10, <1>11, <1>12, <1>13, <1>14 DEF IInv

LEMMA CtlInv ==
    ASSUME IInv, NEW c \in Nodes, rxfile_copy_ctl(c) PROVE IInv'
<1>1. /\ TypeOK /\ ListInv /\ RestInv /\ MadeInv /\ CountInv /\ CoverInv /\ PartInv
      /\ \A l \in Servers : SrvInv(l)
  BY DEF IInv
<1>2. /\ node[c].copy = "copying" /\ node[c].lo <= node[c].hi
      /\ srv' = [srv EXCEPT ![c] = Cloning(node[c].lo, node[c].hi)]
      /\ made' = made /\ max' = max /\ empty' = empty
  BY DEF rxfile_copy_ctl
<1>3. /\ c \in Servers /\ c # 0 /\ 0 \in Servers
      /\ node[c].lo \in 1..N /\ node[c].hi \in 1..N
  <2>1. node[c].lo \in 1..(N + 1) /\ node[c].hi \in 0..N /\ N \in Nat
    BY <1>1, Types
  <2> QED
    BY <1>2, <2>1 DEF Nodes, Servers
<1>4. /\ srv'[c] = Cloning(node[c].lo, node[c].hi)
      /\ \A l \in Servers : l # c => srv'[l] = srv[l]
  BY <1>1, <1>2, <1>3 DEF TypeOK
<1>5. /\ Cloning(node[c].lo, node[c].hi) \in TspawnState
      /\ srv'[c].st = "spawning" /\ srv'[c].lo = node[c].lo /\ srv'[c].hi = node[c].hi
      /\ srv'[c].i = 0 /\ srv'[c].idx = 0 /\ srv'[c].ndone = 0
      /\ SrvInv(c)'
  BY <1>1, <1>2, <1>3, <1>4, CloningInv
<1>6. /\ \A d \in Nodes : d # c => node'[d] = node[d]
      /\ node'[c].copy = "cloning" /\ node'[c].by = node[c].by
      /\ node'[c].lo = node[c].lo /\ node'[c].hi = node[c].hi
      /\ node' \in [Nodes -> Node]
  BY <1>1 DEF rxfile_copy_ctl, TypeOK, Node
<1>7. srv[c].st = "idle"
  BY <1>1, <1>2 DEF ListInv
<1>8. \A d \in Nodes : node[d].copy # "none" => node[d].by # c
  BY <1>1, <1>7 DEF MadeInv
<1>9. srv[0].st # "idle"
  BY <1>1, <1>2 DEF RestInv
<1>10. TypeOK'
  BY <1>1, <1>2, <1>5, <1>6 DEF TypeOK
<1>11. ASSUME NEW l \in Servers PROVE SrvInv(l)'
  <2>1. CASE l = c
    BY <1>5, <2>1
  <2>2. CASE l # c
    <3>1. SrvInv(l) /\ srv'[l] = srv[l]
      BY <1>1, <1>4, <2>2
    <3> QED
      BY <1>2, <3>1
      DEF SrvInv, Divided, GroupsEnd, Groups, GroupSize, NNodes
  <2> QED
    BY <2>1, <2>2
<1>12. ListInv'
  <2>1. ASSUME NEW b \in Nodes, srv'[b].st # "idle"
        PROVE  /\ node'[b].copy \notin {"none", "copying"}
               /\ srv'[b].lo = node'[b].lo
               /\ srv'[b].hi = node'[b].hi
    <3>1. b \in Servers
      BY TspawnAssumption DEF Nodes, Servers
    <3>2. CASE b = c
      BY <1>5, <1>6, <3>2
    <3>3. CASE b # c
      BY <1>1, <1>4, <1>6, <2>1, <3>1, <3>3 DEF ListInv
    <3> QED
      BY <3>2, <3>3
  <2>2. srv'[0] = srv[0]
    BY <1>3, <1>4
  <2> QED
    BY <1>1, <2>1, <2>2 DEF ListInv
<1>13. RestInv'
  <2>1. ASSUME NEW l \in Servers, NEW d \in Nodes, InRest(l, d)'
        PROVE  IF l = c THEN InPart(c, d) ELSE InRest(l, d)
    <3>1. CASE l = c
      <4>1. node[c].lo <= d /\ d <= node[c].hi
        <5>1. /\ srv'[c].lo + srv'[c].i <= d /\ d <= srv'[c].hi
          BY <2>1, <3>1 DEF InRest
        <5> QED
          BY <1>3, <1>5, <5>1
      <4> QED
        BY <1>2, <3>1, <4>1 DEF InPart
    <3>2. CASE l # c
      BY <1>4, <2>1, <3>2 DEF InRest
    <3> QED
      BY <3>1, <3>2
  <2>2. \A b, d \in Nodes : InPart(b, d)' => b # c /\ InPart(b, d)
    BY <1>6 DEF InPart
  <2>3. \A d \in Nodes : node[d].copy = "none" => node'[d].copy = "none"
    BY <1>2, <1>6
  <2>4. srv'[0].st # "idle"
    BY <1>3, <1>4, <1>9
  <2>5. ASSUME NEW d \in Nodes, NEW l \in Servers, InRest(l, d)'
        PROVE  /\ node'[d].copy = "none"
               /\ \A j \in Servers : InRest(j, d)' => j = l
               /\ \A b \in Nodes : ~InPart(b, d)'
    <3>1. IF l = c THEN InPart(c, d) ELSE InRest(l, d)
      BY <2>1, <2>5
    <3>2. node'[d].copy = "none"
      BY <1>1, <2>3, <3>1 DEF RestInv
    <3>3. ASSUME NEW j \in Servers, InRest(j, d)' PROVE j = l
      <4>1. IF j = c THEN InPart(c, d) ELSE InRest(j, d)
        BY <2>1, <3>3
      <4> QED
        BY <1>1, <3>1, <4>1 DEF RestInv
    <3>4. ASSUME NEW b \in Nodes, InPart(b, d)' PROVE FALSE
      <4>1. b # c /\ InPart(b, d)
        BY <2>2, <3>4
      <4> QED
        BY <1>1, <3>1, <4>1 DEF RestInv
    <3> QED
      BY <3>2, <3>3, <3>4
  <2>6. ASSUME NEW d \in Nodes, NEW b \in Nodes, InPart(b, d)'
        PROVE  /\ node'[d].copy = "none"
               /\ \A a \in Nodes : InPart(a, d)' => a = b
    BY <1>1, <2>2, <2>3, <2>6 DEF RestInv
  <2> QED
    BY <2>4, <2>5, <2>6 DEF RestInv
<1>14. MadeInv'
  <2>1. ASSUME NEW b \in Nodes
        PROVE  /\ made'[b] = (IF node'[b].copy = "none" THEN 0 ELSE 1)
               /\ node'[b].copy # "none" => srv'[node'[b].by].st # "idle"
               /\ node'[b].copy = "dropped" => srv'[node'[b].by].st = "error"
    <3>1. node'[b].by = node[b].by /\ node[b].by \in Servers
      BY <1>1, <1>6, Types
    <3>2. /\ node'[b].copy = "none" <=> node[b].copy = "none"
          /\ node'[b].copy = "dropped" <=> node[b].copy = "dropped"
      BY <1>2, <1>6
    <3>3. node[b].copy # "none" => srv'[node[b].by] = srv[node[b].by]
      BY <1>4, <1>8, <3>1
    <3> QED
      BY <1>1, <1>2, <3>1, <3>2, <3>3 DEF MadeInv
  <2> QED
    BY <2>1 DEF MadeInv
<1>15. CountInv'
  <2>1. \A l \in Servers : Copies(l)' = Copies(l)
    BY <1>2, <1>6 DEF Copies, Busy
  <2>2. Copies(c) = {} /\ Cardinality({}) = 0
    BY <1>8, FS_EmptySet DEF Copies, Busy
  <2>3. ASSUME NEW l \in Servers
        PROVE  /\ srv'[l].st \in {"spawning", "copying", "done"} =>
                      srv'[l].idx = srv'[l].ndone + Cardinality(Copies(l)')
               /\ srv'[l].st = "copying" => srv'[l].ndone < NNodes(Length(srv[l]))'
               /\ srv'[l].st = "done" => srv'[l].ndone >= NNodes(Length(srv[l]))'
               /\ srv'[l].st = "error" => Copies(l)' = {}
    <3>1. CASE l = c
      <4>1. Copies(l)' = {}
        BY <2>1, <2>2, <3>1
      <4> QED
        BY <1>5, <2>2, <3>1, <4>1
    <3>2. CASE l # c
      <4>1. srv'[l] = srv[l]
        BY <1>4, <3>2
      <4>2. NNodes(Length(srv[l]))' = NNodes(Length(srv[l]))
        BY <1>2, <4>1 DEF NNodes, Length
      <4>3. Copies(l)' = Copies(l)
        BY <2>1
      <4> QED
        BY <1>1, <4>1, <4>2, <4>3 DEF CountInv
    <3> QED
      BY <3>1, <3>2
  <2> QED
    BY <2>3 DEF CountInv
<1>16. CoverInv'
  <2>1. ASSUME NEW l \in Servers, NEW d \in Nodes,
               srv'[l].st # "idle", srv'[l].lo <= d, d < srv'[l].lo + srv'[l].i
        PROVE  \E b \in Nodes : /\ node'[b].copy # "none"
                                /\ node'[b].by = l
                                /\ d = b \/ (node'[b].lo <= d /\ d <= node'[b].hi)
    <3>1. l # c
      BY <1>3, <1>5, <2>1 DEF Nodes
    <3>2. PICK b \in Nodes : /\ node[b].copy # "none"
                             /\ node[b].by = l
                             /\ d = b \/ (node[b].lo <= d /\ d <= node[b].hi)
      BY <1>1, <1>4, <2>1, <3>1 DEF CoverInv
    <3>3. /\ node'[b].copy # "none" /\ node'[b].by = node[b].by
          /\ node'[b].lo = node[b].lo /\ node'[b].hi = node[b].hi
      BY <1>6, <3>2
    <3> QED
      BY <3>2, <3>3
  <2> QED
    BY <2>1 DEF CoverInv
<1>17. PartInv'
  BY <1>1, <1>2, <1>6 DEF PartInv, Failed
<1> QED
  BY <1>10, <1>11, <1>12, <1>13, <1>14, <1>15, <1>16, <1>17 DEF IInv

LEMMA ErrorInv ==
    ASSUME IInv, NEW k \in Servers, tspawn_error(k) PROVE IInv'
<1>1. /\ TypeOK /\ ListInv /\ RestInv /\ MadeInv /\ CountInv /\ CoverInv /\ PartInv
      /\ \A l \in Servers : SrvInv(l)
  BY DEF IInv
<1>2. /\ srv[k].st = "spawning" /\ srv' = [srv EXCEPT ![k].st = "error"]
      /\ made' = made /\ max' = max /\ empty' = empty
  BY DEF tspawn_error
<1>3. /\ \A l \in Servers : l # k => srv'[l] = srv[l]
      /\ srv'[k].st = "error" /\ srv'[k].lo = srv[k].lo /\ srv'[k].hi = srv[k].hi
      /\ srv'[k].i = srv[k].i /\ srv'[k].idx = srv[k].idx
      /\ srv' \in [Servers -> TspawnState]
  BY <1>1, <1>2 DEF TypeOK, TspawnState
<1>4. /\ \A d \in Nodes : /\ node'[d].copy = IF Busy(k, d) THEN "dropped" ELSE node[d].copy
                          /\ node'[d].by = node[d].by
                          /\ node'[d].lo = node[d].lo /\ node'[d].hi = node[d].hi
      /\ node' \in [Nodes -> Node]
  BY <1>1 DEF tspawn_error, TypeOK, Node
<1>5. \A d \in Nodes : Busy(k, d) <=> node[d].by = k /\ node[d].copy \in {"copying", "cloning"}
  BY DEF Busy
<1>6. TypeOK'
  BY <1>1, <1>2, <1>3, <1>4 DEF TypeOK
<1>7. ASSUME NEW l \in Servers PROVE SrvInv(l)'
  <2>1. /\ SrvInv(l) /\ srv'[l].st \in {srv[l].st, "error"}
        /\ srv[l].st = "idle" => srv'[l].st = "idle"
        /\ srv'[l].lo = srv[l].lo /\ srv'[l].hi = srv[l].hi
        /\ srv'[l].i = srv[l].i /\ srv'[l].idx = srv[l].idx
    BY <1>1, <1>2, <1>3
  <2>2. Length(srv[l])' = Length(srv[l])
    BY <2>1 DEF Length
  <2> QED
    BY <1>2, <2>1, <2>2
    DEF SrvInv, Divided, GroupsEnd, Groups, GroupSize, NNodes
<1>8. ListInv'
  <2>1. srv'[0].st # "idle" => srv'[0].lo = 1 /\ srv'[0].hi = N
    BY <1>1, <1>2, <1>3, TspawnAssumption DEF ListInv, Servers
  <2>2. ASSUME NEW b \in Nodes, srv'[b].st # "idle"
        PROVE  /\ node'[b].copy \notin {"none", "copying"}
               /\ srv'[b].lo = node'[b].lo
               /\ srv'[b].hi = node'[b].hi
    <3>1. b \in Servers
      BY TspawnAssumption DEF Nodes, Servers
    <3>2. srv[b].st # "idle" /\ srv'[b].lo = srv[b].lo /\ srv'[b].hi = srv[b].hi
      BY <1>2, <1>3, <2>2, <3>1
    <3> QED
      BY <1>1, <1>4, <3>2 DEF ListInv
  <2> QED
    BY <2>1, <2>2 DEF ListInv
<1>9. RestInv'
  <2>1. \A l \in Servers, d \in Nodes : InRest(l, d)' => InRest(l, d)
    BY <1>3 DEF InRest
  <2>2. \A b, d \in Nodes : InPart(b, d)' => InPart(b, d)
    BY <1>4 DEF InPart
  <2>3. \A d \in Nodes : node[d].copy = "none" => node'[d].copy = "none"
    BY <1>4, <1>5
  <2>4. srv'[0].st = "idle" => srv[0].st = "idle"
    BY <1>2, <1>3, TspawnAssumption DEF Servers
  <2> QED
    BY <1>1, <2>1, <2>2, <2>3, <2>4 DEF RestInv
<1>10. MadeInv'
  <2>1. ASSUME NEW b \in Nodes
        PROVE  /\ made'[b] = (IF node'[b].copy = "none" THEN 0 ELSE 1)
               /\ node'[b].copy # "none" => srv'[node'[b].by].st # "idle"
               /\ node'[b].copy = "dropped" => srv'[node'[b].by].st = "error"
    <3>1. node'[b].by = node[b].by /\ node[b].by \in Servers
      BY <1>1, <1>4, Types
    <3>2. node'[b].copy = "none" <=> node[b].copy = "none"
      BY <1>4, <1>5
    <3>3. srv[node[b].by].st = "error" => srv'[node[b].by].st = "error"
      BY <1>3, <3>1
    <3>4. srv[node[b].by].st # "idle" => srv'[node[b].by].st # "idle"
      BY <1>3, <3>1
    <3>5. node'[b].copy = "dropped" => node[b].copy = "dropped" \/ node[b].by = k
      BY <1>4, <1>5
    <3> QED
      BY <1>1, <1>2, <1>3, <3>1, <3>2, <3>3, <3>4, <3>5 DEF MadeInv
  <2> QED
    BY <2>1 DEF MadeInv
<1>11. CountInv'
  <2>1. Copies(k)' = {}
    BY <1>4, <1>5 DEF Copies, Busy
  <2>2. ASSUME NEW l \in Servers, l # k PROVE Copies(l)' = Copies(l)
    BY <1>4, <1>5, <2>2 DEF Copies, Busy
  <2>3. ASSUME NEW l \in Servers
        PROVE  /\ srv'[l].st \in {"spawning", "copying", "done"} =>
                      srv'[l].idx = srv'[l].ndone + Cardinality(Copies(l)')
               /\ srv'[l].st = "copying" => srv'[l].ndone < NNodes(Length(srv[l]))'
               /\ srv'[l].st = "done" => srv'[l].ndone >= NNodes(Length(srv[l]))'
               /\ srv'[l].st = "error" => Copies(l)' = {}
    <3>1. CASE l = k
      BY <1>3, <2>1, <3>1
    <3>2. CASE l # k
      <4>1. srv'[l] = srv[l] /\ Copies(l)' = Copies(l)
        BY <1>3, <2>2, <3>2
      <4>2. NNodes(Length(srv[l]))' = NNodes(Length(srv[l]))
        BY <1>2, <4>1 DEF NNodes, Length
      <4> QED
        BY <1>1, <4>1, <4>2 DEF CountInv
    <3> QED
      BY <3>1, <3>2
  <2> QED
    BY <2>3 DEF CountInv
<1>12. CoverInv'
  <2>1. ASSUME NEW l \in Servers, NEW d \in Nodes,
               srv'[l].st # "idle", srv'[l].lo <= d, d < srv'[l].lo + srv'[l].i
        PROVE  \E b \in Nodes : /\ node'[b].copy # "none"
                                /\ node'[b].by = l
                                /\ d = b \/ (node'[b].lo <= d /\ d <= node'[b].hi)
    <3>1. /\ srv[l].st # "idle" /\ srv'[l].lo = srv[l].lo /\ srv'[l].i = srv[l].i
      BY <1>2, <1>3, <2>1
    <3>2. PICK b \in Nodes : /\ node[b].copy # "none"
                             /\ node[b].by = l
                             /\ d = b \/ (node[b].lo <= d /\ d <= node[b].hi)
      BY <1>1, <2>1, <3>1 DEF CoverInv
    <3>3. /\ node'[b].copy # "none" /\ node'[b].by = node[b].by
          /\ node'[b].lo = node[b].lo /\ node'[b].hi = node[b].hi
      BY <1>4, <3>2
    <3> QED
      BY <3>2, <3>3
  <2> QED
    BY <2>1 DEF CoverInv
<1>13. PartInv'
  <2>1. Failed => Failed'
    BY <1>4, <1>5 DEF Failed
  <2>2. \A d \in Nodes : node'[d].copy = "copied" <=> node[d].copy = "copied"
    BY <1>4, <1>5
  <2> QED
    BY <1>1, <1>4, <2>1, <2>2 DEF PartInv
<1> QED
  BY <1>6, <1>7, <1>8, <1>9, <1>10, <1>11, <1>12, <1>13 DEF IInv

-----------------------------------------------------------------------------
(* The theorems                                                            *)

LEMMA InitInv ==
    ASSUME Init PROVE IInv
<1>1. N \in Nat \ {0} /\ 0 \in Servers
  BY TspawnAssumption DEF Servers
<1>2. /\ \A k \in Servers : srv[k].st = "idle"
      /\ \A c \in Nodes : node[c].copy = "none" /\ made[c] = 0
  BY DEF Init, NoTspawn, NoNode
<1>3. TypeOK
  <2>1. NoTspawn \in TspawnState
    BY <1>1 DEF NoTspawn, TspawnState
  <2>2. NoNode \in Node
    BY <1>1 DEF NoNode, Node
  <2> QED
    BY <2>1, <2>2 DEF Init, TypeOK
<1>4. (\A k \in Servers : SrvInv(k)) /\ ListInv
  BY <1>1, <1>2 DEF SrvInv, ListInv, Nodes, Servers
<1>5. RestInv /\ MadeInv /\ CoverInv /\ PartInv
  BY <1>2 DEF RestInv, InRest, InPart, MadeInv, CoverInv, PartInv
<1>6. CountInv
  BY <1>2 DEF CountInv
<1> QED
  BY <1>3, <1>4, <1>5, <1>6 DEF IInv

LEMMA StutterInv ==
    ASSUME IInv, UNCHANGED vars PROVE IInv'
<1>1. /\ TypeOK /\ ListInv /\ RestInv /\ MadeInv /\ CountInv /\ CoverInv /\ PartInv
      /\ \A l \in Servers : SrvInv(l)
  BY DEF IInv
<1>2. srv' = srv /\ node' = node /\ made' = made /\ max' = max /\ empty' = empty
  BY DEF vars
<1>3. TypeOK' /\ ListInv' /\ MadeInv' /\ CoverInv' /\ PartInv'
  BY <1>1, <1>2 DEF TypeOK, ListInv, MadeInv, CoverInv, PartInv, Failed
<1>4. RestInv'
  BY <1>1, <1>2 DEF RestInv, InRest, InPart
<1>5. CountInv'
  BY <1>1, <1>2 DEF CountInv, Copies, Busy, NNodes, Length
<1>6. \A l \in Servers : SrvInv(l)'
  BY <1>1, <1>2 DEF SrvInv, Divided, GroupsEnd, Groups, GroupSize, NNodes, Length
<1> QED
  BY <1>3, <1>4, <1>5, <1>6 DEF IInv

LEMMA NextInv ==
    ASSUME IInv, [Next]_vars PROVE IInv'
<1>1. ASSUME NEW c \in Nodes, NEW how \in {"copied", "failed"},
             node[c].copy \in {"copying", "cloning"}, Ends(c, how),
             how = "copied" => \/ node[c].lo > node[c].hi
                               \/ node[c].copy = "cloning" /\ srv[c].st = "done"
      PROVE  IInv'
  <2>1. node[c].by \in Servers
    BY Types DEF IInv
  <2> QED
    BY <1>1, <2>1, EndsInv
<1>2. CASE sctl_write
  BY <1>2, WriteInv
<1>3. ASSUME NEW k \in Servers, tspawn(k) PROVE IInv'
  <2>1. PICK c \in Nodes, e \in Nat : \E new, how : Turned(k, c, e, new, how)
    BY <1>3, TspawnTurns
  <2>2. PICK new, how : Turned(k, c, e, new, how)
    BY <2>1
  <2> QED
    BY <2>2, TurnedInv
<1>4. ASSUME NEW k \in Servers, tspawn_error(k) PROVE IInv'
  BY <1>4, ErrorInv
<1>5. ASSUME NEW c \in Nodes, rxfile_copy(c) PROVE IInv'
  BY <1>1, <1>5 DEF rxfile_copy, IInv, TypeOK, Node
<1>6. ASSUME NEW c \in Nodes, rxfile_copy_ctl(c) PROVE IInv'
  BY <1>6, CtlInv
<1>7. ASSUME NEW c \in Nodes, Answers(c) PROVE IInv'
  <2>1. CASE srv[c].st = "done"
    <3>1. node[c].copy = "cloning" /\ Ends(c, "copied")
      BY <1>7, <2>1 DEF Answers
    <3> QED
      BY <1>1, <2>1, <3>1
  <2>2. CASE srv[c].st # "done"
    <3>1. node[c].copy = "cloning" /\ Ends(c, "failed")
      BY <1>7, <2>2 DEF Answers
    <3> QED
      BY <1>1, <3>1
  <2> QED
    BY <2>1, <2>2
<1>8. ASSUME NEW c \in Nodes, rxfile_error(c) PROVE IInv'
  BY <1>1, <1>8 DEF rxfile_error
<1>9. CASE UNCHANGED vars
  BY <1>9, StutterInv
<1> QED
  BY <1>2, <1>3, <1>4, <1>5, <1>6, <1>7, <1>8, <1>9 DEF Next

\* The conjunction that the other theorems rest on, for every list of nodes and
\* every "max sessions" (tspawn, node_cb, tspawn_done, rxfile_notify).
THEOREM TspawnInvariant == Spec => []IInv
<1>1. Init => IInv
  BY InitInv
<1>2. IInv /\ [Next]_vars => IInv'
  BY NextInv
<1> QED
  BY <1>1, <1>2, PTL DEF Spec

\* The types of the state of tspawn.c.
THEOREM TspawnTypeOK == Spec => []TypeOK
<1>1. IInv => TypeOK
  BY DEF IInv
<1> QED
  BY <1>1, TspawnInvariant, PTL

\* ts->nodes[idx] stays within the array and fills it (tspawn.c:429-471).
THEOREM TspawnNodesFit == Spec => []NodesFit
<1>1. IInv => NodesFit
  BY InvNodesFit
<1> QED
  BY <1>1, TspawnInvariant, PTL

\* No node gets the session twice (tspawn.c:429-471, the list behind "clone").
THEOREM TspawnMadeOnce == Spec => []MadeOnce
<1>1. IInv => MadeOnce
  BY InvMadeOnce
<1> QED
  BY <1>1, TspawnInvariant, PTL

\* The clone command is answered when no copy is being made any more, and without
\* failures all nodes of the list have the session then (node_cb, tspawn_done).
THEOREM TspawnAnsweredLast == Spec => []AnsweredLast
<1>1. IInv => AnsweredLast
  BY InvAnsweredLast
<1> QED
  BY <1>1, TspawnInvariant, PTL

=============================================================================
