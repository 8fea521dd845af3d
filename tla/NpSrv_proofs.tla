---------------------------- MODULE NpSrv_proofs ----------------------------
(***************************************************************************)
(* Proofs about the threads of libnpfs, for any number of workers, request *)
(* structures and tags: the reference counts of requests and of the        *)
(* connection are exact, and a request that was taken is answered once.    *)
(***************************************************************************)
EXTENDS NpSrv, SequenceTheorems, FiniteSetTheorems, WellFoundedInduction, TLAPS

-----------------------------------------------------------------------------
(* Chains of links, whatever the links are.                                *)

Links == [x \in Objs |-> req[x].flushreq]

LinkTable == [Objs -> Objs \cup {NIL}]

LinkedIn(L, S) == \A x \in S : L[x] \in S \cup {NIL}

ChainOf(L, o) == {x \in Objs : \A S \in SUBSET Objs :
                                  (o \in S \cup {NIL} /\ LinkedIn(L, S)) => x \in S}

LEMMA ChainsOfLinks ==
    /\ \A o : Chain(o) = ChainOf(Links, o)
    /\ \A o : Chain(o)' = ChainOf(Links', o)
  <1>1. \A S \in SUBSET Objs : Linked(S) <=> LinkedIn(Links, S)
    BY DEF Linked, LinkedIn, Links
  <1>2. \A S \in SUBSET Objs : Linked(S)' <=> LinkedIn(Links', S)
    BY DEF Linked, LinkedIn, Links
  <1>3. \A o : Chain(o) = ChainOf(Links, o)
    BY <1>1 DEF Chain, ChainOf
  <1>4. \A o : Chain(o)' = ChainOf(Links', o)
    BY <1>2 DEF Chain, ChainOf
  <1> QED
    BY <1>3, <1>4

LEMMA ChainLeast ==
    ASSUME NEW L, NEW o, NEW S \in SUBSET Objs, o \in S \cup {NIL}, LinkedIn(L, S)
    PROVE  ChainOf(L, o) \subseteq S
  BY DEF ChainOf

LEMMA ChainNil ==
    ASSUME NEW L
    PROVE  ChainOf(L, NIL) = {}
  <1>1. LinkedIn(L, {})
    BY DEF LinkedIn
  <1> QED
    BY <1>1, ChainLeast

LEMMA ChainHead ==
    ASSUME NpSrvAssumption, NEW L, NEW o \in Objs
    PROVE  o \in ChainOf(L, o)
  BY DEF ChainOf, NpSrvAssumption

LEMMA ChainObjs ==
    ASSUME NEW L, NEW o
    PROVE  ChainOf(L, o) \subseteq Objs
  BY DEF ChainOf

\* A chain goes on to its end.
LEMMA ChainGoesOn ==
    ASSUME NpSrvAssumption, NEW L, NEW o, NEW x \in ChainOf(L, o), L[x] \in Objs
    PROVE  L[x] \in ChainOf(L, o)
  <1>1. ASSUME NEW S \in SUBSET Objs, o \in S \cup {NIL}, LinkedIn(L, S)
        PROVE  L[x] \in S
    <2>1. x \in S
      BY <1>1 DEF ChainOf
    <2> QED
      BY <1>1, <2>1 DEF LinkedIn, NpSrvAssumption
  <1> QED
    BY <1>1 DEF ChainOf

LEMMA ChainLinked ==
    ASSUME NpSrvAssumption, NEW L \in LinkTable, NEW o
    PROVE  LinkedIn(L, ChainOf(L, o))
  <1>1. ASSUME NEW x \in ChainOf(L, o)
        PROVE  L[x] \in ChainOf(L, o) \cup {NIL}
    <2>1. L[x] \in Objs \cup {NIL}
      BY ChainObjs DEF LinkTable
    <2> QED
      BY <2>1, ChainGoesOn
  <1> QED
    BY <1>1 DEF LinkedIn

\* The chain of a request is the request and the chain of what is linked to it.
LEMMA ChainSplit ==
    ASSUME NpSrvAssumption, NEW L \in LinkTable, NEW o \in Objs
    PROVE  ChainOf(L, o) = {o} \cup ChainOf(L, L[o])
  <1>1. L[o] \in Objs \cup {NIL}
    BY DEF LinkTable
  <1>2. ChainOf(L, o) \subseteq {o} \cup ChainOf(L, L[o])
    <2> DEFINE S == {o} \cup ChainOf(L, L[o])
    <2>1. S \in SUBSET Objs
      BY ChainObjs
    <2>2. L[o] \in S \cup {NIL}
      BY <1>1, ChainHead
    <2>3. LinkedIn(L, S)
      BY <2>2, ChainLinked DEF LinkedIn
    <2> HIDE DEF S
    <2>4. o \in S
      BY DEF S
    <2>5. ChainOf(L, o) \subseteq S
      BY <2>1, <2>3, <2>4, ChainLeast
    <2> QED
      BY <2>5 DEF S
  <1>3. ChainOf(L, L[o]) \subseteq ChainOf(L, o)
    <2> DEFINE S == ChainOf(L, o)
    <2>1. S \in SUBSET Objs /\ o \in S /\ LinkedIn(L, S)
      BY ChainObjs, ChainHead, ChainLinked
    <2> HIDE DEF S
    <2>2. L[o] \in S \cup {NIL}
      BY <2>1 DEF LinkedIn
    <2>3. ChainOf(L, L[o]) \subseteq S
      BY <2>1, <2>2, ChainLeast
    <2> QED
      BY <2>3 DEF S
  <1> QED
    BY <1>2, <1>3, ChainHead

\* A chain depends on the links of its own requests.
LEMMA ChainSame ==
    ASSUME NpSrvAssumption, NEW L \in LinkTable, NEW M \in LinkTable, NEW o \in Objs \cup {NIL},
           \A x \in ChainOf(L, o) : M[x] = L[x]
    PROVE  ChainOf(M, o) = ChainOf(L, o)
  <1> DEFINE C == ChainOf(L, o)
  <1>1. C \in SUBSET Objs /\ LinkedIn(L, C) /\ o \in C \cup {NIL}
    BY ChainObjs, ChainLinked, ChainHead
  <1>2. \A x \in C : M[x] = L[x]
    OBVIOUS
  <1> HIDE DEF C
  <1>3. LinkedIn(M, C)
    BY <1>1, <1>2 DEF LinkedIn
  <1>4. ChainOf(M, o) \subseteq C
    BY <1>1, <1>3, ChainLeast
  <1> DEFINE D == ChainOf(M, o)
  <1>5. D \in SUBSET Objs /\ LinkedIn(M, D) /\ o \in D \cup {NIL}
    BY ChainObjs, ChainLinked, ChainHead
  <1> HIDE DEF D
  <1>6. D \subseteq C
    BY <1>4 DEF D
  <1>7. LinkedIn(L, D)
    BY <1>2, <1>5, <1>6 DEF LinkedIn
  <1>8. ChainOf(L, o) \subseteq D
    BY <1>5, <1>7, ChainLeast
  <1> QED
    BY <1>6, <1>8 DEF C, D

\* A request without a link is a chain of its own.
LEMMA ChainSingle ==
    ASSUME NpSrvAssumption, NEW L \in LinkTable, NEW o \in Objs, L[o] = NIL
    PROVE  ChainOf(L, o) = {o}
  BY ChainSplit, ChainNil

-----------------------------------------------------------------------------
(* The inductive invariant.  What is neither answered nor dropped is in the *)
(* queue, in srv->workreqs or in a chain, and a chain begins at a request   *)
(* of a thread or at one the service keeps.  Of the tags nothing is assumed:*)
(* a client that flushes a Tflush can leave working requests in no chain,   *)
(* which then stay.                                                         *)

Answers(w) == thr[w].pc \in {"respond", "write", "next"}

Keys == Objs \cup Threads

\* Where the chain of a thread, or of a kept request, begins; of a thread that answers,
\* what is left of it.
Start(k) ==
    IF k \in Objs THEN IF k \in kept THEN k ELSE NIL
    ELSE IF thr[k].pc \in {"respond", "write"} THEN thr[k].cur
    ELSE IF thr[k].pc = "next" THEN Links[thr[k].cur]
    ELSE thr[k].req

Part(k) == ChainOf(Links, Start(k))

\* Is it in srv->workreqs?
Working(k) == k \in Objs \/ ~Answers(k)

Chained == {x \in Objs : \E k \in Keys : x \in Part(k)}

Pending == Queued \cup work \cup Chained

\* Chains do not meet and have an end, and srv->workreqs has all of those of the requests that
\* are not being answered, and nothing of the others.
ChainInv ==
    /\ \A k \in Keys : Start(k) \in Objs \cup {NIL}
    /\ \A j, k \in Keys : j # k => Part(j) \cap Part(k) = {}
    /\ \A k \in Keys : Working(k) => Part(k) \subseteq work
    /\ \A k \in Keys : ~Working(k) => Part(k) \cap work = {}
    /\ \A x \in Chained : x \notin ChainOf(Links, Links[x])

\* A request of the queue is there once, in no chain, nothing is chained to it, and no
\* thread has a reference to it.
QueueInv ==
    /\ \A i, j \in DOMAIN reqs : reqs[i] = reqs[j] => i = j
    /\ Queued \cap (work \cup Chained) = {}
    /\ \A x \in Queued : Links[x] = NIL
    /\ \A w \in Threads : thr[w].held \cap Queued = {}

\* A request that is answered is released by its thread, at the end.  A link that np_respond
\* is about to follow is that of a request answered.
AnsweredOK(w) ==
    /\ thr[w].req \in Objs /\ thr[w].cur \in Objs
    /\ thr[w].req \notin Queued \cup work
    /\ \A k \in Keys : thr[w].req \in Part(k) =>
           k = w /\ thr[w].cur = thr[w].req /\ thr[w].pc # "next"
    /\ \A v \in Threads : Answers(v) /\ thr[v].req = thr[w].req => v = w
    /\ thr[w].pc = "next" => thr[w].cur \notin Pending

AnsweredInv == \A w \in Threads : Answers(w) => AnsweredOK(w)

Resets == {"reset", "collect", "check", "sleep", "finish"}

\* What a thread has at each step.
ThreadOK(w) ==
    /\ thr[w].pc \notin {"flushed", "check", "sleep", "finish"} => thr[w].held = {}
    /\ thr[w].pc \in {"idle", "flushed", "unlist", "gone"} => thr[w].req = NIL
    /\ thr[w].pc \in {"process", "flush", "remove"} => thr[w].req \in Objs
    /\ IF w = Reader THEN thr[w].req = NIL /\ thr[w].pc \in {"idle", "unlist", "gone"} \cup Resets
       ELSE /\ thr[w].pc \notin {"unlist", "gone"}
            /\ thr[w].pc \in Resets => thr[w].req \in Objs

ThreadInv == \A w \in Threads : ThreadOK(w)

HeldBy(o) == {w \in Threads : o \in thr[w].held}

\* The requests that are answered and not released yet.
Final == {x \in Objs : \E w \in Threads : Answers(w) /\ thr[w].req = x}

Holding(o) == Cardinality(HeldBy(o)) + (IF o \in Pending \cup Final THEN 1 ELSE 0)

CountInv == \A o \in Objs : req[o].refcount = Holding(o)

PoolInv ==
    /\ \A i, j \in DOMAIN pool : pool[i] = pool[j] => i = j
    /\ \A o \in Objs : o \in Live <=> req[o].refcount # 0

AnswerInv == \A o \in Live : req[o].answers = IF o \in Pending THEN 0 ELSE 1

ListedInv == conn.listed <=> thr[Reader].pc \in {"idle", "unlist"}

IInv ==
    /\ TypeOK /\ ChainInv /\ QueueInv /\ AnsweredInv /\ ThreadInv
    /\ CountInv /\ PoolInv /\ AnswerInv /\ ListedInv /\ ConnRefs

-----------------------------------------------------------------------------
(* Lemmas about the state.                                                 *)

LEMMA LinksType ==
    ASSUME TypeOK
    PROVE  Links \in LinkTable
  BY DEF TypeOK, Npreq, Links, LinkTable

LEMMA PartFacts ==
    ASSUME NpSrvAssumption, TypeOK, ChainInv, NEW k \in Keys
    PROVE  /\ Part(k) \subseteq Chained /\ Chained \subseteq Objs
           /\ Start(k) = NIL => Part(k) = {}
           /\ Start(k) # NIL => Start(k) \in Part(k)
           /\ Start(k) # NIL => Part(k) = {Start(k)} \cup ChainOf(Links, Links[Start(k)])
  <1>1. Start(k) \in Objs \cup {NIL} /\ Links \in LinkTable
    BY LinksType DEF ChainInv
  <1>2. Part(k) \subseteq Chained
    BY ChainObjs DEF Part, Chained
  <1>3. Start(k) = NIL => Part(k) = {}
    BY ChainNil DEF Part
  <1>4. Start(k) # NIL => Start(k) \in Part(k)
    BY <1>1, ChainHead DEF Part
  <1>5. Start(k) # NIL => Part(k) = {Start(k)} \cup ChainOf(Links, Links[Start(k)])
    BY <1>1, ChainSplit DEF Part
  <1> QED
    BY <1>2, <1>3, <1>4, <1>5 DEF Chained

LEMMA KeptWorks ==
    ASSUME NpSrvAssumption, TypeOK, ChainInv, NEW o \in kept
    PROVE  o \in Keys /\ Start(o) = o /\ o \in Part(o) /\ o \in work
  <1>1. o \in Objs /\ o \in Keys /\ Start(o) = o /\ o # NIL
    BY DEF TypeOK, Keys, Start, NpSrvAssumption
  <1>2. o \in Part(o)
    BY <1>1, PartFacts
  <1>3. Working(o)
    BY <1>1 DEF Working
  <1> QED
    BY <1>1, <1>2, <1>3 DEF ChainInv

\* A set, one after the other.
LEMMA SetSeq ==
    ASSUME NEW S, IsFiniteSet(S)
    PROVE  /\ SetToSeq(S) \in Seq(S) /\ Len(SetToSeq(S)) = Cardinality(S)
           /\ \A i, j \in 1..Cardinality(S) : SetToSeq(S)[i] = SetToSeq(S)[j] => i = j
           /\ \A x \in S : \E i \in 1..Cardinality(S) : SetToSeq(S)[i] = x
  <1>1. PICK n \in Nat : n = Cardinality(S)
    BY FS_CardinalityType
  <1>2. ExistsBijection(1..n, S)
    BY <1>1, FS_CardinalityType
  <1>3. \E f \in [1..n -> S] : IsInjective(f)
    BY <1>2 DEF ExistsBijection, Bijection, Injection
  <1>4. PICK s : s = SetToSeq(S)
    OBVIOUS
  <1>5. s \in [1..n -> S] /\ IsInjective(s)
    BY <1>1, <1>3, <1>4 DEF SetToSeq
  <1>6. s \in Seq(S) /\ Len(s) = n
    BY <1>5
  <1>7. IsFiniteSet(1..n) /\ Cardinality(1..n) = n
    BY FS_Interval
  <1>8. s \in Injection(1..n, S)
    BY <1>5 DEF Injection
  <1>9. s \in Surjection(1..n, S)
    BY <1>1, <1>7, <1>8, FS_Injection
  <1>10. \A x \in S : \E i \in 1..n : s[i] = x
    BY <1>9 DEF Surjection
  <1>11. \A i, j \in 1..n : s[i] = s[j] => i = j
    BY <1>5 DEF IsInjective
  <1> QED
    BY <1>1, <1>4, <1>6, <1>10, <1>11

\* Structures that are freed go to the head of the pool.
LEMMA PoolReleased ==
    ASSUME NpSrvAssumption, TypeOK, PoolInv, NEW S \in SUBSET Objs, S \subseteq Live,
           pool' = SetToSeq(S) \o pool
    PROVE  /\ pool' \in Seq(Objs)
           /\ \A i, j \in DOMAIN pool' : pool'[i] = pool'[j] => i = j
           /\ Live' = Live \ S
           /\ IsFiniteSet(S) /\ IsFiniteSet(Live)
           /\ Cardinality(S) \in Nat /\ Cardinality(Live) \in Nat
           /\ Cardinality(Live') = Cardinality(Live) - Cardinality(S)
  <1>1. IsFiniteSet(S) /\ IsFiniteSet(Live) /\ IsFiniteSet(Objs)
    BY FS_Subset DEF NpSrvAssumption, Live
  <1>2. PICK n \in Nat : n = Cardinality(S)
    BY <1>1, FS_CardinalityType
  <1>3. PICK s : s = SetToSeq(S)
    OBVIOUS
  <1>4. /\ s \in Seq(S) /\ Len(s) = n
        /\ \A i, j \in 1..n : s[i] = s[j] => i = j
        /\ \A x \in S : \E i \in 1..n : s[i] = x
    BY <1>1, <1>2, <1>3, SetSeq
  <1>5. s \in Seq(Objs)
    BY <1>4
  <1>6. PICK p \in Seq(Objs) : p = pool
    BY DEF TypeOK
  <1>7. PICK m \in Nat : m = Len(p)
    BY <1>6
  <1>8. PICK q : q = s \o p
    OBVIOUS
  <1>9. /\ q \in Seq(Objs) /\ Len(q) = n + m /\ DOMAIN q = 1..(n + m) /\ DOMAIN p = 1..m
        /\ \A i \in 1..(n + m) : q[i] = IF i <= n THEN s[i] ELSE p[i - n]
    <2>1. q \in Seq(Objs)
      <3>1. s \o p \in Seq(Objs)
        BY <1>5, <1>6
      <3> QED
        BY <1>8, <3>1
    <2>2. Len(q) = n + m
      <3>1. Len(s \o p) = Len(s) + Len(p)
        BY <1>5, <1>6
      <3>2. Len(q) = Len(s) + Len(p)
        BY <1>8, <3>1, Zenon
      <3> QED
        BY <1>4, <1>7, <3>2
    <2>3. DOMAIN q = 1..(n + m) /\ DOMAIN p = 1..m
      BY <1>6, <1>7, <2>1, <2>2
    <2>4. ASSUME NEW i \in 1..(n + m)
          PROVE  q[i] = IF i <= n THEN s[i] ELSE p[i - n]
      <3>1. i \in 1..(Len(s) + Len(p))
        BY <1>4, <1>7
      <3>2. (s \o p)[i] = IF i <= Len(s) THEN s[i] ELSE p[i - Len(s)]
        BY <1>5, <1>6, <3>1
      <3> QED
        BY <1>4, <1>8, <3>2
    <2> QED
      BY <2>1, <2>2, <2>3, <2>4
  <1>10. pool' = q
    BY <1>3, <1>6, <1>8
  <1>11. \A i, j \in 1..m : p[i] = p[j] => i = j
    BY <1>6, <1>9 DEF PoolInv
  <1>12. \A i \in 1..m : p[i] \notin S
    BY <1>6, <1>9 DEF Live
  <1>13. \A i \in 1..n : s[i] \in S
    BY <1>4
  <1>14. ASSUME NEW i \in 1..(n + m), NEW j \in 1..(n + m), q[i] = q[j]
         PROVE  i = j
    <2>1. CASE i <= n /\ j <= n
      BY <1>4, <1>9, <1>14, <2>1
    <2>2. CASE i <= n /\ j > n
      <3>1. q[i] = s[i] /\ i \in 1..n /\ q[j] = p[j - n] /\ j - n \in 1..m
        BY <1>9, <2>2
      <3> QED
        BY <1>12, <1>13, <1>14, <3>1
    <2>3. CASE i > n /\ j <= n
      <3>1. q[j] = s[j] /\ j \in 1..n /\ q[i] = p[i - n] /\ i - n \in 1..m
        BY <1>9, <2>3
      <3> QED
        BY <1>12, <1>13, <1>14, <3>1
    <2>4. CASE i > n /\ j > n
      <3>1. q[i] = p[i - n] /\ i - n \in 1..m /\ q[j] = p[j - n] /\ j - n \in 1..m
        BY <1>9, <2>4
      <3>2. i - n = j - n
        BY <1>11, <1>14, <3>1
      <3> QED
        BY <3>2
    <2> QED
      BY <2>1, <2>2, <2>3, <2>4
  <1>15. ASSUME NEW x \in Objs
         PROVE  (\A i \in 1..(n + m) : q[i] # x) <=> (x \notin S /\ \A i \in 1..m : p[i] # x)
    <2>1. ASSUME \A i \in 1..(n + m) : q[i] # x
          PROVE  x \notin S /\ \A i \in 1..m : p[i] # x
      <3>1. \A i \in 1..n : i \in 1..(n + m) /\ q[i] = s[i]
        BY <1>9
      <3>2. \A i \in 1..m : i + n \in 1..(n + m) /\ q[i + n] = p[i]
        BY <1>9
      <3>3. x \notin S
        <4>1. \A i \in 1..n : s[i] # x
          BY <2>1, <3>1
        <4> QED
          BY <1>4, <4>1
      <3>4. \A i \in 1..m : p[i] # x
        BY <2>1, <3>2
      <3> QED
        BY <3>3, <3>4
    <2>2. ASSUME x \notin S, \A i \in 1..m : p[i] # x, NEW i \in 1..(n + m)
          PROVE  q[i] # x
      <3>1. CASE i <= n
        BY <1>9, <1>13, <2>2, <3>1
      <3>2. CASE i > n
        <4>1. q[i] = p[i - n] /\ i - n \in 1..m
          BY <1>9, <3>2
        <4> QED
          BY <2>2, <4>1
      <3> QED
        BY <3>1, <3>2
    <2> QED
      BY <2>1, <2>2
  <1>16. Live = {x \in Objs : \A i \in 1..m : p[i] # x}
    BY <1>6, <1>9 DEF Live
  <1>17. Live' = {x \in Objs : \A i \in 1..(n + m) : q[i] # x}
    BY <1>9, <1>10 DEF Live
  <1>18. Live' = Live \ S
    BY <1>15, <1>16, <1>17
  <1>19. Cardinality(Live \ S) = Cardinality(Live) - Cardinality(Live \cap S) /\ Live \cap S = S
    BY <1>1, FS_Difference
  <1> QED
    BY <1>1, <1>9, <1>10, <1>14, <1>18, <1>19, FS_CardinalityType

\* np_req_unref takes one reference away, and leaves the link and the answers; a request
\* that has another reference stays as it is.
LEMMA UnrefFields ==
    ASSUME TypeOK, NEW o \in Objs, req[o].refcount # 0
    PROVE  /\ np_req_unref(o) \in Npreq
           /\ np_req_unref(o).refcount = req[o].refcount - 1
           /\ np_req_unref(o).flushreq = req[o].flushreq
           /\ np_req_unref(o).answers = req[o].answers
           /\ req[o].refcount # 1 => /\ np_req_unref(o).type = req[o].type
                                     /\ np_req_unref(o).tag = req[o].tag
                                     /\ np_req_unref(o).oldtag = req[o].oldtag
  <1>1. req[o] \in Npreq
    BY DEF TypeOK
  <1>2. PICK x \in Npreq : x = req[o]
    BY <1>1
  <1>3. x.refcount \in Nat \ {0} /\ x.flushreq \in Objs \cup {NIL} /\ x.answers \in Nat
    BY <1>2 DEF Npreq
  <1>4. CASE x.refcount = 1
    <2>1. PICK y : y = np_req_unref(o)
      OBVIOUS
    <2>2. y = [type |-> "io", tag |-> NIL, oldtag |-> NIL, refcount |-> 0,
               flushreq |-> x.flushreq, answers |-> x.answers]
      BY <1>2, <1>4, <2>1 DEF np_req_unref, Unused
    <2>3. y \in Npreq
      BY <1>3, <2>2 DEF Npreq
    <2>4. y.refcount = 0 /\ y.flushreq = x.flushreq /\ y.answers = x.answers
      BY <2>2
    <2> QED
      BY <1>2, <1>4, <2>1, <2>3, <2>4
  <1>5. CASE x.refcount # 1
    <2>1. PICK y : y = np_req_unref(o)
      OBVIOUS
    <2>2. y = [x EXCEPT !.refcount = x.refcount - 1]
      BY <1>2, <1>5, <2>1 DEF np_req_unref
    <2>3. x.refcount - 1 \in Nat
      BY <1>3
    <2>4. y \in Npreq
      BY <2>2, <2>3 DEF Npreq
    <2>5. y.refcount = x.refcount - 1 /\ y.flushreq = x.flushreq /\ y.answers = x.answers
          /\ y.type = x.type /\ y.tag = x.tag /\ y.oldtag = x.oldtag
      BY <2>2 DEF Npreq
    <2> QED
      BY <1>2, <2>1, <2>4, <2>5
  <1> QED
    BY <1>4, <1>5

\* Requests that lose a reference, of those that are not in the pool.
LEMMA RefsReleased ==
    ASSUME NpSrvAssumption, TypeOK, PoolInv, NEW S \in SUBSET Objs,
           \A o \in S : req[o].refcount # 0,
           pool' = SetToSeq(Freed(S)) \o pool,
           \A o \in S : req'[o].refcount = req[o].refcount - 1,
           \A o \in Objs \ S : req'[o].refcount = 0 <=> req[o].refcount = 0
    PROVE  /\ PoolInv' /\ pool' \in Seq(Objs)
           /\ Live' = Live \ Freed(S) /\ Freed(S) \subseteq Live
           /\ Cardinality(Freed(S)) \in Nat /\ Cardinality(Live) \in Nat
           /\ Cardinality(Live') = Cardinality(Live) - Cardinality(Freed(S))
  <1>1. Freed(S) \in SUBSET Objs /\ Freed(S) \subseteq Live
    BY DEF Freed, PoolInv
  <1>2. /\ pool' \in Seq(Objs)
        /\ \A i, j \in DOMAIN pool' : pool'[i] = pool'[j] => i = j
        /\ Live' = Live \ Freed(S)
        /\ Cardinality(Freed(S)) \in Nat /\ Cardinality(Live) \in Nat
        /\ Cardinality(Live') = Cardinality(Live) - Cardinality(Freed(S))
    BY <1>1, PoolReleased
  <1>3. ASSUME NEW o \in Objs
        PROVE  o \in Live' <=> req'[o].refcount # 0
    <2>1. CASE o \in S
      <3>1. req[o].refcount \in Nat \ {0} /\ req'[o].refcount = req[o].refcount - 1
        BY <2>1 DEF TypeOK, Npreq
      <3>2. o \in Freed(S) <=> req'[o].refcount = 0
        BY <2>1, <3>1 DEF Freed
      <3>3. o \in Live
        BY <2>1 DEF PoolInv
      <3> QED
        BY <1>2, <3>2, <3>3
    <2>2. CASE o \notin S
      <3>1. o \notin Freed(S)
        BY <2>2 DEF Freed
      <3> QED
        BY <1>2, <2>2, <3>1 DEF PoolInv
    <2> QED
      BY <2>1, <2>2
  <1> QED
    BY <1>1, <1>2, <1>3 DEF PoolInv

LEMMA ThreadsFinite ==
    ASSUME NpSrvAssumption
    PROVE  IsFiniteSet(Threads)
  <1>1. IsFiniteSet({Service} \cup {Reader})
    BY FS_Singleton, FS_Union
  <1>2. IsFiniteSet(Workers \cup ({Service} \cup {Reader}))
    BY <1>1, FS_Union DEF NpSrvAssumption
  <1>3. Threads = Workers \cup ({Service} \cup {Reader})
    BY DEF Threads
  <1> QED
    BY <1>2, <1>3

LEMMA HeldByFinite ==
    ASSUME NpSrvAssumption, NEW o
    PROVE  IsFiniteSet(HeldBy(o)) /\ Cardinality(HeldBy(o)) \in Nat
           /\ (Cardinality(HeldBy(o)) = 0 <=> HeldBy(o) = {})
  <1>1. IsFiniteSet(Threads)
    BY ThreadsFinite
  <1> QED
    BY <1>1, FS_Subset, FS_CardinalityType, FS_EmptySet DEF HeldBy

LEMMA HoldingFacts ==
    ASSUME NpSrvAssumption, NEW o
    PROVE  /\ Holding(o) \in Nat
           /\ o \in Pending \cup Final => Holding(o) >= 1
           /\ HeldBy(o) # {} => Holding(o) >= 1
           /\ (o \in Pending \cup Final /\ HeldBy(o) # {}) => Holding(o) >= 2
           /\ Holding(o) # 0 => o \in Pending \cup Final \/ HeldBy(o) # {}
  BY HeldByFinite DEF Holding

LEMMA HoldingFactsNext ==
    ASSUME NpSrvAssumption, NEW o
    PROVE  /\ Holding(o)' \in Nat
           /\ o \in (Pending \cup Final)' => Holding(o)' >= 1
           /\ HeldBy(o)' # {} => Holding(o)' >= 1
           /\ Holding(o)' # 0 => o \in (Pending \cup Final)' \/ HeldBy(o)' # {}
  <1>1. IsFiniteSet(Threads)
    BY ThreadsFinite
  <1>2. IsFiniteSet(HeldBy(o)')
    BY <1>1, FS_Subset DEF HeldBy
  <1>3. Cardinality(HeldBy(o)') \in Nat /\ (Cardinality(HeldBy(o)') = 0 <=> HeldBy(o)' = {})
    BY <1>2, FS_CardinalityType, FS_EmptySet
  <1> QED
    BY <1>3 DEF Holding

\* A thread that is left alone, or only woken.
Still(v) ==
    /\ thr'[v].req = thr[v].req /\ thr'[v].cur = thr[v].cur /\ thr'[v].held = thr[v].held
    /\ thr'[v].pc = thr[v].pc \/ (thr[v].pc = "sleep" /\ thr'[v].pc = "check")

LEMMA HeldSame ==
    ASSUME NpSrvAssumption, NEW o, \A v \in Threads : thr'[v].held = thr[v].held
    PROVE  HeldBy(o)' = HeldBy(o)
  BY DEF HeldBy

\* One thread gives back what it held.
LEMMA HeldLess ==
    ASSUME NpSrvAssumption, NEW o, NEW w \in Threads, thr'[w].held = {},
           \A v \in Threads \ {w} : thr'[v].held = thr[v].held
    PROVE  Cardinality(HeldBy(o)') =
              Cardinality(HeldBy(o)) - (IF o \in thr[w].held THEN 1 ELSE 0)
  <1>1. HeldBy(o)' = HeldBy(o) \ {w}
    BY DEF HeldBy
  <1>2. w \in HeldBy(o) <=> o \in thr[w].held
    BY DEF HeldBy
  <1>3. PICK H : H = HeldBy(o)
    OBVIOUS
  <1>4. IsFiniteSet(H)
    BY <1>3, HeldByFinite
  <1>5. Cardinality(H \ {w}) = IF w \in H THEN Cardinality(H) - 1 ELSE Cardinality(H)
    BY <1>4, FS_RemoveElement
  <1> QED
    BY <1>1, <1>2, <1>3, <1>5, HeldByFinite

\* One thread, that held nothing, takes references.
LEMMA HeldMore ==
    ASSUME NpSrvAssumption, NEW o, NEW w \in Threads, thr[w].held = {},
           \A v \in Threads \ {w} : thr'[v].held = thr[v].held
    PROVE  Cardinality(HeldBy(o)') =
              Cardinality(HeldBy(o)) + (IF o \in thr'[w].held THEN 1 ELSE 0)
  <1>1. HeldBy(o)' = IF o \in thr'[w].held THEN HeldBy(o) \cup {w} ELSE HeldBy(o)
    BY DEF HeldBy
  <1>2. w \notin HeldBy(o)
    BY DEF HeldBy
  <1>3. PICK H : H = HeldBy(o)
    OBVIOUS
  <1>4. IsFiniteSet(H)
    BY <1>3, HeldByFinite
  <1>5. Cardinality(H \cup {w}) = IF w \in H THEN Cardinality(H) ELSE Cardinality(H) + 1
    BY <1>4, FS_AddElement
  <1> QED
    BY <1>1, <1>2, <1>3, <1>5, HeldByFinite

\* A request that is waited for or held is not in the pool.
LEMMA Counted ==
    ASSUME NpSrvAssumption, TypeOK, CountInv, PoolInv, NEW o \in Objs
    PROVE  /\ o \in Pending \cup Final => req[o].refcount # 0 /\ o \in Live
           /\ HeldBy(o) # {} => req[o].refcount # 0 /\ o \in Live
           /\ o \in Live => o \in Pending \cup Final \/ HeldBy(o) # {}
  <1>1. req[o].refcount = Holding(o)
    BY DEF CountInv
  <1>2. o \in Live <=> req[o].refcount # 0
    BY DEF PoolInv
  <1> QED
    BY <1>1, <1>2, HoldingFacts

\* A step that takes a reference to each of S away, and has one more to each of N.
Refcounted(S, N) ==
    /\ req' = [o \in Objs |-> IF o \in S THEN np_req_unref(o)
                              ELSE IF o \in N THEN np_req_ref(o) ELSE req[o]]
    /\ pool' = SetToSeq(Freed(S)) \o pool

LEMMA RefFields ==
    ASSUME TypeOK, NEW o \in Objs
    PROVE  /\ np_req_ref(o) \in Npreq /\ np_req_ref(o).refcount = req[o].refcount + 1
           /\ np_req_ref(o).type = req[o].type /\ np_req_ref(o).tag = req[o].tag
           /\ np_req_ref(o).oldtag = req[o].oldtag /\ np_req_ref(o).flushreq = req[o].flushreq
           /\ np_req_ref(o).answers = req[o].answers
  <1>1. PICK x \in Npreq : x = req[o]
    BY DEF TypeOK
  <1>2. PICK y : y = np_req_ref(o)
    OBVIOUS
  <1>3. PICK n \in Nat : n = x.refcount + 1
    BY DEF Npreq
  <1>4. y = [x EXCEPT !.refcount = n]
    BY <1>1, <1>2, <1>3 DEF np_req_ref
  <1>5. y \in Npreq /\ y.refcount = n /\ y.type = x.type /\ y.tag = x.tag
        /\ y.oldtag = x.oldtag /\ y.flushreq = x.flushreq /\ y.answers = x.answers
    BY <1>4 DEF Npreq
  <1> QED
    BY <1>1, <1>2, <1>3, <1>5

LEMMA RefStep ==
    ASSUME NpSrvAssumption, TypeOK, PoolInv, NEW S \in SUBSET Objs, NEW N \in SUBSET Objs,
           S \cap N = {}, \A o \in S \cup N : req[o].refcount # 0, Refcounted(S, N)
    PROVE  /\ req' \in [Objs -> Npreq] /\ Links' = Links
           /\ \A o \in Objs : req'[o].refcount = req[o].refcount - (IF o \in S THEN 1 ELSE 0)
                                                  + (IF o \in N THEN 1 ELSE 0)
           /\ \A o \in Objs : req'[o].answers = req[o].answers
           /\ \A o \in Objs : req'[o].refcount # 0 =>
                 /\ req'[o].type = req[o].type /\ req'[o].tag = req[o].tag
                 /\ req'[o].oldtag = req[o].oldtag
           /\ PoolInv' /\ pool' \in Seq(Objs)
           /\ Live' = Live \ Freed(S) /\ Freed(S) \subseteq Live
           /\ Cardinality(Freed(S)) \in Nat /\ Cardinality(Live) \in Nat
           /\ Cardinality(Live') = Cardinality(Live) - Cardinality(Freed(S))
  <1>1. \A o \in Objs : req[o] \in Npreq /\ req[o].refcount \in Nat
    BY DEF TypeOK, Npreq
  <1>2. ASSUME NEW o \in Objs
        PROVE  /\ req'[o] \in Npreq /\ req'[o].flushreq = req[o].flushreq
               /\ req'[o].refcount = req[o].refcount - (IF o \in S THEN 1 ELSE 0)
                                     + (IF o \in N THEN 1 ELSE 0)
               /\ req'[o].answers = req[o].answers
               /\ req'[o].refcount # 0 => /\ req'[o].type = req[o].type
                                          /\ req'[o].tag = req[o].tag
                                          /\ req'[o].oldtag = req[o].oldtag
    <2>1. CASE o \in S
      <3>1. req'[o] = np_req_unref(o) /\ o \notin N
        BY <2>1 DEF Refcounted
      <3> QED
        BY <1>1, <2>1, <3>1, UnrefFields
    <2>2. CASE o \in N
      <3>1. req'[o] = np_req_ref(o) /\ o \notin S
        BY <2>2 DEF Refcounted
      <3> QED
        BY <1>1, <2>2, <3>1, RefFields
    <2>3. CASE o \notin S /\ o \notin N
      <3>1. req'[o] = req[o]
        BY <2>3 DEF Refcounted
      <3> QED
        BY <1>1, <2>3, <3>1
    <2> QED
      BY <2>1, <2>2, <2>3
  <1>3. req' \in [Objs -> Npreq]
    BY <1>2 DEF Refcounted
  <1>4. Links' = Links
    BY <1>2 DEF Links
  <1>5. ASSUME NEW o \in S
        PROVE  req'[o].refcount = req[o].refcount - 1
    <2>1. o \in Objs /\ o \notin N
      OBVIOUS
    <2>2. PICK a \in Nat : a = req[o].refcount
      BY <1>1, <2>1
    <2>3. req'[o].refcount = a - 1 + 0
      BY <1>2, <2>1, <2>2
    <2> QED
      BY <2>2, <2>3
  <1>6. ASSUME NEW o \in Objs \ S
        PROVE  req'[o].refcount = 0 <=> req[o].refcount = 0
    <2>1. PICK a \in Nat : a = req[o].refcount
      BY <1>1
    <2>2. CASE o \in N
      <3>1. req'[o].refcount = a - 0 + 1 /\ a # 0
        BY <1>2, <2>1, <2>2
      <3> QED
        BY <2>1, <3>1
    <2>3. CASE o \notin N
      <3>1. req'[o].refcount = a - 0 + 0
        BY <1>2, <2>1, <2>3
      <3> QED
        BY <2>1, <3>1
    <2> QED
      BY <2>2, <2>3
  <1>7. pool' = SetToSeq(Freed(S)) \o pool
    BY DEF Refcounted
  <1> QED
    BY <1>2, <1>3, <1>4, <1>5, <1>6, <1>7, RefsReleased

\* No reference changes hands.
LEMMA NothingReleased ==
    ASSUME TypeOK, req' = req, pool' = pool
    PROVE  Refcounted({}, {})
  <1>1. Freed({}) = {}
    BY DEF Freed
  <1>2. SetToSeq({}) = <<>>
    BY SetSeq, FS_EmptySet
  <1>3. pool \in Seq(Objs)
    BY DEF TypeOK
  <1>4. <<>> \o pool = pool
    BY <1>3
  <1>5. req = [o \in Objs |-> req[o]]
    BY DEF TypeOK
  <1> QED
    BY <1>1, <1>2, <1>4, <1>5 DEF Refcounted

-----------------------------------------------------------------------------
(* Steps after which the chains begin where they did, and are as they were. *)

LEMMA StartOfThread ==
    ASSUME NpSrvAssumption, NEW v \in Threads
    PROVE  /\ v \notin Objs /\ v \in Keys
           /\ Start(v) = IF thr[v].pc \in {"respond", "write"} THEN thr[v].cur
                         ELSE IF thr[v].pc = "next" THEN Links[thr[v].cur]
                         ELSE thr[v].req
           /\ Start(v)' = IF thr'[v].pc \in {"respond", "write"} THEN thr'[v].cur
                          ELSE IF thr'[v].pc = "next" THEN Links'[thr'[v].cur]
                          ELSE thr'[v].req
           /\ Working(v) <=> ~Answers(v)
           /\ Working(v)' <=> ~Answers(v)'
  BY DEF NpSrvAssumption, Threads, Keys, Start, Working

LEMMA StartOfObj ==
    ASSUME NEW o \in Objs
    PROVE  /\ o \in Keys /\ Working(o) /\ Working(o)'
           /\ Start(o) = IF o \in kept THEN o ELSE NIL
           /\ Start(o)' = IF o \in kept' THEN o ELSE NIL
  BY DEF Keys, Start, Working

\* A thread that is left alone.
LEMMA StillFacts ==
    ASSUME NpSrvAssumption, NEW v \in Threads, Still(v), TypeOK, Links' = Links
    PROVE  /\ Answers(v)' <=> Answers(v)
           /\ Start(v)' = Start(v)
           /\ Answers(v) => thr'[v].pc = thr[v].pc
  BY StartOfThread DEF Still, Answers

LEMMA StillOK ==
    ASSUME NEW v \in Threads, Still(v), ThreadOK(v)
    PROVE  ThreadOK(v)'
  <1>1. CASE thr'[v].pc = thr[v].pc
    BY <1>1 DEF Still, ThreadOK
  <1>2. CASE thr[v].pc = "sleep" /\ thr'[v].pc = "check"
    BY <1>2 DEF Still, ThreadOK, Resets
  <1> QED
    BY <1>1, <1>2 DEF Still

\* Does thread v answer what it did, from where it did?
SameAnswers(v) ==
    /\ Answers(v)' <=> Answers(v)
    /\ Start(v)' = Start(v)
    /\ Answers(v) =>
          /\ thr'[v].req = thr[v].req /\ thr'[v].cur \in Objs
          /\ \/ thr'[v].cur = thr[v].cur /\ (thr'[v].pc = "next" <=> thr[v].pc = "next")
             \/ thr[v].pc = "next" /\ thr'[v].pc # "next"

Quiet ==
    /\ Links' = Links /\ kept' = kept /\ work' = work
    /\ \A v \in Threads : SameAnswers(v)

LEMMA QuietChains ==
    ASSUME NpSrvAssumption, TypeOK, ChainInv, Quiet
    PROVE  /\ ChainInv' /\ \A k \in Keys : Part(k)' = Part(k) /\ Start(k)' = Start(k)
           /\ Chained' = Chained /\ Final' = Final
  <1>1. ASSUME NEW k \in Keys
        PROVE  Start(k)' = Start(k) /\ (Working(k)' <=> Working(k))
    <2>1. CASE k \in Objs
      BY <2>1, StartOfObj DEF Quiet
    <2>2. CASE k \in Threads
      BY <2>2, StartOfThread DEF Quiet, SameAnswers
    <2> QED
      BY <2>1, <2>2 DEF Keys
  <1>2. \A k \in Keys : Part(k)' = Part(k)
    BY <1>1 DEF Quiet, Part
  <1>3. Chained' = Chained
    BY <1>2 DEF Chained
  <1>4. Final' = Final
    BY DEF Final, Quiet, SameAnswers
  <1>5. \A k \in Keys : Start(k)' \in Objs \cup {NIL}
    BY <1>1 DEF ChainInv
  <1>6. \A j, k \in Keys : j # k => Part(j)' \cap Part(k)' = {}
    BY <1>2 DEF ChainInv
  <1>7. \A k \in Keys : /\ Working(k)' => Part(k)' \subseteq work'
                        /\ ~Working(k)' => Part(k)' \cap work' = {}
    BY <1>1, <1>2 DEF ChainInv, Quiet
  <1>8. \A x \in Chained' : x \notin ChainOf(Links', Links'[x])
    BY <1>3 DEF ChainInv, Quiet
  <1>9. ChainInv'
    BY <1>5, <1>6, <1>7, <1>8 DEF ChainInv
  <1> QED
    BY <1>1, <1>2, <1>3, <1>4, <1>9

\* What is pending is as it was, when requests of the queue are dropped.
LEMMA QuietAnswers ==
    ASSUME NpSrvAssumption, TypeOK, ChainInv, Quiet, AnsweredInv, Queued' \subseteq Queued
    PROVE  AnsweredInv' /\ Pending' \subseteq Pending
  <1>1. /\ \A k \in Keys : Part(k)' = Part(k) /\ Start(k)' = Start(k)
        /\ Chained' = Chained
    BY QuietChains
  <1>3. Pending' \subseteq Pending
    BY <1>1 DEF Pending, Quiet
  <1>4. ASSUME NEW v \in Threads, Answers(v)'
        PROVE  AnsweredOK(v)'
    <2>1. SameAnswers(v) /\ Answers(v) /\ AnsweredOK(v)
      BY <1>4 DEF Quiet, SameAnswers, AnsweredInv
    <2>2. thr'[v].req = thr[v].req /\ thr'[v].req \in Objs /\ thr'[v].cur \in Objs
          /\ thr'[v].req \notin Queued' \cup work'
      BY <2>1 DEF SameAnswers, AnsweredOK, Quiet
    <2>3. ASSUME NEW k \in Keys, thr'[v].req \in Part(k)'
          PROVE  k = v /\ thr'[v].cur = thr'[v].req /\ thr'[v].pc # "next"
      <3>1. k = v /\ thr[v].cur = thr[v].req /\ thr[v].pc # "next"
        BY <1>1, <2>1, <2>2, <2>3 DEF AnsweredOK
      <3> QED
        BY <2>1, <2>2, <3>1 DEF SameAnswers
    <2>4. ASSUME NEW u \in Threads, Answers(u)', thr'[u].req = thr'[v].req
          PROVE  u = v
      <3>1. Answers(u) /\ thr'[u].req = thr[u].req
        BY <2>4 DEF Quiet, SameAnswers
      <3> QED
        BY <2>1, <2>2, <2>4, <3>1 DEF AnsweredOK
    <2>5. ASSUME thr'[v].pc = "next"
          PROVE  thr'[v].cur \notin Pending'
      BY <1>3, <2>1, <2>5 DEF SameAnswers, AnsweredOK
    <2> QED
      BY <2>2, <2>3, <2>4, <2>5 DEF AnsweredOK
  <1> QED
    BY <1>3, <1>4 DEF AnsweredInv

Bit(b) == IF b THEN 1 ELSE 0

\* What the connection counts besides its requests.
Users == Bit(conn.listed) + Bit(thr[Reader].pc # "gone")

\* References are taken from the requests of S, and those of N have one more: the holders
\* are as many.
Exchange(S, N) ==
    /\ S \in SUBSET Objs /\ N \in SUBSET Objs /\ S \cap N = {}
    /\ \A o \in S \cup N : req[o].refcount # 0
    /\ Refcounted(S, N)
    /\ \A o \in Objs : Cardinality(HeldBy(o)')
                         + Bit(o \in Queued' \cup work \cup Chained \cup Final)
                       = Holding(o) - Bit(o \in S) + Bit(o \in N)

\* The queue may have lost requests.
QueueLess ==
    /\ reqs' \in Seq(Objs) /\ \A i, j \in DOMAIN reqs' : reqs'[i] = reqs'[j] => i = j
    /\ Queued' \subseteq Queued /\ \A v \in Threads : thr'[v].held \cap Queued = {}

ThreadsGoOn ==
    /\ thr' \in [Threads -> Thread]
    /\ \A v \in Threads : SameAnswers(v) /\ (Still(v) \/ ThreadOK(v)')

LEMMA QuietStep ==
    ASSUME NpSrvAssumption, IInv, NEW S, NEW N, Exchange(S, N), QueueLess, ThreadsGoOn,
           kept' = kept, work' = work,
           srv' \in {"running", "crashed", "locked"},
           open' \in [Tags -> {"free", "io", "flush", "flushed"}],
           NEW n, n = conn.refcount - Cardinality(Freed(S)) + Users' - Users,
           conn' = [trans |-> conn'.trans, resetting |-> conn'.resetting,
                    listed |-> conn'.listed, refcount |-> n],
           conn'.trans \in BOOLEAN, conn'.resetting \in BOOLEAN, conn'.listed \in BOOLEAN,
           ListedInv'
    PROVE  IInv'
  <1>0. /\ S \in SUBSET Objs /\ N \in SUBSET Objs /\ S \cap N = {}
        /\ \A o \in S \cup N : req[o].refcount # 0
        /\ Refcounted(S, N)
    BY DEF Exchange
  <1>1. TypeOK /\ ChainInv /\ QueueInv /\ AnsweredInv /\ ThreadInv
        /\ CountInv /\ PoolInv /\ AnswerInv /\ ListedInv /\ ConnRefs
    BY DEF IInv
  <1>2. /\ req' \in [Objs -> Npreq] /\ Links' = Links
        /\ \A o \in Objs : req'[o].refcount = req[o].refcount - (IF o \in S THEN 1 ELSE 0)
                                               + (IF o \in N THEN 1 ELSE 0)
        /\ \A o \in Objs : req'[o].answers = req[o].answers
        /\ \A o \in Objs : req'[o].refcount # 0 =>
              /\ req'[o].type = req[o].type /\ req'[o].tag = req[o].tag
              /\ req'[o].oldtag = req[o].oldtag
        /\ PoolInv' /\ pool' \in Seq(Objs)
        /\ Live' = Live \ Freed(S) /\ Freed(S) \subseteq Live
        /\ Cardinality(Freed(S)) \in Nat /\ Cardinality(Live) \in Nat
        /\ Cardinality(Live') = Cardinality(Live) - Cardinality(Freed(S))
    BY <1>0, <1>1, RefStep
  <1>3. Quiet
    BY <1>2 DEF Quiet, ThreadsGoOn
  <1>4. /\ ChainInv' /\ \A k \in Keys : Part(k)' = Part(k) /\ Start(k)' = Start(k)
        /\ Chained' = Chained /\ Final' = Final
    BY <1>1, <1>3, QuietChains
  <1>5. \A o \in Objs : Holding(o)' = Holding(o) - Bit(o \in S) + Bit(o \in N)
    BY <1>4 DEF Holding, Bit, Pending, Exchange
  <1>6. CountInv'
    BY <1>1, <1>2, <1>5 DEF CountInv, Bit
  <1>7. \A o \in Objs : o \in Pending' \cup Final' => req'[o].refcount # 0
    BY <1>6, HoldingFactsNext DEF CountInv
  <1>10. AnsweredInv' /\ Pending' \subseteq Pending
    BY <1>1, <1>3, QuietAnswers DEF QueueLess
  <1>11. QueueInv'
    <2>1. Queued' \cap (work' \cup Chained') = {}
      BY <1>1, <1>4 DEF QueueInv, QueueLess
    <2>2. \A x \in Queued' : Links'[x] = NIL
      BY <1>1, <1>2 DEF QueueInv, QueueLess
    <2>3. \A v \in Threads : thr'[v].held \cap Queued' = {}
      BY DEF QueueLess
    <2> QED
      BY <2>1, <2>2, <2>3 DEF QueueInv, QueueLess
  <1>13. AnswerInv'
    <2>1. ASSUME NEW o \in Live', o \in Pending
          PROVE  o \in Pending'
      <3>1. o \in Objs
        BY <2>1 DEF Live
      <3>2. req'[o].refcount # 0
        BY <1>2, <2>1, <3>1 DEF PoolInv
      <3>3. SUFFICES ASSUME o \in Queued, o \notin Pending'
                     PROVE  FALSE
        BY <1>4, <2>1 DEF Pending
      <3>4. HeldBy(o)' = {}
        BY <3>3 DEF HeldBy, QueueLess
      <3>5. o \notin Final
        BY <1>1, <3>3 DEF Final, AnsweredInv, AnsweredOK
      <3>6. Holding(o)' = 0
        BY <1>4, <3>1, <3>3, <3>4, <3>5, HoldingFactsNext
      <3> QED
        BY <1>6, <3>1, <3>2, <3>6 DEF CountInv
    <2>2. \A o \in Live' : o \in Live /\ o \in Objs
      BY <1>2 DEF Live
    <2> QED
      BY <1>1, <1>2, <1>10, <2>1, <2>2 DEF AnswerInv
  <1>14. ThreadInv'
    <2>1. ASSUME NEW v \in Threads, Still(v)
          PROVE  ThreadOK(v)'
      <3>1. ThreadOK(v)
        BY <1>1 DEF ThreadInv
      <3> QED
        BY <2>1, <3>1, StillOK
    <2> QED
      BY <2>1 DEF ThreadInv, ThreadsGoOn
  <1>15. ConnRefs' /\ n \in Nat /\ conn'.refcount = n
    <2>1. conn'.refcount = n
      <3>1. PICK c : c = conn'
        OBVIOUS
      <3>2. c.refcount = n
        BY <3>1
      <3> QED
        BY <3>1, <3>2
    <2>2. Users \in Nat /\ Users' \in Nat
      BY DEF Users, Bit
    <2>3. conn.refcount = Cardinality(Live) + Users
      <3>1. PICK c \in Nat : c = Cardinality(Live)
        BY <1>2
      <3>2. conn.refcount = c + Bit(conn.listed) + (IF thr[Reader].pc = "gone" THEN 0 ELSE 1)
        BY <1>1, <3>1 DEF ConnRefs, Bit
      <3>3. (IF thr[Reader].pc = "gone" THEN 0 ELSE 1) = Bit(thr[Reader].pc # "gone")
        BY DEF Bit
      <3>4. conn.refcount = c + Bit(conn.listed) + Bit(thr[Reader].pc # "gone")
        BY <3>2, <3>3
      <3>5. Bit(conn.listed) \in Nat /\ Bit(thr[Reader].pc # "gone") \in Nat
        BY DEF Bit
      <3> QED
        BY <3>1, <3>4, <3>5 DEF Users
    <2>4. n = Cardinality(Live') + Users'
      BY <1>2, <2>2, <2>3
    <2>5. Cardinality(Live') \in Nat
      BY FS_CardinalityType, FS_Subset DEF Live, NpSrvAssumption
    <2>6. n \in Nat
      BY <2>2, <2>4, <2>5
    <2> QED
      BY <2>1, <2>4, <2>5, <2>6 DEF ConnRefs, Users, Bit
  <1>16. TypeOK'
    <2>1. conn' \in Npconn
      BY <1>15 DEF Npconn
    <2> QED
      BY <1>1, <1>2, <2>1 DEF TypeOK, QueueLess, ThreadsGoOn
  <1> QED
    BY <1>2, <1>4, <1>6, <1>10, <1>11, <1>13, <1>14, <1>15, <1>16 DEF IInv

LEMMA ConnRecord ==
    ASSUME TypeOK
    PROVE  \E a, b, c \in BOOLEAN, n \in Nat :
               conn = [trans |-> a, resetting |-> b, listed |-> c, refcount |-> n]
  BY DEF TypeOK, Npconn

\* References change hands in no step that leaves the holders alone.
LEMMA HoldersSame ==
    ASSUME NpSrvAssumption, IInv, \A v \in Threads : thr'[v].held = thr[v].held
    PROVE  /\ \A v \in Threads : thr'[v].held \cap Queued = {}
           /\ \A o \in Objs : Cardinality(HeldBy(o)')
                                + Bit(o \in Queued \cup work \cup Chained \cup Final)
                              = Holding(o) - Bit(o \in {}) + Bit(o \in {})
  <1>1. \A v \in Threads : thr'[v].held \cap Queued = {}
    BY DEF IInv, QueueInv
  <1>2. ASSUME NEW o \in Objs
        PROVE  Cardinality(HeldBy(o)') + Bit(o \in Queued \cup work \cup Chained \cup Final)
                              = Holding(o) - Bit(o \in {}) + Bit(o \in {})
    <2>1. Cardinality(HeldBy(o)') = Cardinality(HeldBy(o))
      BY HeldSame
    <2>2. Holding(o) = Cardinality(HeldBy(o)) + Bit(o \in Queued \cup work \cup Chained \cup Final)
      BY DEF Holding, Pending, Bit
    <2>3. Holding(o) \in Nat
      BY HoldingFacts
    <2> QED
      BY <2>1, <2>2, <2>3 DEF Bit
  <1> QED
    BY <1>1, <1>2

\* A step of threads, and of the connection.
LEMMA CalmStep ==
    ASSUME NpSrvAssumption, IInv, UNCHANGED <<req, pool, reqs, work, kept>>,
           \A v \in Threads : SameAnswers(v) /\ thr'[v].held = thr[v].held,
           \A v \in Threads : Still(v) \/ ThreadOK(v)',
           srv' \in {"running", "crashed", "locked"}, open' = open,
           thr' \in [Threads -> Thread],
           NEW n, n = conn.refcount + Users' - Users,
           conn' = [trans |-> conn'.trans, resetting |-> conn'.resetting,
                    listed |-> conn'.listed, refcount |-> n],
           conn'.trans \in BOOLEAN, conn'.resetting \in BOOLEAN, conn'.listed \in BOOLEAN,
           ListedInv'
    PROVE  IInv'
  <1>1. TypeOK /\ QueueInv
    BY DEF IInv
  <1>2. Refcounted({}, {})
    BY <1>1, NothingReleased
  <1>3. /\ \A v \in Threads : thr'[v].held \cap Queued = {}
        /\ \A o \in Objs : Cardinality(HeldBy(o)')
                             + Bit(o \in Queued \cup work \cup Chained \cup Final)
                           = Holding(o) - Bit(o \in {}) + Bit(o \in {})
    BY HoldersSame
  <1>4. Freed({}) = {} /\ Cardinality({}) = 0
    BY FS_EmptySet DEF Freed
  <1>5. reqs' = reqs /\ Queued' = Queued /\ reqs \in Seq(Objs)
        /\ \A i, j \in DOMAIN reqs : reqs[i] = reqs[j] => i = j
    BY <1>1 DEF Queued, TypeOK, QueueInv
  <1>6. n = conn.refcount - Cardinality(Freed({})) + Users' - Users
    <2>1. conn.refcount \in Nat
      BY <1>1 DEF TypeOK, Npconn
    <2>2. Users \in Nat /\ Users' \in Nat
      BY DEF Users, Bit
    <2>3. PICK c \in Nat, u \in Nat, v \in Nat : c = conn.refcount /\ u = Users /\ v = Users'
      BY <2>1, <2>2
    <2>4. n = c + v - u
      BY <2>3
    <2>5. c + v - u = c - 0 + v - u
      BY <2>3
    <2>6. Cardinality(Freed({})) = 0
      BY <1>4
    <2> QED
      BY <2>3, <2>4, <2>5, <2>6
  <1>7. open' \in [Tags -> {"free", "io", "flush", "flushed"}]
    BY <1>1 DEF TypeOK
  <1>8. Exchange({}, {}) /\ QueueLess /\ ThreadsGoOn
    BY <1>2, <1>3, <1>5 DEF Exchange, QueueLess, ThreadsGoOn
  <1> QED
    BY <1>6, <1>7, <1>8, QuietStep

\* Thread w goes on from one step that is not of np_respond to another.
LEMMA PcMoves ==
    ASSUME NpSrvAssumption, IInv, NEW w \in Threads, NEW pc, Step(w, pc), Links' = Links,
           thr[w].pc \notin {"respond", "write", "next"},
           pc \in {"process", "remove", "unlist", "reset", "collect", "check", "sleep", "finish"}
    PROVE  /\ \A v \in Threads : SameAnswers(v) /\ thr'[v].held = thr[v].held
           /\ \A v \in Threads \ {w} : Still(v)
           /\ thr' \in [Threads -> Thread]
           /\ thr'[w].pc = pc /\ thr'[w].req = thr[w].req /\ thr'[w].held = thr[w].held
  <1>1. TypeOK /\ AnsweredInv
    BY DEF IInv
  <1>2. thr \in [Threads -> Thread] /\ thr' = [thr EXCEPT ![w].pc = pc]
    BY <1>1 DEF TypeOK, Step
  <1>3. PICK x \in Thread : x = thr[w]
    BY <1>2
  <1>4. PICK y : y = [x EXCEPT !.pc = pc]
    OBVIOUS
  <1>5. y \in Thread /\ y.pc = pc /\ y.req = x.req /\ y.held = x.held /\ y.cur = x.cur
    BY <1>4 DEF Thread
  <1>6. thr'[w] = y /\ \A v \in Threads \ {w} : thr'[v] = thr[v]
    BY <1>2, <1>3, <1>4
  <1>7. thr' \in [Threads -> Thread]
    BY <1>2, <1>5, <1>6
  <1>8. \A v \in Threads \ {w} : Still(v)
    BY <1>6 DEF Still
  <1>9. ASSUME NEW v \in Threads \ {w}
        PROVE  SameAnswers(v)
    <2>1. thr'[v] = thr[v]
      BY <1>6
    <2>2. (Answers(v)' <=> Answers(v)) /\ Start(v)' = Start(v)
      BY <1>1, <1>8, StillFacts
    <2>3. Answers(v) => thr[v].cur \in Objs
      BY <1>1 DEF AnsweredInv, AnsweredOK
    <2> QED
      BY <2>1, <2>2, <2>3 DEF SameAnswers
  <1>10. SameAnswers(w)
    <2>1. ~Answers(w) /\ ~Answers(w)'
      BY <1>5, <1>6 DEF Answers
    <2>2. Start(w) = thr[w].req /\ Start(w)' = thr'[w].req
      BY <1>5, <1>6, StartOfThread
    <2> QED
      BY <1>3, <1>5, <1>6, <2>1, <2>2 DEF SameAnswers
  <1> QED
    BY <1>3, <1>5, <1>6, <1>7, <1>8, <1>9, <1>10

\* A thread that goes on with the same request; the connection may be put in reset.
LEMMA PcStep ==
    ASSUME NpSrvAssumption, IInv, NEW w \in Threads, NEW pc, Step(w, pc),
           UNCHANGED <<req, pool, reqs, work, kept, open>>, srv' = srv,
           NEW r \in BOOLEAN, conn' = [conn EXCEPT !.resetting = r],
           thr[w].pc \notin {"respond", "write", "next"},
           pc \in {"remove"} \cup Resets,
           w = Reader => pc \in Resets /\ thr[w].pc \in Resets,
           w # Reader => thr[w].req \in Objs,
           pc \in {"remove", "reset", "collect"} => thr[w].held = {}
    PROVE  IInv'
  <1>1. TypeOK /\ ThreadInv /\ ListedInv /\ Links' = Links
    BY DEF IInv, Links
  <1>2. /\ \A v \in Threads : SameAnswers(v) /\ thr'[v].held = thr[v].held
        /\ \A v \in Threads \ {w} : Still(v)
        /\ thr' \in [Threads -> Thread]
        /\ thr'[w].pc = pc /\ thr'[w].req = thr[w].req /\ thr'[w].held = thr[w].held
    <2>1. pc \in {"process", "remove", "unlist", "reset", "collect", "check", "sleep", "finish"}
      BY DEF Resets
    <2> QED
      BY <1>1, <2>1, PcMoves
  <1>3. ThreadOK(w)'
    <2>1. ThreadOK(w)
      BY <1>1 DEF ThreadInv
    <2> QED
      BY <1>2, <2>1 DEF ThreadOK, Resets
  <1>4. PICK a, b, c \in BOOLEAN, n \in Nat :
            conn = [trans |-> a, resetting |-> b, listed |-> c, refcount |-> n]
    BY <1>1, ConnRecord
  <1>5. conn' = [trans |-> a, resetting |-> r, listed |-> c, refcount |-> n]
    BY <1>4
  <1>6. conn'.trans = a /\ conn'.resetting = r /\ conn'.listed = c /\ conn.listed = c
        /\ conn.refcount = n
    BY <1>4, <1>5
  <1>7. Reader \in Threads
    BY DEF Threads
  <1>8. /\ thr'[Reader].pc \in {"idle", "unlist"} <=> thr[Reader].pc \in {"idle", "unlist"}
        /\ thr'[Reader].pc # "gone" <=> thr[Reader].pc # "gone"
    <2>1. CASE w = Reader
      BY <1>2, <2>1 DEF Resets
    <2>2. CASE w # Reader
      BY <1>2, <1>7, <2>2 DEF Still
    <2> QED
      BY <2>1, <2>2
  <1>9. ListedInv'
    BY <1>1, <1>6, <1>8 DEF ListedInv
  <1>10. Users' = Users
    BY <1>6, <1>8 DEF Users, Bit
  <1>11. Users \in Nat
    BY DEF Users, Bit
  <1>12. n = conn.refcount + Users' - Users
    BY <1>6, <1>10, <1>11
  <1>13. \A v \in Threads : Still(v) \/ ThreadOK(v)'
    BY <1>2, <1>3
  <1>14. srv' \in {"running", "crashed", "locked"}
    BY <1>1 DEF TypeOK
  <1> QED
    BY <1>2, <1>5, <1>6, <1>9, <1>12, <1>13, <1>14, CalmStep

LEMMA ConnSame ==
    ASSUME TypeOK, conn' = conn
    PROVE  conn.resetting \in BOOLEAN /\ conn' = [conn EXCEPT !.resetting = conn.resetting]
  <1>1. PICK a, b, c \in BOOLEAN, n \in Nat :
            conn = [trans |-> a, resetting |-> b, listed |-> c, refcount |-> n]
    BY ConnRecord
  <1>2. conn.resetting = b
    BY <1>1
  <1> QED
    BY <1>1, <1>2

\* The threads stop where they are.
LEMMA Stops ==
    ASSUME NpSrvAssumption, IInv, UNCHANGED <<req, pool, reqs, work, kept, conn, thr, open>>,
           srv' \in {"running", "crashed", "locked"}
    PROVE  IInv'
  <1>1. TypeOK' /\ Links' = Links
    BY DEF IInv, TypeOK, Links
  <1>2. \A v \in Threads : Still(v)
    BY DEF Still
  <1>3. ASSUME NEW k \in Keys
        PROVE  Start(k)' = Start(k) /\ (Working(k)' <=> Working(k)) /\ Part(k)' = Part(k)
    BY <1>1 DEF Start, Working, Answers, Part
  <1>4. Chained' = Chained /\ Queued' = Queued /\ Pending' = Pending /\ Final' = Final
    BY <1>3 DEF Chained, Queued, Pending, Final, Answers
  <1>5. ChainInv' /\ QueueInv'
    BY <1>1, <1>3, <1>4 DEF IInv, ChainInv, QueueInv
  <1>6. AnsweredInv' /\ ThreadInv'
    BY <1>3, <1>4 DEF IInv, AnsweredInv, AnsweredOK, Answers, ThreadInv, ThreadOK
  <1>7. CountInv'
    <2>1. \A o \in Objs : HeldBy(o)' = HeldBy(o)
      BY DEF HeldBy
    <2> QED
      BY <1>4, <2>1 DEF IInv, CountInv, Holding
  <1>8. PoolInv' /\ AnswerInv' /\ Live' = Live
    BY <1>4 DEF IInv, PoolInv, AnswerInv, Live
  <1>9. ListedInv' /\ ConnRefs'
    BY <1>8 DEF IInv, ListedInv, ConnRefs
  <1> QED
    BY <1>1, <1>5, <1>6, <1>7, <1>8, <1>9 DEF IInv

-----------------------------------------------------------------------------
(* The steps after which the chains are as they were.                      *)

LEMMA ReaderIdle ==
    ASSUME NpSrvAssumption, IInv, thr[Reader].pc \in {"idle", "unlist"}, NEW pc \in {"unlist", "reset"},
           Step(Reader, pc), Links' = Links
    PROVE  /\ \A v \in Threads : SameAnswers(v) /\ thr'[v].held = thr[v].held
           /\ \A v \in Threads : Still(v) \/ ThreadOK(v)'
           /\ thr' \in [Threads -> Thread] /\ thr'[Reader].pc = pc
  <1>1. Reader \in Threads /\ ThreadOK(Reader)
    BY DEF Threads, IInv, ThreadInv
  <1>2. /\ \A v \in Threads : SameAnswers(v) /\ thr'[v].held = thr[v].held
        /\ \A v \in Threads \ {Reader} : Still(v)
        /\ thr' \in [Threads -> Thread]
        /\ thr'[Reader].pc = pc /\ thr'[Reader].req = thr[Reader].req
        /\ thr'[Reader].held = thr[Reader].held
    BY <1>1, PcMoves
  <1>3. ThreadOK(Reader)'
    BY <1>1, <1>2 DEF ThreadOK, Resets
  <1> QED
    BY <1>2, <1>3

LEMMA HangupStep ==
    ASSUME NpSrvAssumption, IInv, Hangup
    PROVE  IInv'
  <1>1. TypeOK /\ ListedInv /\ Links' = Links /\ thr[Reader].pc = "idle" /\ Step(Reader, "unlist")
    BY DEF IInv, Links, Hangup
  <1>2. /\ \A v \in Threads : SameAnswers(v) /\ thr'[v].held = thr[v].held
        /\ \A v \in Threads : Still(v) \/ ThreadOK(v)'
        /\ thr' \in [Threads -> Thread] /\ thr'[Reader].pc = "unlist"
    BY <1>1, ReaderIdle
  <1>3. PICK a, b, c \in BOOLEAN, n \in Nat :
            conn = [trans |-> a, resetting |-> b, listed |-> c, refcount |-> n]
    BY <1>1, ConnRecord
  <1>4. conn' = [trans |-> FALSE, resetting |-> b, listed |-> c, refcount |-> n]
    BY <1>3 DEF Hangup
  <1>5. conn'.trans = FALSE /\ conn'.resetting = b /\ conn'.listed = c /\ conn.listed = c
        /\ conn.refcount = n
    BY <1>3, <1>4
  <1>6. ListedInv' /\ Users' = Users
    BY <1>1, <1>2, <1>5 DEF ListedInv, Users, Bit
  <1>7. Users \in Nat
    BY DEF Users, Bit
  <1>8. n = conn.refcount + Users' - Users
    BY <1>5, <1>6, <1>7
  <1>9. UNCHANGED <<req, pool, reqs, work, kept, open>> /\ srv' \in {"running", "crashed", "locked"}
    BY <1>1 DEF Hangup, TypeOK
  <1> QED
    BY <1>2, <1>4, <1>5, <1>6, <1>8, <1>9, CalmStep

LEMMA RemoveConnStep ==
    ASSUME NpSrvAssumption, IInv, np_srv_remove_conn
    PROVE  IInv'
  <1>1. TypeOK /\ ListedInv /\ Links' = Links /\ thr[Reader].pc = "unlist" /\ Step(Reader, "reset")
        /\ ConnRefs
    BY DEF IInv, Links, np_srv_remove_conn
  <1>2. /\ \A v \in Threads : SameAnswers(v) /\ thr'[v].held = thr[v].held
        /\ \A v \in Threads : Still(v) \/ ThreadOK(v)'
        /\ thr' \in [Threads -> Thread] /\ thr'[Reader].pc = "reset"
    BY <1>1, ReaderIdle
  <1>3. PICK a, b, c \in BOOLEAN, n \in Nat :
            conn = [trans |-> a, resetting |-> b, listed |-> c, refcount |-> n]
    BY <1>1, ConnRecord
  <1>4. PICK m \in Int : m = n - 1
    BY <1>3
  <1>5. conn' = [trans |-> a, resetting |-> b, listed |-> FALSE, refcount |-> m]
    BY <1>3, <1>4 DEF np_srv_remove_conn
  <1>6. conn'.trans = a /\ conn'.resetting = b /\ conn'.listed = FALSE /\ conn.listed = c
        /\ conn.refcount = n
    BY <1>3, <1>5
  <1>7. c = TRUE
    BY <1>1, <1>3, <1>6 DEF ListedInv
  <1>8. ListedInv'
    BY <1>2, <1>6 DEF ListedInv
  <1>9. Users' = 1 /\ Users = 2
    BY <1>1, <1>2, <1>6, <1>7 DEF Users, Bit
  <1>10. m = conn.refcount + Users' - Users
    BY <1>4, <1>6, <1>9
  <1>11. UNCHANGED <<req, pool, reqs, work, kept, open>> /\ srv' \in {"running", "crashed", "locked"}
    BY <1>1 DEF np_srv_remove_conn, TypeOK
  <1> QED
    BY <1>2, <1>5, <1>6, <1>8, <1>10, <1>11, CalmStep

\* Thread w goes on with its answer, or to the next flush of the chain.
LEMMA AnswerGoesOn ==
    ASSUME NpSrvAssumption, IInv, NEW w \in Threads, NEW x, x \in Objs,
           \/ thr[w].pc = "respond" /\ x = thr[w].cur
           \/ thr[w].pc = "next" /\ x = Links[thr[w].cur],
           NEW pc \in {"respond", "write"}, NEW b \in BOOLEAN,
           thr' = [thr EXCEPT ![w].pc = pc, ![w].cur = x, ![w].send = b],
           UNCHANGED <<srv, req, pool, reqs, work, kept, conn, open>>
    PROVE  IInv'
  <1>1. TypeOK /\ AnsweredInv /\ ThreadInv /\ ListedInv /\ Links' = Links
    BY DEF IInv, Links
  <1>2. thr \in [Threads -> Thread] /\ Answers(w)
    BY <1>1 DEF TypeOK, Answers
  <1>3. PICK y \in Thread : y = thr[w]
    BY <1>2
  <1>4. PICK z : z = [y EXCEPT !.pc = pc, !.cur = x, !.send = b]
    OBVIOUS
  <1>5. z \in Thread /\ z.pc = pc /\ z.req = y.req /\ z.held = y.held /\ z.cur = x
    BY <1>4 DEF Thread
  <1>6. thr'[w] = z /\ \A v \in Threads \ {w} : thr'[v] = thr[v]
    BY <1>2, <1>3, <1>4
  <1>7. thr' \in [Threads -> Thread]
    BY <1>2, <1>5, <1>6
  <1>8. \A v \in Threads \ {w} : Still(v)
    BY <1>6 DEF Still
  <1>9. ASSUME NEW v \in Threads \ {w}
        PROVE  SameAnswers(v)
    <2>1. thr'[v] = thr[v]
      BY <1>6
    <2>2. (Answers(v)' <=> Answers(v)) /\ Start(v)' = Start(v)
      BY <1>1, <1>8, StillFacts
    <2>3. Answers(v) => thr[v].cur \in Objs
      BY <1>1 DEF AnsweredInv, AnsweredOK
    <2> QED
      BY <2>1, <2>2, <2>3 DEF SameAnswers
  <1>10. SameAnswers(w)
    <2>1. Answers(w)'
      BY <1>5, <1>6 DEF Answers
    <2>2. Start(w)' = x /\ Start(w) = x
      BY <1>5, <1>6, StartOfThread
    <2> QED
      BY <1>2, <1>3, <1>5, <1>6, <2>1, <2>2 DEF SameAnswers
  <1>11. ThreadOK(w)'
    <2>1. ThreadOK(w)
      BY <1>1 DEF ThreadInv
    <2> QED
      BY <1>3, <1>5, <1>6, <2>1 DEF ThreadOK, Resets
  <1>12. w # Reader
    BY <1>1 DEF ThreadInv, ThreadOK, Resets
  <1>13. thr'[Reader] = thr[Reader]
    BY <1>6, <1>12 DEF Threads
  <1>14. ListedInv' /\ Users' = Users /\ Users \in Nat
    BY <1>1, <1>13 DEF ListedInv, Users, Bit
  <1>15. PICK c, d, e \in BOOLEAN, n \in Nat :
            conn = [trans |-> c, resetting |-> d, listed |-> e, refcount |-> n]
    BY <1>1, ConnRecord
  <1>16. conn' = conn /\ conn.trans = c /\ conn.resetting = d /\ conn.listed = e /\ conn.refcount = n
    BY <1>15
  <1>17. n = conn.refcount + Users' - Users
    BY <1>14, <1>16
  <1>18. srv' \in {"running", "crashed", "locked"}
    BY <1>1 DEF TypeOK
  <1>19. \A v \in Threads : SameAnswers(v) /\ thr'[v].held = thr[v].held
    BY <1>3, <1>5, <1>6, <1>9, <1>10
  <1>20. \A v \in Threads : Still(v) \/ ThreadOK(v)'
    BY <1>8, <1>11
  <1> QED
    BY <1>7, <1>14, <1>15, <1>16, <1>17, <1>18, <1>19, <1>20, CalmStep

LEMMA ConnRespondStep ==
    ASSUME NpSrvAssumption, IInv, NEW w \in Threads, np_conn_respond(w)
    PROVE  IInv'
  <1>1. TypeOK /\ AnsweredInv /\ thr[w].pc = "respond"
    BY DEF IInv, np_conn_respond
  <1>2. thr[w].cur \in Objs
    BY <1>1 DEF AnsweredInv, AnsweredOK, Answers
  <1>3. PICK b \in BOOLEAN : b = (conn.trans /\ ~conn.resetting)
    OBVIOUS
  <1>4. thr \in [Threads -> Thread]
    BY <1>1 DEF TypeOK
  <1>5. thr' = [thr EXCEPT ![w].pc = "write", ![w].send = b]
    BY <1>3 DEF np_conn_respond
  <1>6. PICK x \in Thread : x = thr[w]
    BY <1>4
  <1>7. [x EXCEPT !.pc = "write", !.send = b] = [x EXCEPT !.pc = "write", !.cur = x.cur, !.send = b]
    BY DEF Thread
  <1>8. thr' = [thr EXCEPT ![w].pc = "write", ![w].cur = thr[w].cur, ![w].send = b]
    BY <1>4, <1>5, <1>6, <1>7
  <1>9. UNCHANGED <<srv, req, pool, reqs, work, kept, conn, open>>
    BY DEF np_conn_respond
  <1> QED
    BY <1>1, <1>2, <1>8, <1>9, AnswerGoesOn

LEMMA NextFlushStep ==
    ASSUME NpSrvAssumption, IInv, NEW w \in Threads, thr[w].pc = "next",
           NEW f, f = req[thr[w].cur].flushreq, f # NIL,
           thr' = [thr EXCEPT ![w].pc = "respond", ![w].cur = f],
           UNCHANGED <<srv, req, pool, reqs, work, kept, conn, open>>
    PROVE  IInv'
  <1>1. TypeOK /\ AnsweredInv
    BY DEF IInv
  <1>2. thr[w].cur \in Objs
    BY <1>1 DEF AnsweredInv, AnsweredOK, Answers
  <1>3. f = Links[thr[w].cur] /\ f \in Objs
    BY <1>1, <1>2, LinksType DEF Links, LinkTable
  <1>4. thr \in [Threads -> Thread]
    BY <1>1 DEF TypeOK
  <1>5. PICK x \in Thread : x = thr[w]
    BY <1>4
  <1>6. x.send \in BOOLEAN
    BY DEF Thread
  <1>7. [x EXCEPT !.pc = "respond", !.cur = f]
           = [x EXCEPT !.pc = "respond", !.cur = f, !.send = x.send]
    BY DEF Thread
  <1>8. thr' = [thr EXCEPT ![w].pc = "respond", ![w].cur = f, ![w].send = thr[w].send]
    BY <1>4, <1>5, <1>7
  <1> QED
    BY <1>3, <1>5, <1>6, <1>8, AnswerGoesOn

\* Thread w gives back the references of its own.
LEMMA GiveBack ==
    ASSUME NpSrvAssumption, IInv, NEW w \in Threads, NEW S, S = thr[w].held,
           thr[w].pc \in {"flushed", "finish"},
           NEW z \in Thread, thr' = [thr EXCEPT ![w] = z], z.held = {}, z.req = thr[w].req,
           z.pc = IF w = Reader THEN "gone" ELSE IF thr[w].pc = "flushed" THEN "idle" ELSE "remove",
           Refcounted(S, {}), UNCHANGED <<srv, reqs, work, kept, open>>,
           NEW b \in BOOLEAN,
           NEW m, m = conn.refcount - Cardinality(Freed(S)) - (IF w = Reader THEN 1 ELSE 0),
           conn' = [conn EXCEPT !.resetting = b, !.refcount = m]
    PROVE  IInv'
  <1>1. TypeOK /\ AnsweredInv /\ ThreadInv /\ ListedInv /\ QueueInv /\ CountInv /\ PoolInv
    BY DEF IInv
  <1>2. S \in SUBSET Objs
    BY <1>1 DEF TypeOK, Thread
  <1>3. \A o \in S \cup {} : req[o].refcount # 0
    <2>1. \A o \in S : HeldBy(o) # {}
      BY DEF HeldBy
    <2> QED
      BY <1>1, <1>2, <2>1, Counted
  <1>4. Links' = Links /\ Cardinality(Freed(S)) \in Nat
    BY <1>1, <1>2, <1>3, RefStep
  <1>5. thr \in [Threads -> Thread] /\ thr'[w] = z /\ \A v \in Threads \ {w} : thr'[v] = thr[v]
    BY <1>1 DEF TypeOK
  <1>6. thr' \in [Threads -> Thread]
    BY <1>5
  <1>7. \A v \in Threads \ {w} : Still(v)
    BY <1>5 DEF Still
  <1>8. ASSUME NEW v \in Threads
        PROVE  SameAnswers(v)
    <2>1. CASE v # w
      <3>1. thr'[v] = thr[v]
        BY <1>5, <2>1
      <3>2. (Answers(v)' <=> Answers(v)) /\ Start(v)' = Start(v)
        BY <1>1, <1>4, <1>7, <2>1, StillFacts
      <3>3. Answers(v) => thr[v].cur \in Objs
        BY <1>1 DEF AnsweredInv, AnsweredOK
      <3> QED
        BY <3>1, <3>2, <3>3 DEF SameAnswers
    <2>2. CASE v = w
      <3>1. ~Answers(w) /\ ~Answers(w)'
        BY <1>5 DEF Answers
      <3>2. Start(w)' = Start(w)
        BY <1>5, StartOfThread
      <3> QED
        BY <2>2, <3>1, <3>2 DEF SameAnswers
    <2> QED
      BY <2>1, <2>2
  <1>9. \A v \in Threads : thr'[v].held \cap Queued = {}
    BY <1>1, <1>5 DEF QueueInv
  <1>10. Queued' = Queued /\ reqs' \in Seq(Objs)
         /\ \A i, j \in DOMAIN reqs' : reqs'[i] = reqs'[j] => i = j
    BY <1>1 DEF Queued, TypeOK, QueueInv
  <1>11. ASSUME NEW o \in Objs
         PROVE  Cardinality(HeldBy(o)') + Bit(o \in Queued' \cup work \cup Chained \cup Final)
                              = Holding(o) - Bit(o \in S) + Bit(o \in {})
    <2>1. Cardinality(HeldBy(o)') = Cardinality(HeldBy(o)) - (IF o \in thr[w].held THEN 1 ELSE 0)
      BY <1>5, HeldLess
    <2>2. Holding(o) = Cardinality(HeldBy(o)) + Bit(o \in Queued' \cup work \cup Chained \cup Final)
      BY <1>10 DEF Holding, Pending, Bit
    <2>3. Cardinality(HeldBy(o)) \in Nat /\ Bit(o \in {}) = 0
          /\ Bit(o \in S) = (IF o \in thr[w].held THEN 1 ELSE 0)
      BY HeldByFinite DEF Bit
    <2>4. Bit(o \in Queued' \cup work \cup Chained \cup Final) \in Nat /\ Bit(o \in S) \in Nat
      BY DEF Bit
    <2> QED
      BY <2>1, <2>2, <2>3, <2>4
  <1>12. ThreadOK(w)'
    <2>1. ThreadOK(w)
      BY <1>1 DEF ThreadInv
    <2>2. thr[w].pc = "flushed" => w # Reader /\ thr[w].req = NIL
      BY <2>1 DEF ThreadOK, Resets
    <2>3. thr[w].pc = "finish" /\ w # Reader => thr[w].req \in Objs
      BY <2>1 DEF ThreadOK, Resets
    <2>4. w = Reader => thr[w].req = NIL
      BY <2>1 DEF ThreadOK
    <2> QED
      BY <1>5, <2>2, <2>3, <2>4 DEF ThreadOK, Resets
  <1>13. \A v \in Threads : Still(v) \/ ThreadOK(v)'
    BY <1>7, <1>12
  <1>14. PICK a, d, c \in BOOLEAN, n \in Nat :
            conn = [trans |-> a, resetting |-> d, listed |-> c, refcount |-> n]
    BY <1>1, ConnRecord
  <1>15. conn' = [trans |-> a, resetting |-> b, listed |-> c, refcount |-> m]
    BY <1>14
  <1>16. conn'.trans = a /\ conn'.resetting = b /\ conn'.listed = c /\ conn.listed = c
         /\ conn.refcount = n
    BY <1>14, <1>15
  <1>17. Reader \in Threads
    BY DEF Threads
  <1>18. ListedInv' /\ Users' = Users - (IF w = Reader THEN 1 ELSE 0)
    <2>1. CASE w = Reader
      <3>1. thr[Reader].pc = "finish"
        <4>1. ThreadOK(Reader)
          BY <1>1, <1>17 DEF ThreadInv
        <4> QED
          BY <2>1, <4>1 DEF ThreadOK, Resets
      <3> QED
        BY <1>1, <1>5, <1>16, <2>1, <3>1 DEF ListedInv, Users, Bit
    <2>2. CASE w # Reader
      <3>1. thr'[Reader] = thr[Reader]
        BY <1>5, <1>17, <2>2
      <3>2. Users' = Users /\ Users \in Nat
        BY <1>16, <3>1 DEF Users, Bit
      <3> QED
        BY <1>1, <1>16, <2>2, <3>1, <3>2 DEF ListedInv
    <2> QED
      BY <2>1, <2>2
  <1>19. m = conn.refcount - Cardinality(Freed(S)) + Users' - Users
    <2>1. PICK k \in Nat, u \in Nat : k = Cardinality(Freed(S)) /\ u = Users
      BY <1>4 DEF Users, Bit
    <2>2. PICK e \in Nat : e = IF w = Reader THEN 1 ELSE 0
      OBVIOUS
    <2>3. m = n - k - e
      BY <1>16, <2>1, <2>2
    <2>4. Users' = u - e
      BY <1>18, <2>1, <2>2
    <2>5. n - k - e = n - k + (u - e) - u
      OBVIOUS
    <2> QED
      BY <1>16, <2>1, <2>3, <2>4, <2>5
  <1>20. srv' \in {"running", "crashed", "locked"} /\ kept' = kept /\ work' = work
         /\ open' \in [Tags -> {"free", "io", "flush", "flushed"}]
    BY <1>1 DEF TypeOK
  <1>21. Exchange(S, {})
    BY <1>2, <1>3, <1>11 DEF Exchange
  <1>22. QueueLess /\ ThreadsGoOn
    BY <1>6, <1>8, <1>9, <1>10, <1>13 DEF QueueLess, ThreadsGoOn
  <1> QED
    BY <1>15, <1>16, <1>18, <1>19, <1>20, <1>21, <1>22, QuietStep

\* np_conn_reset_flush takes the queue, and a reference to each request it waits for.
LEMMA ResetFlushStep ==
    ASSUME NpSrvAssumption, IInv, NEW w \in Threads, np_conn_reset_flush(w)
    PROVE  IInv'
  <1> DEFINE N == {o \in work : Counts(w, o)}
  <1>1. TypeOK /\ AnsweredInv /\ ThreadInv /\ ListedInv /\ QueueInv /\ CountInv /\ PoolInv
    BY DEF IInv
  <1>2. thr[w].pc = "collect" /\ ThreadOK(w) /\ thr[w].held = {}
    BY <1>1 DEF np_conn_reset_flush, ThreadInv, ThreadOK
  <1>3. Queued \in SUBSET Objs /\ N \in SUBSET Objs /\ Queued \cap N = {} /\ N \subseteq work
    BY <1>1 DEF TypeOK, Queued, QueueInv
  <1>4. \A o \in Queued \cup N : req[o].refcount # 0
    <2>1. \A o \in Queued \cup N : o \in Pending /\ o \in Objs
      BY <1>3 DEF Pending
    <2> QED
      BY <1>1, <2>1, Counted
  <1>5. thr' = [thr EXCEPT ![w].pc = "check", ![w].held = N] /\ reqs' = <<>>
    BY DEF np_conn_reset_flush
  <1>6. Refcounted(Queued, N)
    <2>1. req' = [o \in Objs |-> CASE o \in Queued -> np_req_unref(o)
                                   [] o \in N -> np_req_ref(o)
                                   [] OTHER -> req[o]]
      BY DEF np_conn_reset_flush
    <2>2. pool' = SetToSeq(Freed(Queued)) \o pool
      BY DEF np_conn_reset_flush
    <2> HIDE DEF N
    <2>3. ASSUME NEW o \in Objs
          PROVE  (CASE o \in Queued -> np_req_unref(o)
                    [] o \in N -> np_req_ref(o)
                    [] OTHER -> req[o])
                 = (IF o \in Queued THEN np_req_unref(o)
                    ELSE IF o \in N THEN np_req_ref(o) ELSE req[o])
      BY <1>3
    <2>4. req' = [o \in Objs |-> IF o \in Queued THEN np_req_unref(o)
                                 ELSE IF o \in N THEN np_req_ref(o) ELSE req[o]]
      BY <2>1, <2>3
    <2> QED
      BY <2>2, <2>4 DEF Refcounted
  <1> HIDE DEF N
  <1>7. Links' = Links /\ Cardinality(Freed(Queued)) \in Nat
    BY <1>1, <1>3, <1>4, <1>6, RefStep
  <1>8. thr \in [Threads -> Thread]
    BY <1>1 DEF TypeOK
  <1>9. PICK x \in Thread : x = thr[w]
    BY <1>8
  <1>10. PICK z : z = [x EXCEPT !.pc = "check", !.held = N]
    OBVIOUS
  <1>11. z \in Thread /\ z.pc = "check" /\ z.req = x.req /\ z.held = N
    BY <1>3, <1>10 DEF Thread
  <1>12. thr'[w] = z /\ (\A v \in Threads \ {w} : thr'[v] = thr[v]) /\ thr' \in [Threads -> Thread]
    BY <1>5, <1>8, <1>9, <1>10, <1>11
  <1>13. \A v \in Threads \ {w} : Still(v)
    BY <1>12 DEF Still
  <1>14. ASSUME NEW v \in Threads
         PROVE  SameAnswers(v)
    <2>1. CASE v # w
      <3>1. thr'[v] = thr[v]
        BY <1>12, <2>1
      <3>2. (Answers(v)' <=> Answers(v)) /\ Start(v)' = Start(v)
        BY <1>1, <1>7, <1>13, <2>1, StillFacts
      <3>3. Answers(v) => thr[v].cur \in Objs
        BY <1>1 DEF AnsweredInv, AnsweredOK
      <3> QED
        BY <3>1, <3>2, <3>3 DEF SameAnswers
    <2>2. CASE v = w
      <3>1. ~Answers(w) /\ ~Answers(w)'
        BY <1>2, <1>11, <1>12 DEF Answers
      <3>2. Start(w)' = Start(w)
        BY <1>2, <1>9, <1>11, <1>12, StartOfThread
      <3> QED
        BY <2>2, <3>1, <3>2 DEF SameAnswers
    <2> QED
      BY <2>1, <2>2
  <1>15. ThreadOK(w)'
    BY <1>2, <1>9, <1>11, <1>12 DEF ThreadOK, Resets
  <1>16. ThreadsGoOn
    BY <1>12, <1>13, <1>14, <1>15 DEF ThreadsGoOn
  <1>17. Queued' = {}
    BY <1>5 DEF Queued
  <1>18. QueueLess
    <2>1. \A v \in Threads : thr'[v].held \cap Queued = {}
      BY <1>1, <1>3, <1>11, <1>12 DEF QueueInv
    <2>2. <<>> \in Seq(Objs) /\ DOMAIN <<>> = {}
      OBVIOUS
    <2>3. reqs' \in Seq(Objs) /\ DOMAIN reqs' = {}
      BY <1>5, <2>2
    <2> QED
      BY <1>17, <2>1, <2>3 DEF QueueLess
  <1>19. ASSUME NEW o \in Objs
         PROVE  Cardinality(HeldBy(o)') + Bit(o \in Queued' \cup work \cup Chained \cup Final)
                              = Holding(o) - Bit(o \in Queued) + Bit(o \in N)
    <2>1. Cardinality(HeldBy(o)') = Cardinality(HeldBy(o)) + Bit(o \in N)
      BY <1>2, <1>11, <1>12, HeldMore DEF Bit
    <2>2. Holding(o) = Cardinality(HeldBy(o)) + Bit(o \in Queued \cup work \cup Chained \cup Final)
      BY DEF Holding, Pending, Bit
    <2>3. o \in Queued => o \notin work \cup Chained \cup Final
      <3>1. o \in Queued => o \notin Final
        BY <1>1 DEF Final, AnsweredInv, AnsweredOK
      <3> QED
        BY <1>1, <3>1 DEF QueueInv
    <2>4. Bit(o \in Queued' \cup work \cup Chained \cup Final)
             = Bit(o \in Queued \cup work \cup Chained \cup Final) - Bit(o \in Queued)
      BY <1>17, <2>3 DEF Bit
    <2>5. PICK h \in Nat : h = Cardinality(HeldBy(o))
      BY HeldByFinite
    <2>6. PICK a \in Nat, b \in Nat, c \in Nat :
              /\ a = Bit(o \in N) /\ b = Bit(o \in Queued)
              /\ c = Bit(o \in Queued \cup work \cup Chained \cup Final)
      BY DEF Bit
    <2>7. (h + a) + (c - b) = (h + c) - b + a
      OBVIOUS
    <2> QED
      BY <2>1, <2>2, <2>4, <2>5, <2>6, <2>7
  <1>20. Exchange(Queued, N)
    BY <1>3, <1>4, <1>6, <1>19 DEF Exchange
  <1>21. PICK a, b, c \in BOOLEAN, n \in Nat :
            conn = [trans |-> a, resetting |-> b, listed |-> c, refcount |-> n]
    BY <1>1, ConnRecord
  <1>22. PICK k \in Nat : k = Cardinality(Freed(Queued))
    BY <1>7
  <1>23. PICK m : m = n - k
    OBVIOUS
  <1>24. conn' = [trans |-> a, resetting |-> b, listed |-> c, refcount |-> m]
    BY <1>21, <1>22, <1>23 DEF np_conn_reset_flush
  <1>25. conn'.trans = a /\ conn'.resetting = b /\ conn'.listed = c /\ conn.listed = c
         /\ conn.refcount = n
    BY <1>21, <1>24
  <1>26. Reader \in Threads
    BY DEF Threads
  <1>27. /\ thr'[Reader].pc \in {"idle", "unlist"} <=> thr[Reader].pc \in {"idle", "unlist"}
         /\ thr'[Reader].pc # "gone" <=> thr[Reader].pc # "gone"
    <2>1. CASE w = Reader
      BY <1>2, <1>11, <1>12, <2>1
    <2>2. CASE w # Reader
      BY <1>12, <1>26, <2>2
    <2> QED
      BY <2>1, <2>2
  <1>28. ListedInv' /\ Users' = Users
    BY <1>1, <1>25, <1>27 DEF ListedInv, Users, Bit
  <1>29. m = conn.refcount - Cardinality(Freed(Queued)) + Users' - Users
    <2>1. PICK u \in Nat : u = Users
      BY DEF Users, Bit
    <2>2. n - k = n - k + u - u
      OBVIOUS
    <2> QED
      BY <1>22, <1>23, <1>25, <1>28, <2>1, <2>2
  <1>30. srv' \in {"running", "crashed", "locked"} /\ kept' = kept /\ work' = work
         /\ open' \in [Tags -> {"free", "io", "flush", "flushed"}]
    BY <1>1 DEF TypeOK, np_conn_reset_flush
  <1> QED
    BY <1>16, <1>18, <1>20, <1>24, <1>25, <1>28, <1>29, <1>30, QuietStep

LEMMA FlushDoneStep ==
    ASSUME NpSrvAssumption, IInv, NEW w \in Threads, FlushDone(w)
    PROVE  IInv'
  <1> DEFINE S == thr[w].held
             m == conn.refcount - Cardinality(Freed(S)) - (IF w = Reader THEN 1 ELSE 0)
  <1>1. TypeOK /\ ThreadInv /\ thr[w].pc = "flushed"
    BY DEF IInv, FlushDone
  <1>2. w # Reader /\ thr[w].req = NIL
    BY <1>1 DEF ThreadInv, ThreadOK, Resets
  <1>3. Idle \in Thread /\ Idle.held = {} /\ Idle.req = thr[w].req /\ Idle.pc = "idle"
    BY <1>2 DEF Idle, Thread
  <1>4. Release(S) /\ thr' = [thr EXCEPT ![w] = Idle] /\ UNCHANGED <<srv, reqs, work, kept, open>>
    BY DEF FlushDone
  <1>5. PICK a, b, c \in BOOLEAN, n \in Nat :
            conn = [trans |-> a, resetting |-> b, listed |-> c, refcount |-> n]
    BY <1>1, ConnRecord
  <1>6. S \in SUBSET Objs
    BY <1>1 DEF TypeOK, Thread
  <1>7. Cardinality(Freed(S)) \in Nat
    BY <1>6, FS_Subset, FS_CardinalityType DEF Freed, NpSrvAssumption
  <1>8. conn' = [conn EXCEPT !.resetting = b, !.refcount = m]
    <2>1. PICK k \in Nat : k = Cardinality(Freed(S))
      BY <1>7
    <2>2. PICK j : j = n - k
      OBVIOUS
    <2>3. conn' = [trans |-> a, resetting |-> b, listed |-> c, refcount |-> j]
      BY <1>4, <1>5, <2>1, <2>2 DEF Release
    <2>4. m = j
      <3>1. conn.refcount = n
        BY <1>5
      <3>2. n - k - 0 = n - k
        BY <2>1
      <3> QED
        BY <1>2, <2>1, <2>2, <3>1, <3>2
    <2> HIDE DEF m, S
    <2>5. [conn EXCEPT !.resetting = b, !.refcount = j]
             = [trans |-> a, resetting |-> b, listed |-> c, refcount |-> j]
      <3>1. PICK y : y = [conn EXCEPT !.resetting = b, !.refcount = j]
        OBVIOUS
      <3>2. y = [trans |-> a, resetting |-> b, listed |-> c, refcount |-> j]
        BY <1>5, <3>1
      <3> QED
        BY <3>1, <3>2
    <2> QED
      BY <2>3, <2>4, <2>5
  <1>9. Refcounted(S, {})
    BY <1>4 DEF Release, Refcounted
  <1> HIDE DEF S, m
  <1>10. S = thr[w].held /\ m = conn.refcount - Cardinality(Freed(S)) - (IF w = Reader THEN 1 ELSE 0)
    BY DEF S, m
  <1> QED
    BY <1>1, <1>2, <1>3, <1>4, <1>5, <1>8, <1>9, <1>10, GiveBack

LEMMA FinishStep ==
    ASSUME NpSrvAssumption, IInv, NEW w \in Threads, np_conn_reset_finish(w)
    PROVE  IInv'
  <1> DEFINE S == thr[w].held
             m == conn.refcount - Cardinality(Freed(S)) - (IF w = Reader THEN 1 ELSE 0)
             pc == IF w = Reader THEN "gone" ELSE "remove"
  <1>1. TypeOK /\ ThreadInv /\ thr[w].pc = "finish"
    BY DEF IInv, np_conn_reset_finish
  <1>2. thr \in [Threads -> Thread]
    BY <1>1 DEF TypeOK
  <1>3. PICK x \in Thread : x = thr[w]
    BY <1>2
  <1>4. PICK z : z = [x EXCEPT !.pc = pc, !.held = {}]
    OBVIOUS
  <1>5. z \in Thread /\ z.held = {} /\ z.req = x.req /\ z.pc = pc
    BY <1>4 DEF Thread
  <1>6. thr' = [thr EXCEPT ![w] = z]
    <2>1. thr' = [thr EXCEPT ![w].pc = pc, ![w].held = {}]
      BY DEF np_conn_reset_finish
    <2> QED
      BY <1>2, <1>3, <1>4, <2>1
  <1>7. conn' = [conn EXCEPT !.resetting = FALSE, !.refcount = m]
    BY DEF np_conn_reset_finish
  <1>8. Refcounted(S, {})
    BY DEF np_conn_reset_finish, Refcounted
  <1>9. UNCHANGED <<srv, reqs, work, kept, open>>
    BY DEF np_conn_reset_finish
  <1>10. z.pc = IF w = Reader THEN "gone" ELSE IF thr[w].pc = "flushed" THEN "idle" ELSE "remove"
    BY <1>1, <1>5
  <1> HIDE DEF S, m
  <1>11. S = thr[w].held /\ m = conn.refcount - Cardinality(Freed(S)) - (IF w = Reader THEN 1 ELSE 0)
    BY DEF S, m
  <1> QED
    BY <1>1, <1>3, <1>5, <1>6, <1>7, <1>8, <1>9, <1>10, <1>11, GiveBack

Elements(s) == {s[i] : i \in DOMAIN s}

\* What is left of a sequence without one of its elements.
LEMMA SeqRemoved ==
    ASSUME NEW S, NEW s \in Seq(S), NEW k \in DOMAIN s,
           \A i, j \in DOMAIN s : s[i] = s[j] => i = j,
           NEW t, t = RemoveAt(s, k)
    PROVE  /\ t \in Seq(S) /\ \A i, j \in DOMAIN t : t[i] = t[j] => i = j
           /\ Elements(t) = Elements(s) \ {s[k]}
  <1>1. PICK n \in Nat : n = Len(s) /\ DOMAIN s = 1..n /\ k \in 1..n
    BY LenProperties
  <1>2. \A i \in 1..n : s[i] \in S
    BY <1>1, ElementOfSeq
  <1>3. PICK p : p = SubSeq(s, 1, k - 1)
    OBVIOUS
  <1>4. /\ p \in Seq(S) /\ Len(p) = k - 1
        /\ \A i \in 1..(k - 1) : p[i] = s[i]
    <2>1. \A i \in 1..(k - 1) : s[i] \in S
      BY <1>1, <1>2
    <2>2. 1 \in Int /\ k - 1 \in Int
      BY <1>1
    <2>3. /\ p \in Seq(S)
          /\ Len(p) = IF 1 <= k - 1 THEN k - 1 - 1 + 1 ELSE 0
          /\ \A i \in 1..(k - 1 - 1 + 1) : p[i] = s[1 + i - 1]
      BY <1>3, <2>1, <2>2, SubSeqProperties
    <2> QED
      BY <1>1, <2>3
  <1>5. PICK q : q = SubSeq(s, k + 1, Len(s))
    OBVIOUS
  <1>6. /\ q \in Seq(S) /\ Len(q) = n - k
        /\ \A i \in 1..(n - k) : q[i] = s[k + i]
    <2>1. \A i \in (k + 1)..Len(s) : s[i] \in S
      BY <1>1, <1>2
    <2>2. k + 1 \in Int /\ Len(s) \in Int
      BY <1>1
    <2>3. /\ q \in Seq(S)
          /\ Len(q) = IF k + 1 <= Len(s) THEN Len(s) - (k + 1) + 1 ELSE 0
          /\ \A i \in 1..(Len(s) - (k + 1) + 1) : q[i] = s[(k + 1) + i - 1]
      BY <1>5, <2>1, <2>2, SubSeqProperties
    <2>4. Len(q) = n - k
      BY <1>1, <2>3
    <2>5. ASSUME NEW i \in 1..(n - k)
          PROVE  q[i] = s[k + i]
      <3>1. i \in 1..(Len(s) - (k + 1) + 1) /\ (k + 1) + i - 1 = k + i
        BY <1>1
      <3> QED
        BY <2>3, <3>1
    <2> QED
      BY <2>3, <2>4, <2>5
  <1>8. t = p \o q
    BY <1>3, <1>5 DEF RemoveAt
  <1>9. /\ t \in Seq(S) /\ Len(t) = n - 1
        /\ \A i \in 1..(n - 1) : t[i] = IF i < k THEN s[i] ELSE s[i + 1]
    <2>1. /\ p \o q \in Seq(S) /\ Len(p \o q) = Len(p) + Len(q)
          /\ \A i \in 1..(Len(p) + Len(q)) :
                 (p \o q)[i] = IF i <= Len(p) THEN p[i] ELSE q[i - Len(p)]
      BY <1>4, <1>6, ConcatProperties
    <2>2. /\ t \in Seq(S) /\ Len(t) = Len(p) + Len(q)
          /\ \A i \in 1..(Len(p) + Len(q)) : t[i] = IF i <= Len(p) THEN p[i] ELSE q[i - Len(p)]
      BY <1>8, <2>1, Zenon
    <2>3. t \in Seq(S) /\ Len(t) = n - 1
      BY <1>1, <1>4, <1>6, <2>2
    <2>4. ASSUME NEW i \in 1..(n - 1)
          PROVE  t[i] = IF i < k THEN s[i] ELSE s[i + 1]
      <3>1. t[i] = IF i <= k - 1 THEN p[i] ELSE q[i - (k - 1)]
        BY <1>1, <1>4, <1>6, <2>2
      <3>2. CASE i < k
        BY <1>1, <1>4, <3>1, <3>2
      <3>3. CASE i >= k
        <4>1. i - (k - 1) \in 1..(n - k) /\ k + (i - (k - 1)) = i + 1
          BY <1>1, <3>3
        <4> QED
          BY <1>1, <1>6, <3>1, <3>3, <4>1
      <3> QED
        BY <1>1, <3>2, <3>3
    <2> QED
      BY <2>3, <2>4
  <1>10. DOMAIN t = 1..(n - 1)
    BY <1>1, <1>9, LenProperties
  <1>11. \A i \in 1..(n - 1) : \E j \in 1..n :
             j # k /\ t[i] = s[j] /\ j = IF i < k THEN i ELSE i + 1
    <2>1. ASSUME NEW i \in 1..(n - 1)
          PROVE  \E j \in 1..n : j # k /\ t[i] = s[j] /\ j = IF i < k THEN i ELSE i + 1
      <3>1. CASE i < k
        BY <1>1, <1>9, <3>1
      <3>2. CASE i >= k
        <4>1. i + 1 \in 1..n /\ i + 1 # k /\ t[i] = s[i + 1]
          BY <1>1, <1>9, <3>2
        <4> QED
          BY <1>1, <3>2, <4>1
      <3> QED
        BY <1>1, <3>1, <3>2
    <2> QED
      BY <2>1
  <1>12. ASSUME NEW i \in 1..(n - 1), NEW j \in 1..(n - 1), t[i] = t[j]
         PROVE  i = j
    <2>1. PICK a \in 1..n : t[i] = s[a] /\ a = IF i < k THEN i ELSE i + 1
      BY <1>11
    <2>2. PICK b \in 1..n : t[j] = s[b] /\ b = IF j < k THEN j ELSE j + 1
      BY <1>11
    <2>3. a = b
      BY <1>1, <1>12, <2>1, <2>2
    <2> QED
      BY <1>1, <2>1, <2>2, <2>3
  <1>13. ASSUME NEW j \in 1..n, j # k
         PROVE  \E i \in 1..(n - 1) : t[i] = s[j]
    <2>1. CASE j < k
      BY <1>1, <1>9, <2>1
    <2>2. CASE j > k
      <3>1. j - 1 \in 1..(n - 1) /\ ~(j - 1 < k) /\ (j - 1) + 1 = j
        BY <1>1, <2>2
      <3> QED
        BY <1>9, <3>1
    <2> QED
      BY <1>1, <1>13, <2>1, <2>2
  <1>14. ASSUME NEW x
         PROVE  (\E i \in 1..(n - 1) : t[i] = x) <=> (x # s[k] /\ \E i \in 1..n : s[i] = x)
    <2>1. ASSUME NEW i \in 1..(n - 1), t[i] = x
          PROVE  x # s[k] /\ \E j \in 1..n : s[j] = x
      BY <1>1, <1>11, <2>1
    <2>2. ASSUME x # s[k], NEW j \in 1..n, s[j] = x
          PROVE  \E i \in 1..(n - 1) : t[i] = x
      BY <1>13, <2>2
    <2> QED
      BY <2>1, <2>2
  <1>15. Elements(t) = Elements(s) \ {s[k]}
    <2>1. \A x : x \in Elements(t) <=> \E i \in 1..(n - 1) : t[i] = x
      BY <1>10 DEF Elements
    <2>2. \A x : x \in Elements(s) <=> \E i \in 1..n : s[i] = x
      BY <1>1 DEF Elements
    <2> QED
      BY <1>14, <2>1, <2>2
  <1> QED
    BY <1>9, <1>10, <1>12, <1>15

\* A set of positions has a first one.
LEMMA FirstOf ==
    ASSUME NEW S \in SUBSET Nat, S # {}
    PROVE  Min(S) \in S
  <1>1. \E x \in S : \A y \in S : ~(<<y, x>> \in OpToRel(<, Nat))
    BY NatLessThanWellFounded, WFMin, Zenon
  <1>2. PICK x \in S : \A y \in S : ~(<<y, x>> \in OpToRel(<, Nat))
    BY <1>1, Zenon
  <1>3. ASSUME NEW y \in S
        PROVE  x <= y
    <2>1. ~(<<y, x>> \in {ss \in Nat \X Nat : ss[1] < ss[2]})
      BY <1>2 DEF OpToRel
    <2> QED
      BY <2>1
  <1> QED
    BY <1>3 DEF Min

\* np_flush drops a request of the queue.
LEMMA FlushPendingStep ==
    ASSUME NpSrvAssumption, IInv, NEW w \in Threads, thr[w].pc = "flush",
           NEW i \in DOMAIN reqs, reqs' = RemoveAt(reqs, i), Release({reqs[i]}),
           Step(w, "remove"), UNCHANGED <<srv, work, kept, open>>
    PROVE  IInv'
  <1> DEFINE o == reqs[i]
  <1>1. TypeOK /\ AnsweredInv /\ ThreadInv /\ ListedInv /\ QueueInv /\ CountInv /\ PoolInv
    BY DEF IInv
  <1>2. reqs \in Seq(Objs) /\ o \in Objs /\ o \in Queued
    BY <1>1 DEF TypeOK, Queued
  <1> HIDE DEF o
  <1>3. {o} \in SUBSET Objs /\ \A x \in {o} \cup {} : req[x].refcount # 0
    <2>1. o \in Pending
      BY <1>2 DEF Pending
    <2> QED
      BY <1>1, <1>2, <2>1, Counted
  <1>4. Refcounted({o}, {}) /\ conn' = [conn EXCEPT !.refcount = @ - Cardinality(Freed({o}))]
    BY DEF Release, Refcounted, o
  <1>5. Links' = Links /\ Cardinality(Freed({o})) \in Nat
    BY <1>1, <1>3, <1>4, RefStep
  <1>6. /\ \A v \in Threads : SameAnswers(v) /\ thr'[v].held = thr[v].held
        /\ \A v \in Threads \ {w} : Still(v)
        /\ thr' \in [Threads -> Thread]
        /\ thr'[w].pc = "remove" /\ thr'[w].req = thr[w].req /\ thr'[w].held = thr[w].held
    BY <1>5, PcMoves
  <1>7. ThreadOK(w) /\ w # Reader
    BY <1>1 DEF ThreadInv, ThreadOK, Resets
  <1>8. ThreadOK(w)'
    BY <1>6, <1>7 DEF ThreadOK, Resets
  <1>9. ThreadsGoOn
    BY <1>6, <1>8 DEF ThreadsGoOn
  <1>10. /\ reqs' \in Seq(Objs) /\ \A j, k \in DOMAIN reqs' : reqs'[j] = reqs'[k] => j = k
         /\ Queued' = Queued \ {o}
    <2>1. PICK s \in Seq(Objs) : s = reqs
      BY <1>2
    <2>2. i \in DOMAIN s /\ (\A j, k \in DOMAIN s : s[j] = s[k] => j = k) /\ s[i] = o
      BY <1>1, <2>1 DEF QueueInv, o
    <2>3. PICK t : t = RemoveAt(s, i)
      OBVIOUS
    <2>4. /\ t \in Seq(Objs) /\ \A j, k \in DOMAIN t : t[j] = t[k] => j = k
          /\ Elements(t) = Elements(s) \ {s[i]}
      BY <2>1, <2>2, <2>3, SeqRemoved
    <2>5. reqs' = t
      BY <2>1, <2>3
    <2>6. Queued' = Elements(t) /\ Queued = Elements(s)
      BY <2>1, <2>5 DEF Queued, Elements
    <2>8. Queued' = Queued \ {o}
      BY <2>2, <2>4, <2>6
    <2> QED
      BY <2>4, <2>5, <2>8
  <1>11. QueueLess
    BY <1>1, <1>6, <1>10 DEF QueueLess, QueueInv
  <1>12. ASSUME NEW x \in Objs
         PROVE  Cardinality(HeldBy(x)') + Bit(x \in Queued' \cup work \cup Chained \cup Final)
                              = Holding(x) - Bit(x \in {o}) + Bit(x \in {})
    <2>1. HeldBy(x)' = HeldBy(x)
      BY <1>6, HeldSame
    <2>2. Holding(x) = Cardinality(HeldBy(x)) + Bit(x \in Queued \cup work \cup Chained \cup Final)
      BY DEF Holding, Pending, Bit
    <2>3. o \notin work \cup Chained \cup Final
      <3>1. o \notin Final
        BY <1>1, <1>2 DEF Final, AnsweredInv, AnsweredOK
      <3> QED
        BY <1>1, <1>2, <3>1 DEF QueueInv
    <2>4. /\ Bit(x \in Queued' \cup work \cup Chained \cup Final)
             = Bit(x \in Queued \cup work \cup Chained \cup Final) - Bit(x \in {o})
          /\ Bit(x \in {}) = 0
      BY <1>2, <1>10, <2>3 DEF Bit
    <2>5. PICK h \in Nat : h = Cardinality(HeldBy(x))
      BY HeldByFinite
    <2>6. PICK b \in Nat, c \in Nat :
              b = Bit(x \in {o}) /\ c = Bit(x \in Queued \cup work \cup Chained \cup Final)
      BY DEF Bit
    <2>7. h + (c - b) = (h + c) - b + 0
      OBVIOUS
    <2> QED
      BY <2>1, <2>2, <2>4, <2>5, <2>6, <2>7
  <1>13. Exchange({o}, {})
    BY <1>3, <1>4, <1>12 DEF Exchange
  <1>14. PICK a, b, c \in BOOLEAN, n \in Nat :
            conn = [trans |-> a, resetting |-> b, listed |-> c, refcount |-> n]
    BY <1>1, ConnRecord
  <1>15. PICK k \in Nat : k = Cardinality(Freed({o}))
    BY <1>5
  <1>16. PICK m : m = n - k
    OBVIOUS
  <1>17. conn' = [trans |-> a, resetting |-> b, listed |-> c, refcount |-> m]
    BY <1>4, <1>14, <1>15, <1>16
  <1>18. conn'.trans = a /\ conn'.resetting = b /\ conn'.listed = c /\ conn.listed = c
         /\ conn.refcount = n
    BY <1>14, <1>17
  <1>19. thr'[Reader].pc = thr[Reader].pc
    <2>1. Reader \in Threads
      BY DEF Threads
    <2>2. Still(Reader) /\ thr[Reader] \in Thread
      BY <1>1, <1>6, <1>7, <2>1 DEF TypeOK
    <2>3. thr' = [thr EXCEPT ![w].pc = "remove"] /\ thr \in [Threads -> Thread]
      BY <1>1 DEF Step, TypeOK
    <2> QED
      BY <1>7, <2>1, <2>3
  <1>20. ListedInv' /\ Users' = Users
    BY <1>1, <1>18, <1>19 DEF ListedInv, Users, Bit
  <1>21. m = conn.refcount - Cardinality(Freed({o})) + Users' - Users
    <2>1. PICK u \in Nat : u = Users
      BY DEF Users, Bit
    <2>2. n - k = n - k + u - u
      OBVIOUS
    <2> QED
      BY <1>15, <1>16, <1>18, <1>20, <2>1, <2>2
  <1>22. srv' \in {"running", "crashed", "locked"} /\ kept' = kept /\ work' = work
         /\ open' \in [Tags -> {"free", "io", "flush", "flushed"}]
    BY <1>1 DEF TypeOK
  <1> QED
    BY <1>9, <1>11, <1>13, <1>17, <1>18, <1>20, <1>21, <1>22, QuietStep

-----------------------------------------------------------------------------
(* The steps by which a chain changes hands.                               *)

\* No request is released, and the same ones wait.
LEMMA CountsSame ==
    ASSUME NpSrvAssumption, IInv, UNCHANGED <<req, pool, conn>>,
           \A v \in Threads : thr'[v].held = thr[v].held,
           thr'[Reader].pc = thr[Reader].pc, Pending' = Pending,
           Pending \cup Final' = Pending \cup Final
    PROVE  CountInv' /\ PoolInv' /\ AnswerInv' /\ ListedInv' /\ ConnRefs'
  <1>1. \A o \in Objs : HeldBy(o)' = HeldBy(o)
    BY DEF HeldBy
  <1>2. CountInv'
    <2>1. \A o : o \in Pending' \cup Final' <=> o \in Pending \cup Final
      OBVIOUS
    <2> QED
      BY <1>1, <2>1 DEF IInv, CountInv, Holding
  <1>3. Live' = Live
    BY DEF Live
  <1>4. PoolInv' /\ AnswerInv'
    BY <1>3 DEF IInv, PoolInv, AnswerInv
  <1>5. ListedInv' /\ ConnRefs'
    BY <1>3 DEF IInv, ListedInv, ConnRefs
  <1> QED
    BY <1>2, <1>4, <1>5

\* A thread that answers does not have what others have.
LEMMA AnsweringApart ==
    ASSUME NpSrvAssumption, TypeOK, ChainInv, AnsweredInv, NEW v \in Threads, Answers(v)
    PROVE  /\ \A k \in Keys : Working(k) => Part(k) \subseteq work /\ thr[v].req \notin Part(k)
           /\ Part(v) \cap work = {} /\ ~Working(v) /\ v \in Keys
  <1>1. ~Working(v) /\ v \in Keys
    BY StartOfThread
  <1>2. thr[v].req \notin work
    BY DEF AnsweredInv, AnsweredOK
  <1> QED
    BY <1>1, <1>2 DEF ChainInv

\* A working chain goes from one that has it to another.
LEMMA ChainsMoved ==
    ASSUME NpSrvAssumption, TypeOK, ChainInv, Links' = Links, work' = work,
           NEW j \in Keys, NEW k \in Keys, j # k, Start(k) = NIL, Start(j)' = NIL,
           Start(k)' = Start(j), \A i \in Keys \ {j, k} : Start(i)' = Start(i),
           \A i \in Keys : Working(i)' <=> Working(i), Working(j), Working(k)
    PROVE  /\ ChainInv' /\ Chained' = Chained
           /\ Part(j)' = {} /\ Part(k)' = Part(j)
           /\ \A i \in Keys \ {j, k} : Part(i)' = Part(i)
  <1>1. Part(j)' = {}
    BY ChainNil DEF Part
  <1>2. Part(k)' = Part(j) /\ Part(k) = {}
    BY ChainNil DEF Part
  <1>3. \A i \in Keys \ {j, k} : Part(i)' = Part(i)
    BY DEF Part
  <1>4. \A i \in Keys : Start(i)' \in Objs \cup {NIL}
    BY DEF ChainInv
  <1>5. \A i, m \in Keys : i # m => Part(i)' \cap Part(m)' = {}
    <2>1. ASSUME NEW i \in Keys, NEW m \in Keys, i # m
          PROVE  Part(i)' \cap Part(m)' = {}
      <3>1. CASE i = j \/ m = j
        BY <1>1, <3>1
      <3>2. CASE i # j /\ m # j /\ i = k
        BY <1>2, <1>3, <2>1, <3>2 DEF ChainInv
      <3>3. CASE i # j /\ m # j /\ m = k
        BY <1>2, <1>3, <2>1, <3>3 DEF ChainInv
      <3>4. CASE i # j /\ m # j /\ i # k /\ m # k
        BY <1>3, <2>1, <3>4 DEF ChainInv
      <3> QED
        BY <3>1, <3>2, <3>3, <3>4
    <2> QED
      BY <2>1
  <1>6. \A i \in Keys : /\ Working(i)' => Part(i)' \subseteq work'
                        /\ ~Working(i)' => Part(i)' \cap work' = {}
    BY <1>1, <1>2, <1>3 DEF ChainInv
  <1>7. Chained' = Chained
    <2>1. ASSUME NEW x \in Objs
          PROVE  (\E i \in Keys : x \in Part(i)') <=> (\E i \in Keys : x \in Part(i))
      BY <1>1, <1>2, <1>3
    <2> QED
      BY <2>1 DEF Chained
  <1>8. \A x \in Chained' : x \notin ChainOf(Links', Links'[x])
    BY <1>7 DEF ChainInv
  <1>9. ChainInv'
    BY <1>4, <1>5, <1>6, <1>8 DEF ChainInv
  <1> QED
    BY <1>1, <1>2, <1>3, <1>7, <1>9

\* The thread u gives its working chain away, or gets it.
LEMMA MoveStep ==
    ASSUME NpSrvAssumption, IInv, NEW u \in Threads, u # Reader, NEW z \in Thread,
           thr' = [thr EXCEPT ![u] = z], z.held = thr[u].held, ~Answers(u),
           z.pc \notin {"respond", "write", "next"}, ThreadOK(u)', kept' \in SUBSET Objs,
           NEW j \in Keys, NEW k \in Keys, j # k, Start(k) = NIL, Start(j)' = NIL,
           Start(k)' = Start(j), \A i \in Keys \ {j, k, u} : Start(i)' = Start(i),
           u \in {j, k}, {j, k} \ {u} \subseteq Objs,
           UNCHANGED <<srv, req, pool, reqs, work, conn, open>>
    PROVE  IInv'
  <1>1. TypeOK /\ ChainInv /\ QueueInv /\ AnsweredInv /\ ThreadInv /\ Links' = Links
    BY DEF IInv, Links
  <1>2. thr \in [Threads -> Thread] /\ thr'[u] = z /\ \A v \in Threads \ {u} : thr'[v] = thr[v]
    BY <1>1 DEF TypeOK
  <1>3. TypeOK'
    BY <1>1, <1>2 DEF TypeOK
  <1>4. ~Answers(u)' /\ \A v \in Threads : Answers(v)' <=> Answers(v)
    BY <1>2 DEF Answers
  <1>5. \A i \in Keys : Working(i)' <=> Working(i)
    BY <1>4 DEF Working, Keys
  <1>6. Working(j) /\ Working(k)
    BY <1>1 DEF Working
  <1>7. /\ ChainInv' /\ Chained' = Chained
        /\ Part(j)' = {} /\ Part(k)' = Part(j)
        /\ \A i \in Keys \ {j, k} : Part(i)' = Part(i)
    BY <1>1, <1>5, <1>6, ChainsMoved
  <1>8. Queued' = Queued /\ Pending' = Pending
    BY <1>7 DEF Queued, Pending
  <1>9. Final' = Final
    BY <1>2, <1>4 DEF Final
  <1>10. \A v \in Threads : thr'[v].held = thr[v].held
    BY <1>2
  <1>11. thr'[Reader].pc = thr[Reader].pc
    BY <1>2 DEF Threads
  <1>12. CountInv' /\ PoolInv' /\ AnswerInv' /\ ListedInv' /\ ConnRefs'
    BY <1>8, <1>9, <1>10, <1>11, CountsSame
  <1>13. QueueInv'
    BY <1>1, <1>7, <1>8, <1>10 DEF QueueInv
  <1>14. ThreadInv'
    <2>1. \A v \in Threads \ {u} : Still(v)
      BY <1>2 DEF Still
    <2> QED
      BY <1>1, <2>1, StillOK DEF ThreadInv
  <1>15. ASSUME NEW v \in Threads, Answers(v)'
         PROVE  AnsweredOK(v)'
    <2>1. Answers(v) /\ v # u /\ thr'[v] = thr[v] /\ AnsweredOK(v)
      BY <1>1, <1>2, <1>4, <1>15 DEF AnsweredInv
    <2>2. \A i \in Keys : Working(i) => thr[v].req \notin Part(i)
      BY <1>1, <2>1, AnsweringApart
    <2>3. ASSUME NEW i \in Keys, thr[v].req \in Part(i)'
          PROVE  thr[v].req \in Part(i)
      BY <1>6, <1>7, <2>2, <2>3
    <2>4. \A i \in Keys : thr'[v].req \in Part(i)' =>
              i = v /\ thr'[v].cur = thr'[v].req /\ thr'[v].pc # "next"
      BY <2>1, <2>3 DEF AnsweredOK
    <2>5. \A t \in Threads : Answers(t)' /\ thr'[t].req = thr'[v].req => t = v
      BY <1>2, <1>4, <2>1 DEF AnsweredOK
    <2> QED
      BY <1>8, <2>1, <2>4, <2>5 DEF AnsweredOK
  <1>16. AnsweredInv'
    BY <1>15 DEF AnsweredInv
  <1> QED
    BY <1>3, <1>7, <1>12, <1>13, <1>14, <1>16 DEF IInv

LEMMA IdleThread ==
    ASSUME NpSrvAssumption
    PROVE  /\ Idle \in Thread /\ Idle.pc = "idle" /\ Idle.req = NIL /\ Idle.held = {}
           /\ Idle.cur = NIL
  BY DEF Idle, Thread

LEMMA ProcessStep ==
    ASSUME NpSrvAssumption, IInv, NEW w \in Workers, np_process_request(w)
    PROVE  IInv'
  <1>1. TypeOK /\ ChainInv /\ ThreadInv /\ thr[w].pc = "process"
    BY DEF IInv, np_process_request
  <1>2. w \in Threads /\ w # Reader /\ ThreadOK(w)
    BY <1>1 DEF Threads, ThreadInv, NpSrvAssumption
  <1>3. thr[w].req \in Objs /\ thr[w].held = {}
    BY <1>1, <1>2 DEF ThreadOK
  <1>4. UNCHANGED <<srv, req, pool, reqs, work, conn, open>>
    BY DEF np_process_request
  <1>5. CASE Step(w, "remove") /\ UNCHANGED kept
    <2>1. conn.resetting \in BOOLEAN /\ conn' = [conn EXCEPT !.resetting = conn.resetting]
      BY <1>1, <1>4, ConnSame
    <2>2. thr[w].pc \notin {"respond", "write", "next"}
      BY <1>1
    <2> QED
      BY <1>2, <1>3, <1>4, <1>5, <2>1, <2>2, PcStep
  <1>6. CASE thr' = [thr EXCEPT ![w] = Idle] /\ kept' = kept \cup {thr[w].req}
    <2>1. PICK o \in Objs : o = thr[w].req
      BY <1>3
    <2>2. w \in Keys /\ o \in Keys /\ w # o /\ w \notin Objs /\ o # NIL
      BY <1>2, StartOfThread DEF Keys, NpSrvAssumption
    <2>3. Start(w) = o
      BY <1>1, <1>2, <2>1, StartOfThread
    <2>4. o \in Part(w)
      BY <1>1, <2>2, <2>3, PartFacts
    <2>5. o \notin kept
      <3>1. SUFFICES ASSUME o \in kept
                     PROVE  FALSE
        OBVIOUS
      <3>2. o \in Part(o)
        BY <1>1, <3>1, KeptWorks
      <3> QED
        BY <1>1, <2>2, <2>4, <3>2 DEF ChainInv
    <2>6. thr'[w] = Idle /\ \A v \in Threads \ {w} : thr'[v] = thr[v]
      BY <1>1, <1>2, <1>6 DEF TypeOK
    <2>7. kept' = kept \cup {o} /\ kept' \in SUBSET Objs
      BY <1>1, <1>6, <2>1 DEF TypeOK
    <2>8. Start(o) = NIL /\ Start(o)' = o
      BY <2>5, <2>7, StartOfObj
    <2>9. Start(w)' = NIL
      BY <1>2, <2>6, StartOfThread, IdleThread
    <2>10. ASSUME NEW i \in Keys \ {w, o}
           PROVE  Start(i)' = Start(i)
      <3>1. CASE i \in Objs
        BY <2>7, <2>10, <3>1, StartOfObj
      <3>2. CASE i \in Threads
        <4>1. Links' = Links
          BY <1>4 DEF Links
        <4>2. thr'[i] = thr[i]
          BY <2>6, <2>10, <3>2
        <4> QED
          BY <3>2, <4>1, <4>2, StartOfThread
      <3> QED
        BY <2>10, <3>1, <3>2 DEF Keys
    <2>11. ThreadOK(w)'
      BY <1>2, <2>6, IdleThread DEF ThreadOK, Resets
    <2>12. ~Answers(w)
      BY <1>1 DEF Answers
    <2>13. /\ Idle \in Thread /\ Idle.held = thr[w].held
           /\ Idle.pc \notin {"respond", "write", "next"}
      BY <1>3, IdleThread
    <2>14. \A i \in Keys \ {w, o, w} : Start(i)' = Start(i)
      BY <2>10
    <2>15. w \in {w, o} /\ {w, o} \ {w} \subseteq Objs
      OBVIOUS
    <2> QED
      BY <1>2, <1>4, <1>6, <2>2, <2>3, <2>7, <2>8, <2>9, <2>11, <2>12, <2>13, <2>14, <2>15, MoveStep
  <1> QED
    BY <1>5, <1>6 DEF np_process_request

LEMMA CompleteStep ==
    ASSUME NpSrvAssumption, IInv, NEW o \in Objs, Complete(o)
    PROVE  IInv'
  <1> DEFINE z == [Idle EXCEPT !.pc = "remove", !.req = o]
  <1>1. TypeOK /\ ChainInv /\ ThreadInv /\ thr[Service].pc = "idle" /\ o \in kept
    BY DEF IInv, Complete
  <1>2. Service \in Threads /\ Service # Reader /\ ThreadOK(Service) /\ Service \notin Objs
    BY <1>1 DEF Threads, ThreadInv, NpSrvAssumption
  <1>3. thr[Service].req = NIL /\ thr[Service].held = {}
    BY <1>1, <1>2 DEF ThreadOK
  <1>4. z \in Thread /\ z.pc = "remove" /\ z.req = o /\ z.held = {}
    BY DEF Idle, Thread
  <1>5. thr' = [thr EXCEPT ![Service] = z] /\ kept' = kept \ {o}
        /\ UNCHANGED <<srv, req, pool, reqs, work, conn, open>>
    BY DEF Complete
  <1> HIDE DEF z
  <1>6. thr'[Service] = z /\ \A v \in Threads \ {Service} : thr'[v] = thr[v]
    BY <1>1, <1>2, <1>5 DEF TypeOK
  <1>7. Service \in Keys /\ o \in Keys /\ o # Service
    BY <1>2 DEF Keys
  <1>8. Start(Service) = NIL /\ Start(Service)' = o
    BY <1>1, <1>2, <1>3, <1>4, <1>6, StartOfThread
  <1>9. Start(o) = o /\ Start(o)' = NIL
    BY <1>1, <1>5, StartOfObj
  <1>10. ASSUME NEW i \in Keys \ {o, Service}
         PROVE  Start(i)' = Start(i)
    <2>1. CASE i \in Objs
      BY <1>5, <1>10, <2>1, StartOfObj
    <2>2. CASE i \in Threads
      <3>1. Links' = Links
        BY <1>5 DEF Links
      <3>2. thr'[i] = thr[i]
        BY <1>6, <1>10, <2>2
      <3> QED
        BY <2>2, <3>1, <3>2, StartOfThread
    <2> QED
      BY <1>10, <2>1, <2>2 DEF Keys
  <1>11. ThreadOK(Service)'
    BY <1>2, <1>4, <1>6 DEF ThreadOK, Resets
  <1>12. ~Answers(Service)
    BY <1>1 DEF Answers
  <1>13. z.held = thr[Service].held /\ z.pc \notin {"respond", "write", "next"}
         /\ kept' \in SUBSET Objs
    BY <1>1, <1>3, <1>4, <1>5 DEF TypeOK
  <1>14. \A i \in Keys \ {o, Service, Service} : Start(i)' = Start(i)
    BY <1>10
  <1>15. Service \in {o, Service} /\ {o, Service} \ {Service} \subseteq Objs
    OBVIOUS
  <1> QED
    BY <1>2, <1>4, <1>5, <1>7, <1>8, <1>9, <1>11, <1>12, <1>13, <1>14, <1>15, MoveStep

\* What a sequence has without one of its elements, and with one more.
Without(s, t, h) == Elements(t) = Elements(s) \ {h}

With(s, t, h) == Elements(t) = Elements(s) \cup {h}

\* A sequence without its first element.
LEMMA SeqTail ==
    ASSUME NEW S, NEW s \in Seq(S), s # <<>>, \A i, j \in DOMAIN s : s[i] = s[j] => i = j,
           NEW t, t = Tail(s), NEW h, h = Head(s)
    PROVE  /\ h \in S /\ h \in Elements(s) /\ t \in Seq(S)
           /\ \A i, j \in DOMAIN t : t[i] = t[j] => i = j
           /\ Without(s, t, h)
  <1>1. PICK n \in Nat : n = Len(s) /\ DOMAIN s = 1..n
    BY LenProperties
  <1>2. n # 0 /\ h = s[1] /\ h \in S
    BY <1>1, EmptySeq, HeadTailProperties, ElementOfSeq
  <1>3. t \in Seq(S) /\ Len(t) = n - 1 /\ \A i \in 1..(n - 1) : t[i] = s[i + 1]
    BY <1>1, HeadTailProperties
  <1>4. DOMAIN t = 1..(n - 1)
    BY <1>3, LenProperties
  <1>5. ASSUME NEW i \in 1..(n - 1), NEW j \in 1..(n - 1), t[i] = t[j]
        PROVE  i = j
    <2>1. i + 1 \in 1..n /\ j + 1 \in 1..n /\ s[i + 1] = s[j + 1]
      BY <1>1, <1>3, <1>5
    <2>2. i + 1 = j + 1
      BY <1>1, <2>1
    <2> QED
      BY <2>2
  <1>6. \A x : x \in Elements(t) <=> \E i \in 1..(n - 1) : t[i] = x
    BY <1>4 DEF Elements
  <1>7. \A x : x \in Elements(s) <=> \E i \in 1..n : s[i] = x
    BY <1>1 DEF Elements
  <1>8. ASSUME NEW i \in 1..(n - 1)
        PROVE  t[i] \in Elements(s) /\ t[i] # h
    <2>1. i + 1 \in 1..n /\ t[i] = s[i + 1] /\ i + 1 # 1
      BY <1>1, <1>3
    <2> QED
      BY <1>1, <1>2, <1>7, <2>1
  <1>9. ASSUME NEW i \in 1..n, s[i] # h
        PROVE  s[i] \in Elements(t)
    <2>1. i - 1 \in 1..(n - 1) /\ (i - 1) + 1 = i
      BY <1>1, <1>2, <1>9
    <2> QED
      BY <1>3, <1>6, <2>1
  <1>10. Elements(t) = Elements(s) \ {h}
    <2>1. ASSUME NEW x \in Elements(t)
          PROVE  x \in Elements(s) \ {h}
      <3>1. PICK i \in 1..(n - 1) : t[i] = x
        BY <1>6, <2>1
      <3> QED
        BY <1>8, <3>1
    <2>2. ASSUME NEW x \in Elements(s) \ {h}
          PROVE  x \in Elements(t)
      <3>1. PICK i \in 1..n : s[i] = x
        BY <1>7, <2>2
      <3> QED
        BY <1>9, <2>2, <3>1
    <2> QED
      BY <2>1, <2>2
  <1>11. h \in Elements(s)
    BY <1>1, <1>2, <1>7
  <1> QED
    BY <1>2, <1>3, <1>4, <1>5, <1>10, <1>11 DEF Without

Taken(x, pc) == [Idle EXCEPT !.req = x, !.pc = pc]

LEMMA TakeStep ==
    ASSUME NpSrvAssumption, IInv, NEW w \in Workers, Take(w)
    PROVE  IInv'
  <1>1. TypeOK /\ ChainInv /\ QueueInv /\ AnsweredInv /\ ThreadInv /\ thr[w].pc = "idle"
    BY DEF IInv, Take
  <1>2. w \in Threads /\ w # Reader /\ ThreadOK(w) /\ w \notin Objs /\ w \in Keys
    BY <1>1, StartOfThread DEF Threads, ThreadInv, NpSrvAssumption
  <1>3. thr[w].req = NIL /\ thr[w].held = {}
    BY <1>1, <1>2 DEF ThreadOK
  <1>4. PICK x : x = Head(reqs)
    OBVIOUS
  <1>5. Queued = Elements(reqs) /\ Queued' = Elements(reqs')
    BY DEF Queued, Elements
  <1>6. /\ x \in Objs /\ x \in Queued /\ reqs' \in Seq(Objs)
        /\ \A i, j \in DOMAIN reqs' : reqs'[i] = reqs'[j] => i = j
        /\ Queued' = Queued \ {x}
    <2>1. PICK s \in Seq(Objs) : s = reqs
      BY <1>1 DEF TypeOK
    <2>2. s # <<>> /\ reqs' = Tail(s) /\ x = Head(s)
      BY <1>4, <2>1 DEF Take
    <2>3. \A i, j \in DOMAIN s : s[i] = s[j] => i = j
      BY <1>1, <2>1 DEF QueueInv
    <2>4. PICK t : t = Tail(s)
      OBVIOUS
    <2>5. /\ x \in Objs /\ x \in Elements(s) /\ t \in Seq(Objs)
          /\ \A i, j \in DOMAIN t : t[i] = t[j] => i = j
          /\ Elements(t) = Elements(s) \ {x}
      <3>1. x \in Objs /\ x \in Elements(s)
        BY <2>2, <2>3, <2>4, SeqTail
      <3>2. t \in Seq(Objs)
        BY <2>2, <2>3, <2>4, SeqTail
      <3>3. \A i, j \in DOMAIN t : t[i] = t[j] => i = j
        BY <2>2, <2>3, <2>4, SeqTail
      <3>4. Without(s, t, x)
        BY <2>2, <2>3, <2>4, SeqTail
      <3> QED
        BY <3>1, <3>2, <3>3, <3>4 DEF Without
    <2> QED
      BY <1>5, <2>1, <2>2, <2>4, <2>5
  <1>7. x # NIL /\ Links[x] = NIL /\ x \notin work \cup Chained
    BY <1>1, <1>6 DEF QueueInv, NpSrvAssumption
  <1>8. PICK pc : pc = CASE req[x].type = "io" -> "process"
                         [] req[x].type = "flush" -> "flush"
                         [] req[x].type = "version" -> "reset"
    OBVIOUS
  <1>9. pc \in {"process", "flush", "reset"}
    <2>1. req[x].type \in {"io", "flush", "version"}
      BY <1>1, <1>6 DEF TypeOK, Npreq
    <2> QED
      BY <1>8, <2>1
  <1>10. PICK z : z = Taken(x, pc)
    OBVIOUS
  <1>11. z \in Thread /\ z.pc = pc /\ z.req = x /\ z.held = {}
    BY <1>6, <1>9, <1>10 DEF Idle, Thread, Taken
  <1>12. thr' = [thr EXCEPT ![w] = z]
    <2>1. thr' = [thr EXCEPT ![w] = [Idle EXCEPT
                    !.req = Head(reqs),
                    !.pc = CASE req[Head(reqs)].type = "io" -> "process"
                             [] req[Head(reqs)].type = "flush" -> "flush"
                             [] req[Head(reqs)].type = "version" -> "reset"]]
      BY DEF Take
    <2>2. thr' = [thr EXCEPT ![w] = Taken(x, pc)]
      BY <1>4, <1>8, <2>1, Zenon DEF Taken
    <2> QED
      BY <1>10, <2>2
  <1>13. work' = work \cup {x} /\ UNCHANGED <<srv, req, pool, kept, conn, open>> /\ Links' = Links
    BY <1>4 DEF Take, Links
  <1>14. thr'[w] = z /\ \A v \in Threads \ {w} : thr'[v] = thr[v]
    BY <1>1, <1>2, <1>12 DEF TypeOK
  <1>15. TypeOK'
    BY <1>1, <1>6, <1>11, <1>12, <1>13 DEF TypeOK
  <1>16. ~Answers(w) /\ ~Answers(w)' /\ \A v \in Threads : Answers(v)' <=> Answers(v)
    BY <1>1, <1>9, <1>11, <1>14 DEF Answers
  <1>17. \A k \in Keys : Working(k)' <=> Working(k)
    BY <1>16 DEF Working, Keys
  <1>18. Start(w) = NIL /\ Start(w)' = x /\ Working(w)
    BY <1>1, <1>2, <1>3, <1>9, <1>11, <1>14, <1>16, StartOfThread
  <1>19. ASSUME NEW k \in Keys \ {w}
         PROVE  Start(k)' = Start(k) /\ Part(k)' = Part(k)
    <2>1. CASE k \in Objs
      BY <1>13, <2>1, StartOfObj DEF Part
    <2>2. CASE k \in Threads
      <3>1. thr'[k] = thr[k]
        BY <1>14, <1>19, <2>2
      <3> QED
        BY <1>13, <2>2, <3>1, StartOfThread DEF Part
    <2> QED
      BY <1>19, <2>1, <2>2 DEF Keys
  <1>20. Part(w) = {} /\ Part(w)' = {x}
    <2>1. Links \in LinkTable
      BY <1>1, LinksType
    <2> QED
      BY <1>6, <1>7, <1>13, <1>18, <2>1, ChainNil, ChainSingle DEF Part
  <1>21. Chained' = Chained \cup {x}
    <2>1. ASSUME NEW y \in Objs
          PROVE  (\E k \in Keys : y \in Part(k)') <=> (y = x \/ \E k \in Keys : y \in Part(k))
      BY <1>2, <1>19, <1>20
    <2> QED
      BY <1>6, <2>1 DEF Chained
  <1>22. \A k \in Keys : x \notin Part(k)
    BY <1>6, <1>7 DEF Chained
  <1>23. ChainInv'
    <2>1. \A k \in Keys : Start(k)' \in Objs \cup {NIL}
      BY <1>1, <1>6, <1>18, <1>19 DEF ChainInv
    <2>2. \A j, k \in Keys : j # k => Part(j)' \cap Part(k)' = {}
      <3>1. ASSUME NEW j \in Keys, NEW k \in Keys, j # k
            PROVE  Part(j)' \cap Part(k)' = {}
        <4>1. CASE j = w
          BY <1>19, <1>20, <1>22, <3>1, <4>1
        <4>2. CASE k = w
          BY <1>19, <1>20, <1>22, <3>1, <4>2
        <4>3. CASE j # w /\ k # w
          BY <1>1, <1>19, <3>1, <4>3 DEF ChainInv
        <4> QED
          BY <4>1, <4>2, <4>3
      <3> QED
        BY <3>1
    <2>3. \A k \in Keys : /\ Working(k)' => Part(k)' \subseteq work'
                          /\ ~Working(k)' => Part(k)' \cap work' = {}
      <3>1. ASSUME NEW k \in Keys
            PROVE  /\ Working(k)' => Part(k)' \subseteq work'
                   /\ ~Working(k)' => Part(k)' \cap work' = {}
        <4>1. CASE k = w
          BY <1>13, <1>17, <1>18, <1>20, <4>1
        <4>2. CASE k # w
          BY <1>1, <1>13, <1>17, <1>19, <1>22, <4>2 DEF ChainInv
        <4> QED
          BY <4>1, <4>2
      <3> QED
        BY <3>1
    <2>4. \A y \in Chained' : y \notin ChainOf(Links', Links'[y])
      BY <1>1, <1>7, <1>13, <1>21, ChainNil DEF ChainInv
    <2> QED
      BY <2>1, <2>2, <2>3, <2>4 DEF ChainInv
  <1>24. Pending' = Pending
    BY <1>6, <1>13, <1>21 DEF Pending
  <1>25. Final' = Final
    BY <1>14, <1>16 DEF Final
  <1>26. \A v \in Threads : thr'[v].held = thr[v].held
    BY <1>3, <1>11, <1>14
  <1>27. thr'[Reader].pc = thr[Reader].pc
    BY <1>2, <1>14 DEF Threads
  <1>28. CountInv' /\ PoolInv' /\ AnswerInv' /\ ListedInv' /\ ConnRefs'
    BY <1>13, <1>24, <1>25, <1>26, <1>27, CountsSame
  <1>29. QueueInv'
    <2>1. Queued' \cap (work' \cup Chained') = {}
      BY <1>1, <1>6, <1>13, <1>21 DEF QueueInv
    <2>2. (\A y \in Queued' : Links'[y] = NIL) /\ \A v \in Threads : thr'[v].held \cap Queued' = {}
      BY <1>1, <1>6, <1>13, <1>26 DEF QueueInv
    <2> QED
      BY <1>6, <2>1, <2>2 DEF QueueInv
  <1>30. ThreadInv'
    <2>1. ThreadOK(w)'
      BY <1>2, <1>6, <1>9, <1>11, <1>14 DEF ThreadOK, Resets
    <2>2. \A v \in Threads \ {w} : Still(v)
      BY <1>14 DEF Still
    <2> QED
      BY <1>1, <2>1, <2>2, StillOK DEF ThreadInv
  <1>31. ASSUME NEW v \in Threads, Answers(v)'
         PROVE  AnsweredOK(v)'
    <2>1. Answers(v) /\ v # w /\ thr'[v] = thr[v] /\ AnsweredOK(v)
      BY <1>1, <1>14, <1>16, <1>31 DEF AnsweredInv
    <2>2. thr'[v].req \notin Queued' \cup work' /\ thr[v].req # x
      BY <1>6, <1>13, <2>1 DEF AnsweredOK
    <2>3. \A i \in Keys : thr'[v].req \in Part(i)' =>
              i = v /\ thr'[v].cur = thr'[v].req /\ thr'[v].pc # "next"
      BY <1>19, <1>20, <2>1, <2>2 DEF AnsweredOK
    <2>4. \A t \in Threads : Answers(t)' /\ thr'[t].req = thr'[v].req => t = v
      BY <1>14, <1>16, <2>1 DEF AnsweredOK
    <2> QED
      BY <1>24, <2>1, <2>2, <2>3, <2>4 DEF AnsweredOK
  <1> QED
    BY <1>15, <1>23, <1>28, <1>29, <1>30, <1>31 DEF IInv, AnsweredInv

\* np_respond takes its request out of srv->workreqs, and all of its chain.
LEMMA RespondRemoveStep ==
    ASSUME NpSrvAssumption, IInv, NEW w \in Threads, np_respond_remove(w)
    PROVE  IInv'
  <1>1. TypeOK /\ ChainInv /\ QueueInv /\ AnsweredInv /\ ThreadInv /\ thr[w].pc = "remove"
    BY DEF IInv, np_respond_remove
  <1>2. ThreadOK(w) /\ w \notin Objs /\ w \in Keys /\ w # Reader
    BY <1>1, StartOfThread DEF ThreadInv, ThreadOK, Resets
  <1>3. PICK o \in Objs : o = thr[w].req
    BY <1>1, <1>2 DEF ThreadOK
  <1>4. Start(w) = o /\ Working(w) /\ ~Answers(w) /\ o # NIL
    BY <1>1, <1>3, StartOfThread DEF Answers, NpSrvAssumption
  <1>5. Part(w) = Chain(o) /\ o \in Part(w) /\ Part(w) \subseteq work
    BY <1>1, <1>2, <1>4, ChainsOfLinks, PartFacts DEF Part, ChainInv
  <1>6. work' = work \ Part(w) /\ UNCHANGED <<srv, req, pool, reqs, kept, conn, open>>
        /\ Links' = Links
    BY <1>3, <1>5 DEF np_respond_remove, Removed, Links
  <1>7. thr \in [Threads -> Thread]
    BY <1>1 DEF TypeOK
  <1>8. PICK x \in Thread : x = thr[w]
    BY <1>7
  <1>9. PICK z : z = [x EXCEPT !.pc = "respond", !.cur = o]
    OBVIOUS
  <1>10. z \in Thread /\ z.pc = "respond" /\ z.req = o /\ z.cur = o /\ z.held = x.held
    BY <1>3, <1>8, <1>9 DEF Thread
  <1>11. thr' = [thr EXCEPT ![w].pc = "respond", ![w].cur = o]
    BY <1>3 DEF np_respond_remove
  <1>12. thr'[w] = z /\ (\A v \in Threads \ {w} : thr'[v] = thr[v]) /\ thr' \in [Threads -> Thread]
    BY <1>7, <1>8, <1>9, <1>10, <1>11
  <1>13. TypeOK'
    BY <1>1, <1>6, <1>12 DEF TypeOK
  <1>14. Answers(w)' /\ \A v \in Threads \ {w} : Answers(v)' <=> Answers(v)
    BY <1>10, <1>12 DEF Answers
  <1>15. ~Working(w)' /\ \A k \in Keys \ {w} : Working(k)' <=> Working(k)
    BY <1>2, <1>14 DEF Working, Keys
  <1>16. ASSUME NEW k \in Keys
         PROVE  Start(k)' = Start(k) /\ Part(k)' = Part(k)
    <2>1. CASE k \in Objs
      BY <1>6, <2>1, StartOfObj DEF Part
    <2>2. CASE k \in Threads /\ k # w
      <3>1. thr'[k] = thr[k]
        BY <1>12, <2>2
      <3> QED
        BY <1>6, <2>2, <3>1, StartOfThread DEF Part
    <2>3. CASE k = w
      <3>1. Start(w)' = o
        BY <1>10, <1>12, StartOfThread
      <3> QED
        BY <1>4, <1>6, <2>3, <3>1 DEF Part
    <2> QED
      BY <2>1, <2>2, <2>3 DEF Keys
  <1>17. Chained' = Chained /\ Queued' = Queued
    BY <1>6, <1>16 DEF Chained, Queued
  <1>18. ChainInv'
    <2>1. \A k \in Keys : Start(k)' \in Objs \cup {NIL}
      BY <1>1, <1>16 DEF ChainInv
    <2>2. \A j, k \in Keys : j # k => Part(j)' \cap Part(k)' = {}
      BY <1>1, <1>16 DEF ChainInv
    <2>3. ASSUME NEW k \in Keys
          PROVE  /\ Working(k)' => Part(k)' \subseteq work'
                 /\ ~Working(k)' => Part(k)' \cap work' = {}
      <3>1. CASE k = w
        BY <1>6, <1>15, <1>16, <3>1
      <3>2. CASE k # w
        <4>1. Part(k) \cap Part(w) = {}
          BY <1>1, <1>2, <3>2 DEF ChainInv
        <4> QED
          BY <1>1, <1>6, <1>15, <1>16, <3>2, <4>1 DEF ChainInv
      <3> QED
        BY <3>1, <3>2
    <2>4. \A y \in Chained' : y \notin ChainOf(Links', Links'[y])
      BY <1>1, <1>6, <1>17 DEF ChainInv
    <2> QED
      BY <2>1, <2>2, <2>3, <2>4 DEF ChainInv
  <1>19. Part(w) \subseteq Chained
    BY <1>1, <1>2, PartFacts
  <1>20. Pending' = Pending
    BY <1>6, <1>17, <1>19 DEF Pending
  <1>21. Pending \cup Final' = Pending \cup Final
    <2>1. o \in Pending
      BY <1>5, <1>19 DEF Pending
    <2>2. \A y : y \in Final' <=> y \in Final \/ y = o
      BY <1>3, <1>4, <1>10, <1>12, <1>14 DEF Final
    <2> QED
      BY <2>1, <2>2
  <1>22. \A v \in Threads : thr'[v].held = thr[v].held
    BY <1>8, <1>10, <1>12
  <1>23. thr'[Reader].pc = thr[Reader].pc
    BY <1>2, <1>12 DEF Threads
  <1>24. CountInv' /\ PoolInv' /\ AnswerInv' /\ ListedInv' /\ ConnRefs'
    BY <1>6, <1>20, <1>21, <1>22, <1>23, CountsSame
  <1>25. QueueInv'
    BY <1>1, <1>6, <1>17, <1>22 DEF QueueInv
  <1>26. ThreadInv'
    <2>1. ThreadOK(w)'
      BY <1>1, <1>2, <1>8, <1>10, <1>12 DEF ThreadOK, Resets
    <2>2. \A v \in Threads \ {w} : Still(v)
      BY <1>12 DEF Still
    <2> QED
      BY <1>1, <2>1, <2>2, StillOK DEF ThreadInv
  <1>27. \A v \in Threads \ {w} : Answers(v) => thr[v].req # o
    BY <1>1, <1>5 DEF AnsweredInv, AnsweredOK
  <1>28. AnsweredOK(w)'
    <2>1. thr'[w].req \notin Queued' \cup work'
      BY <1>1, <1>5, <1>6, <1>10, <1>12, <1>17 DEF QueueInv
    <2>2. \A k \in Keys : thr'[w].req \in Part(k)' => k = w
      BY <1>1, <1>2, <1>5, <1>10, <1>12, <1>16 DEF ChainInv
    <2>3. \A v \in Threads : Answers(v)' /\ thr'[v].req = thr'[w].req => v = w
      BY <1>10, <1>12, <1>14, <1>27
    <2> QED
      BY <1>10, <1>12, <2>1, <2>2, <2>3 DEF AnsweredOK
  <1>29. ASSUME NEW v \in Threads \ {w}, Answers(v)'
         PROVE  AnsweredOK(v)'
    <2>1. Answers(v) /\ thr'[v] = thr[v] /\ AnsweredOK(v)
      BY <1>1, <1>12, <1>14, <1>29 DEF AnsweredInv
    <2>2. thr'[v].req \notin Queued' \cup work'
      BY <1>6, <1>17, <2>1 DEF AnsweredOK
    <2>3. \A i \in Keys : thr'[v].req \in Part(i)' =>
              i = v /\ thr'[v].cur = thr'[v].req /\ thr'[v].pc # "next"
      BY <1>16, <2>1 DEF AnsweredOK
    <2>4. \A t \in Threads : Answers(t)' /\ thr'[t].req = thr'[v].req => t = v
      BY <1>10, <1>12, <1>14, <1>27, <2>1 DEF AnsweredOK
    <2> QED
      BY <1>20, <2>1, <2>2, <2>3, <2>4 DEF AnsweredOK
  <1> QED
    BY <1>13, <1>18, <1>24, <1>25, <1>26, <1>28, <1>29 DEF IInv, AnsweredInv

\* What is behind a request of a chain is in the chain.
LEMMA ChainTail ==
    ASSUME NpSrvAssumption, NEW L \in LinkTable, NEW s, NEW y \in ChainOf(L, s)
    PROVE  /\ y \in Objs /\ ChainOf(L, y) \subseteq ChainOf(L, s)
           /\ ChainOf(L, L[y]) \subseteq ChainOf(L, s)
  <1> DEFINE C == ChainOf(L, s)
  <1>1. C \in SUBSET Objs /\ LinkedIn(L, C) /\ y \in C
    BY ChainObjs, ChainLinked
  <1> HIDE DEF C
  <1>2. ChainOf(L, y) \subseteq C
    BY <1>1, ChainLeast
  <1>3. ChainOf(L, y) = {y} \cup ChainOf(L, L[y])
    BY <1>1, ChainSplit
  <1> QED
    BY <1>1, <1>2, <1>3 DEF C

\* np_flush puts r behind o: of the chains r is not in, that of o has it then.
LEMMA ChainPut ==
    ASSUME NpSrvAssumption, NEW L \in LinkTable, NEW M \in LinkTable, NEW s \in Objs \cup {NIL},
           NEW o \in Objs, NEW r \in Objs, r \notin ChainOf(L, s),
           \A y \in ChainOf(L, s) : y \notin ChainOf(L, L[y]),
           o \in ChainOf(L, s) => M[o] = r /\ M[r] = L[o],
           \A x \in Objs \ {o, r} : M[x] = L[x]
    PROVE  /\ ChainOf(M, s) = ChainOf(L, s) \cup (IF o \in ChainOf(L, s) THEN {r} ELSE {})
           /\ \A y \in ChainOf(M, s) : y \notin ChainOf(M, M[y])
  <1>1. ASSUME NEW t \in Objs \cup {NIL}, o \notin ChainOf(L, t), r \notin ChainOf(L, t)
        PROVE  ChainOf(M, t) = ChainOf(L, t)
    <2>1. \A x \in ChainOf(L, t) : M[x] = L[x]
      BY <1>1, ChainObjs
    <2> QED
      BY <2>1, ChainSame
  <1>2. ASSUME NEW t \in Objs \cup {NIL}, o \in ChainOf(L, t), r \notin ChainOf(L, t),
               M[o] = r, M[r] = L[o]
        PROVE  ChainOf(M, t) = ChainOf(L, t) \cup {r}
    <2> DEFINE C == ChainOf(L, t)
               D == ChainOf(M, t)
    <2>1. t \in Objs
      BY <1>2, ChainNil
    <2>2. C \in SUBSET Objs /\ LinkedIn(L, C) /\ t \in C
      BY <2>1, ChainObjs, ChainLinked, ChainHead
    <2>3. D \in SUBSET Objs /\ LinkedIn(M, D) /\ t \in D
      BY <2>1, ChainObjs, ChainLinked, ChainHead
    <2>4. o \in C /\ r \notin C
      BY <1>2
    <2> HIDE DEF C
    <2>5. \A x \in C : L[x] \in C \cup {NIL}
      BY <2>2 DEF LinkedIn
    <2>6. LinkedIn(M, C \cup {r})
      <3>1. ASSUME NEW x \in C \cup {r}
            PROVE  M[x] \in (C \cup {r}) \cup {NIL}
        <4>1. CASE x \in {o, r}
          BY <1>2, <2>4, <2>5, <4>1
        <4>2. CASE x \notin {o, r}
          BY <2>2, <2>5, <4>2
        <4> QED
          BY <4>1, <4>2
      <3> QED
        BY <3>1 DEF LinkedIn
    <2>7. D \subseteq C \cup {r}
      BY <2>2, <2>6, ChainLeast
    <2> HIDE DEF D
    <2>8. \A x \in D : M[x] \in D \cup {NIL}
      BY <2>3 DEF LinkedIn
    <2>9. LinkedIn(L, D \ {r})
      <3>1. ASSUME NEW x \in D \ {r}
            PROVE  L[x] \in (D \ {r}) \cup {NIL}
        <4>1. x \in C /\ L[x] \in C \cup {NIL} /\ r # NIL
          BY <2>5, <2>7 DEF NpSrvAssumption
        <4>2. L[x] # r
          BY <2>4, <4>1
        <4>3. L[x] \in D \cup {NIL}
          <5>1. CASE x = o
            <6>1. r \in D
              BY <1>2, <2>8, <4>1, <5>1
            <6> QED
              BY <1>2, <2>8, <5>1, <6>1
          <5>2. CASE x # o
            <6>1. M[x] = L[x]
              BY <2>3, <5>2
            <6> QED
              BY <2>8, <6>1
          <5> QED
            BY <5>1, <5>2
        <4> QED
          BY <4>2, <4>3
      <3> QED
        BY <3>1 DEF LinkedIn
    <2>10. t # r /\ D \ {r} \in SUBSET Objs
      BY <2>2, <2>3, <2>4
    <2>11. ChainOf(L, t) \subseteq D \ {r}
      BY <2>3, <2>9, <2>10, ChainLeast
    <2>12. r \in D
      <3>1. o \in D /\ r # NIL
        BY <1>2, <2>11 DEF NpSrvAssumption
      <3> QED
        BY <1>2, <2>8, <3>1
    <2> QED
      BY <2>7, <2>11, <2>12 DEF C, D
  <1>3. ChainOf(M, s) = ChainOf(L, s) \cup (IF o \in ChainOf(L, s) THEN {r} ELSE {})
    BY <1>1, <1>2
  <1>4. ASSUME NEW y \in ChainOf(L, s)
        PROVE  y \notin ChainOf(M, M[y])
    <2>1. /\ y \in Objs /\ y # r /\ L[y] \in Objs \cup {NIL}
          /\ ChainOf(L, L[y]) \subseteq ChainOf(L, s) /\ y \notin ChainOf(L, L[y])
      BY ChainTail DEF LinkTable
    <2>2. r \notin ChainOf(L, L[y])
      BY <2>1
    <2>3. CASE y = o
      <3>1. M[y] = r /\ M[r] = L[y]
        BY <2>3
      <3>2. ChainOf(M, L[y]) = ChainOf(L, L[y])
        BY <1>1, <2>1, <2>2, <2>3
      <3>3. ChainOf(M, r) = {r} \cup ChainOf(M, L[y])
        BY <3>1, ChainSplit
      <3> QED
        BY <2>1, <3>1, <3>2, <3>3
    <2>4. CASE y # o /\ o \in ChainOf(L, L[y])
      <3>1. M[y] = L[y] /\ M[o] = r /\ M[r] = L[o]
        BY <2>1, <2>4
      <3>2. ChainOf(M, L[y]) = ChainOf(L, L[y]) \cup {r}
        BY <1>2, <2>1, <2>2, <2>4, <3>1
      <3> QED
        BY <2>1, <3>1, <3>2
    <2>5. CASE y # o /\ o \notin ChainOf(L, L[y])
      <3>1. M[y] = L[y]
        BY <2>1, <2>5
      <3>2. ChainOf(M, L[y]) = ChainOf(L, L[y])
        BY <1>1, <2>1, <2>2, <2>5
      <3> QED
        BY <2>1, <3>1, <3>2
    <2> QED
      BY <2>3, <2>4, <2>5
  <1>5. ASSUME o \in ChainOf(L, s)
        PROVE  r \notin ChainOf(M, M[r])
    <2>1. /\ L[o] \in Objs \cup {NIL} /\ M[r] = L[o]
          /\ ChainOf(L, L[o]) \subseteq ChainOf(L, s) /\ o \notin ChainOf(L, L[o])
      BY <1>5, ChainTail DEF LinkTable
    <2>2. r \notin ChainOf(L, L[o])
      BY <2>1
    <2>3. ChainOf(M, L[o]) = ChainOf(L, L[o])
      BY <1>1, <2>1, <2>2
    <2> QED
      BY <2>1, <2>2, <2>3
  <1> QED
    BY <1>3, <1>4, <1>5

\* The structures when np_flush puts r behind o.
Put(o, r) ==
    req' = [req EXCEPT ![r].flushreq = req[o].flushreq,
                       ![o] = [np_req_ref(o) EXCEPT !.flushreq = r]]

LEMMA PutFields ==
    ASSUME NpSrvAssumption, TypeOK, NEW o \in Objs, NEW r \in Objs, Put(o, r)
    PROVE  /\ req' \in [Objs -> Npreq] /\ Links' \in LinkTable
           /\ Links'[o] = r /\ (o # r => Links'[r] = Links[o])
           /\ \A x \in Objs \ {o, r} : Links'[x] = Links[x]
           /\ \A x \in Objs : /\ req'[x].refcount = req[x].refcount + Bit(x = o)
                              /\ req'[x].answers = req[x].answers
  <1>1. req \in [Objs -> Npreq]
    BY DEF TypeOK
  <1>2. PICK a \in Objs \cup {NIL} : a = req[o].flushreq
    BY <1>1 DEF Npreq
  <1>3. PICK x \in Npreq : x = np_req_ref(o)
    BY RefFields
  <1>4. x.refcount = req[o].refcount + 1 /\ x.answers = req[o].answers
    BY <1>3, RefFields
  <1>5. PICK y : y = [x EXCEPT !.flushreq = r]
    OBVIOUS
  <1>6. y \in Npreq /\ y.flushreq = r /\ y.refcount = x.refcount /\ y.answers = x.answers
    BY <1>5 DEF Npreq
  <1>7. req' = [req EXCEPT ![r].flushreq = a, ![o] = y]
    BY <1>2, <1>3, <1>5 DEF Put
  <1>8. PICK u \in Npreq : u = req[r]
    BY <1>1
  <1>9. PICK z : z = [u EXCEPT !.flushreq = a]
    OBVIOUS
  <1>10. z \in Npreq /\ z.flushreq = a /\ z.refcount = u.refcount /\ z.answers = u.answers
    BY <1>9 DEF Npreq
  <1>11. /\ req'[o] = y /\ (o # r => req'[r] = z) /\ \A e \in Objs \ {o, r} : req'[e] = req[e]
         /\ DOMAIN req' = Objs /\ req' = [e \in Objs |-> req'[e]]
    BY <1>1, <1>7, <1>8, <1>9
  <1>12. req' \in [Objs -> Npreq]
    <2>1. \A e \in Objs : req'[e] \in Npreq
      BY <1>1, <1>6, <1>10, <1>11
    <2> QED
      BY <1>11, <2>1
  <1>13. /\ Links'[o] = r /\ (o # r => Links'[r] = Links[o])
         /\ \A e \in Objs \ {o, r} : Links'[e] = Links[e]
    BY <1>2, <1>6, <1>10, <1>11 DEF Links
  <1>14. Links' \in LinkTable
    BY <1>12 DEF Links, LinkTable, Npreq
  <1>15. ASSUME NEW e \in Objs
         PROVE  req'[e].refcount = req[e].refcount + Bit(e = o) /\ req'[e].answers = req[e].answers
    <2>1. CASE e = o
      BY <1>4, <1>6, <1>11, <2>1 DEF Bit
    <2>2. CASE e # o
      <3>1. req'[e].refcount = req[e].refcount /\ req'[e].answers = req[e].answers
        BY <1>8, <1>10, <1>11, <2>2
      <3>2. req[e].refcount \in Nat
        BY <1>1 DEF Npreq
      <3> QED
        BY <2>2, <3>1, <3>2 DEF Bit
    <2> QED
      BY <2>1, <2>2
  <1> QED
    BY <1>12, <1>13, <1>14, <1>15

Flushing(o) == [Idle EXCEPT !.pc = "flushed", !.held = {o}]

\* np_flush puts its request behind a working one.
LEMMA FlushWorkingStep ==
    ASSUME NpSrvAssumption, IInv, NEW w \in Threads, thr[w].pc = "flush",
           NEW r, r = thr[w].req, NEW o \in work, Put(o, r),
           NEW z, z = Flushing(o), thr' = [thr EXCEPT ![w] = z],
           UNCHANGED <<srv, pool, reqs, work, kept, conn, open>>
    PROVE  IInv'
  <1>1. TypeOK /\ ChainInv /\ QueueInv /\ AnsweredInv /\ ThreadInv /\ CountInv /\ PoolInv
        /\ AnswerInv /\ ListedInv /\ ConnRefs
    BY DEF IInv
  <1>2. ThreadOK(w) /\ w \notin Objs /\ w \in Keys /\ w # Reader
    BY <1>1, StartOfThread DEF ThreadInv, ThreadOK, Resets
  <1>3. r \in Objs /\ o \in Objs /\ r # NIL /\ thr[w].held = {}
    BY <1>1, <1>2 DEF ThreadOK, TypeOK, NpSrvAssumption
  <1>4. z \in Thread /\ z.pc = "flushed" /\ z.held = {o} /\ z.req = NIL
    BY <1>3 DEF Idle, Thread, Flushing
  <1>5. thr'[w] = z /\ (\A v \in Threads \ {w} : thr'[v] = thr[v]) /\ thr' \in [Threads -> Thread]
    BY <1>1, <1>4 DEF TypeOK
  <1>6. /\ req' \in [Objs -> Npreq] /\ Links' \in LinkTable
        /\ Links'[o] = r /\ (o # r => Links'[r] = Links[o])
        /\ \A x \in Objs \ {o, r} : Links'[x] = Links[x]
        /\ \A x \in Objs : /\ req'[x].refcount = req[x].refcount + Bit(x = o)
                           /\ req'[x].answers = req[x].answers
    BY <1>1, <1>3, PutFields
  <1>7. TypeOK'
    BY <1>1, <1>5, <1>6 DEF TypeOK
  <1>8. ~Answers(w) /\ ~Answers(w)' /\ \A v \in Threads : Answers(v)' <=> Answers(v)
    BY <1>4, <1>5 DEF Answers
  <1>9. \A k \in Keys : Working(k)' <=> Working(k)
    BY <1>8 DEF Working, Keys
  <1>10. Start(w) = r /\ Working(w) /\ Start(w)' = NIL
    BY <1>4, <1>5, <1>8, StartOfThread
  <1>11. Part(w) \subseteq work /\ r \in Part(w) /\ Part(w)' = {}
    BY <1>1, <1>2, <1>3, <1>10, PartFacts, ChainNil DEF ChainInv, Part
  <1>12. \A v \in Threads : thr[v].pc = "next" => thr[v].cur \in Objs \ {o, r}
    <2>1. o \in Pending /\ r \in Pending
      BY <1>11 DEF Pending
    <2> QED
      BY <1>1, <2>1 DEF AnsweredInv, AnsweredOK, Answers
  <1>13. ASSUME NEW k \in Keys \ {w}
         PROVE  /\ Start(k)' = Start(k) /\ r \notin Part(k)
                /\ Part(k)' = Part(k) \cup (IF o \in Part(k) THEN {r} ELSE {})
                /\ \A y \in Part(k)' : y \notin ChainOf(Links', Links'[y])
    <2>1. Start(k)' = Start(k)
      <3>1. CASE k \in Objs
        BY <3>1, StartOfObj
      <3>2. CASE k \in Threads
        <4>1. thr'[k] = thr[k]
          BY <1>5, <1>13, <3>2
        <4> QED
          BY <1>6, <1>12, <3>2, <4>1, StartOfThread
      <3> QED
        BY <1>13, <3>1, <3>2 DEF Keys
    <2>2. r \notin Part(k)
      BY <1>1, <1>2, <1>11, <1>13 DEF ChainInv
    <2>3. \A y \in Part(k) : y \notin ChainOf(Links, Links[y])
      BY <1>1, <1>13, PartFacts DEF ChainInv
    <2>4. PICK s \in Objs \cup {NIL} : s = Start(k)
      BY <1>1, <1>13 DEF ChainInv
    <2>5. Part(k) = ChainOf(Links, s) /\ Part(k)' = ChainOf(Links', s)
      BY <2>1, <2>4 DEF Part
    <2>6. Links \in LinkTable
      BY <1>1, LinksType
    <2>7. o \in ChainOf(Links, s) => Links'[o] = r /\ Links'[r] = Links[o]
      BY <1>6, <2>2, <2>5
    <2>8. /\ ChainOf(Links', s)
                = ChainOf(Links, s) \cup (IF o \in ChainOf(Links, s) THEN {r} ELSE {})
          /\ \A y \in ChainOf(Links', s) : y \notin ChainOf(Links', Links'[y])
      BY <1>3, <1>6, <2>2, <2>3, <2>5, <2>6, <2>7, ChainPut
    <2> QED
      BY <2>1, <2>2, <2>5, <2>8
  <1>14. ChainInv'
    <2>1. \A k \in Keys : Start(k)' \in Objs \cup {NIL}
      BY <1>1, <1>10, <1>13 DEF ChainInv
    <2>2. \A j, k \in Keys : j # k => Part(j)' \cap Part(k)' = {}
      <3>1. ASSUME NEW j \in Keys, NEW k \in Keys, j # k
            PROVE  Part(j)' \cap Part(k)' = {}
        <4>1. CASE j = w \/ k = w
          BY <1>11, <4>1
        <4>2. CASE j # w /\ k # w
          <5>1. Part(j) \cap Part(k) = {}
            BY <1>1, <3>1 DEF ChainInv
          <5> QED
            BY <1>13, <4>2, <5>1
        <4> QED
          BY <4>1, <4>2
      <3> QED
        BY <3>1
    <2>3. ASSUME NEW k \in Keys
          PROVE  /\ Working(k)' => Part(k)' \subseteq work'
                 /\ ~Working(k)' => Part(k)' \cap work' = {}
      <3>1. CASE k = w
        BY <1>11, <3>1
      <3>2. CASE k # w
        <4>1. /\ Working(k) => Part(k) \subseteq work
              /\ ~Working(k) => Part(k) \cap work = {}
          BY <1>1 DEF ChainInv
        <4> QED
          BY <1>9, <1>11, <1>13, <3>2, <4>1
      <3> QED
        BY <3>1, <3>2
    <2>4. ASSUME NEW y \in Chained'
          PROVE  y \notin ChainOf(Links', Links'[y])
      <3>1. PICK k \in Keys : y \in Part(k)'
        BY DEF Chained
      <3>2. k # w
        BY <1>11, <3>1
      <3> QED
        BY <1>13, <3>1, <3>2
    <2> QED
      BY <2>1, <2>2, <2>3, <2>4 DEF ChainInv
  <1>15. Queued' = Queued /\ Pending' = Pending /\ Chained' \subseteq Chained \cup work
    <2>1. Queued' = Queued
      BY DEF Queued
    <2>2. \A y \in Objs : y \in Chained' => y \in Chained \/ y = r
      BY <1>11, <1>13 DEF Chained
    <2>3. \A y \in Objs : y \in Chained => y \in Chained' \/ y \in work
      BY <1>11, <1>13 DEF Chained
    <2>4. Chained \subseteq Objs /\ Chained' \subseteq Objs
      BY DEF Chained
    <2> QED
      BY <1>11, <2>1, <2>2, <2>3, <2>4 DEF Pending
  <1>16. Final' = Final
    BY <1>5, <1>8 DEF Final
  <1>17. CountInv'
    <2>1. ASSUME NEW x \in Objs
          PROVE  req'[x].refcount = Holding(x)'
      <3>1. Cardinality(HeldBy(x)') = Cardinality(HeldBy(x)) + Bit(x = o)
        BY <1>3, <1>4, <1>5, HeldMore DEF Bit
      <3>2. req[x].refcount = Cardinality(HeldBy(x)) + Bit(x \in Pending \cup Final)
        BY <1>1 DEF CountInv, Holding, Bit
      <3>3. Holding(x)' = Cardinality(HeldBy(x)') + Bit(x \in Pending \cup Final)
        BY <1>15, <1>16 DEF Holding, Bit
      <3>4. PICK h \in Nat, a \in Nat, b \in Nat :
                h = Cardinality(HeldBy(x)) /\ a = Bit(x = o) /\ b = Bit(x \in Pending \cup Final)
        BY HeldByFinite DEF Bit
      <3> QED
        BY <1>6, <3>1, <3>2, <3>3, <3>4
    <2> QED
      BY <2>1 DEF CountInv
  <1>18. Live' = Live
    BY DEF Live
  <1>19. PoolInv'
    <2>1. req[o].refcount # 0
      <3>1. o \in Pending
        BY DEF Pending
      <3> QED
        BY <1>1, <1>3, <3>1, Counted
    <2>2. \A x \in Objs : req[x].refcount \in Nat
      BY <1>1 DEF TypeOK, Npreq
    <2>3. \A x \in Objs : req'[x].refcount # 0 <=> req[x].refcount # 0
      BY <1>6, <2>1, <2>2 DEF Bit
    <2> QED
      BY <1>1, <1>18, <2>3 DEF PoolInv
  <1>20. AnswerInv'
    <2>1. \A x \in Live : x \in Objs
      BY DEF Live
    <2> QED
      BY <1>1, <1>6, <1>15, <1>18, <2>1 DEF AnswerInv
  <1>21. ListedInv' /\ ConnRefs'
    <2>1. thr'[Reader] = thr[Reader]
      BY <1>2, <1>5 DEF Threads
    <2> QED
      BY <1>1, <1>18, <2>1 DEF ListedInv, ConnRefs
  <1>22. QueueInv'
    <2>1. \A x \in Queued : x \notin work /\ x \in Objs /\ Links[x] = NIL
      BY <1>1 DEF QueueInv, Queued, TypeOK
    <2>2. \A x \in Queued' : Links'[x] = NIL
      BY <1>6, <1>11, <1>15, <2>1
    <2>3. Queued' \cap (work' \cup Chained') = {}
      BY <1>1, <1>15, <2>1 DEF QueueInv
    <2>4. \A v \in Threads : thr'[v].held \cap Queued' = {}
      BY <1>1, <1>4, <1>5, <1>15, <2>1 DEF QueueInv
    <2> QED
      BY <1>1, <2>2, <2>3, <2>4 DEF QueueInv
  <1>23. ThreadInv'
    <2>1. ThreadOK(w)'
      BY <1>2, <1>4, <1>5 DEF ThreadOK, Resets
    <2>2. \A v \in Threads \ {w} : Still(v)
      BY <1>5 DEF Still
    <2> QED
      BY <1>1, <2>1, <2>2, StillOK DEF ThreadInv
  <1>24. ASSUME NEW v \in Threads, Answers(v)'
         PROVE  AnsweredOK(v)'
    <2>1. Answers(v) /\ v # w /\ thr'[v] = thr[v] /\ AnsweredOK(v)
      BY <1>1, <1>5, <1>8, <1>24 DEF AnsweredInv
    <2>2. thr[v].req \notin Queued \cup work /\ thr[v].req # r
      BY <1>11, <2>1 DEF AnsweredOK
    <2>3. ASSUME NEW i \in Keys, thr[v].req \in Part(i)'
          PROVE  thr[v].req \in Part(i)
      BY <1>11, <1>13, <2>2, <2>3
    <2>4. \A i \in Keys : thr'[v].req \in Part(i)' =>
              i = v /\ thr'[v].cur = thr'[v].req /\ thr'[v].pc # "next"
      BY <2>1, <2>3 DEF AnsweredOK
    <2>5. \A t \in Threads : Answers(t)' /\ thr'[t].req = thr'[v].req => t = v
      BY <1>5, <1>8, <2>1 DEF AnsweredOK
    <2> QED
      BY <1>15, <2>1, <2>2, <2>4, <2>5 DEF AnsweredOK
  <1> QED
    BY <1>7, <1>14, <1>17, <1>19, <1>20, <1>21, <1>22, <1>23, <1>24 DEF IInv, AnsweredInv

LEMMA PoolSame ==
    ASSUME TypeOK, pool' = pool
    PROVE  pool' = SetToSeq(Freed({})) \o pool
  <1>1. Freed({}) = {}
    BY DEF Freed
  <1>2. SetToSeq({}) = <<>>
    BY SetSeq, FS_EmptySet
  <1>3. pool \in Seq(Objs)
    BY DEF TypeOK
  <1>4. <<>> \o pool = pool
    BY <1>3
  <1> QED
    BY <1>1, <1>2, <1>4

\* The structures when the reply of request o is written, and those of S lose a reference.
Written(o, S) ==
    /\ req' \in [Objs -> Npreq] /\ Links' = Links
    /\ pool' = SetToSeq(Freed(S)) \o pool
    /\ req'[o].refcount = req[o].refcount - (IF o \in S THEN 1 ELSE 0)
    /\ req'[o].answers = req[o].answers + 1
    /\ \A x \in Objs \ {o} : /\ req'[x].refcount = req[x].refcount
                            /\ req'[x].answers = req[x].answers

LEMMA AnsweredFields ==
    ASSUME NpSrvAssumption, TypeOK, PoolInv, NEW w \in Threads, Answered(w),
           NEW o \in Objs, o = thr[w].cur, req[o].refcount # 0,
           NEW S, S = {o} \ {thr[w].req}
    PROVE  Written(o, S)
  <1>1. req \in [Objs -> Npreq]
    BY DEF TypeOK
  <1>2. \A x \in Objs : req[x].refcount \in Nat /\ req[x].answers \in Nat
    BY <1>1 DEF Npreq
  <1>3. PICK y \in Npreq : req' = [req EXCEPT ![o] = y] /\ y.flushreq = req[o].flushreq
                           /\ y.refcount = req[o].refcount - Bit(o \in S)
                           /\ y.answers = req[o].answers + 1
    <2>1. CASE o = thr[w].req
      <3>1. req' = [req EXCEPT ![o].answers = @ + 1]
        BY <2>1 DEF Answered
      <3>2. PICK x \in Npreq : x = req[o]
        BY <1>1
      <3>3. PICK n \in Nat : n = x.answers + 1
        BY DEF Npreq
      <3>4. PICK y : y = [x EXCEPT !.answers = n]
        OBVIOUS
      <3>5. y \in Npreq /\ y.flushreq = x.flushreq /\ y.refcount = x.refcount /\ y.answers = n
        BY <3>4 DEF Npreq
      <3>6. req' = [req EXCEPT ![o] = y]
        BY <1>1, <3>1, <3>2, <3>3, <3>4
      <3>7. x.refcount = x.refcount - Bit(o \in S)
        BY <1>2, <2>1, <3>2 DEF Bit
      <3> QED
        BY <3>2, <3>3, <3>5, <3>6, <3>7
    <2>2. CASE o # thr[w].req
      <3>1. req' = [req EXCEPT ![o] = [np_req_unref(o) EXCEPT !.answers = @ + 1]]
        BY <2>2 DEF Answered
      <3>2. PICK x \in Npreq : x = np_req_unref(o)
        BY UnrefFields
      <3>3. PICK n \in Nat : n = x.answers + 1
        BY DEF Npreq
      <3>4. PICK y : y = [x EXCEPT !.answers = n]
        OBVIOUS
      <3>5. y \in Npreq /\ y.flushreq = x.flushreq /\ y.refcount = x.refcount /\ y.answers = n
        BY <3>4 DEF Npreq
      <3>6. req' = [req EXCEPT ![o] = y]
        BY <1>1, <3>1, <3>2, <3>3, <3>4
      <3>7. x.refcount = req[o].refcount - 1 /\ x.flushreq = req[o].flushreq
            /\ x.answers = req[o].answers
        BY <3>2, UnrefFields
      <3>8. Bit(o \in S) = 1
        BY <2>2 DEF Bit
      <3> QED
        BY <3>3, <3>5, <3>6, <3>7, <3>8
    <2> QED
      BY <2>1, <2>2
  <1>4. req'[o] = y /\ (\A x \in Objs \ {o} : req'[x] = req[x]) /\ req' \in [Objs -> Npreq]
    BY <1>1, <1>3
  <1>5. Links' = Links
    BY <1>3, <1>4 DEF Links
  <1>6. /\ req'[o].refcount = req[o].refcount - (IF o \in S THEN 1 ELSE 0)
        /\ req'[o].answers = req[o].answers + 1
        /\ \A x \in Objs \ {o} : /\ req'[x].refcount = req[x].refcount
                                /\ req'[x].answers = req[x].answers
    BY <1>3, <1>4 DEF Bit
  <1>7. pool' = SetToSeq(Freed(S)) \o pool
    <2>1. CASE o = thr[w].req
      <3>1. S = {} /\ pool' = pool
        BY <2>1 DEF Answered
      <3> QED
        BY <3>1, PoolSame
    <2>2. CASE o # thr[w].req
      <3>1. S = {o}
        BY <2>2
      <3> QED
        BY <2>2, <3>1 DEF Answered
    <2> QED
      BY <2>1, <2>2
  <1> QED
    BY <1>4, <1>5, <1>6, <1>7 DEF Written

\* pthread_cond_broadcast leaves the threads where they were, but those that sleep.
LEMMA WokenThreads ==
    ASSUME NpSrvAssumption, TypeOK, NEW w \in Threads, thr[w].pc = "write", Woken(w, "next")
    PROVE  /\ thr' \in [Threads -> Thread] /\ thr'[w].pc = "next"
           /\ thr'[w].req = thr[w].req /\ thr'[w].cur = thr[w].cur /\ thr'[w].held = thr[w].held
           /\ \A v \in Threads \ {w} : Still(v)
  <1>1. thr \in [Threads -> Thread]
    BY DEF TypeOK
  <1>2. thr' = [v \in Threads |->
              CASE v = w -> [thr[w] EXCEPT !.pc = "next"]
                [] thr[v].pc = "sleep" /\ conn.resetting /\ v # w -> [thr[v] EXCEPT !.pc = "check"]
                [] OTHER -> thr[v]]
    BY DEF Woken
  <1>3. PICK x \in Thread : x = thr[w]
    BY <1>1
  <1>4. PICK y : y = [x EXCEPT !.pc = "next"]
    OBVIOUS
  <1>5. y \in Thread /\ y.pc = "next" /\ y.req = x.req /\ y.cur = x.cur /\ y.held = x.held
    BY <1>4 DEF Thread
  <1>6. thr'[w] = y
    BY <1>2, <1>3, <1>4
  <1>7. ASSUME NEW v \in Threads \ {w}
        PROVE  thr'[v] \in Thread /\ Still(v)
    <2>1. CASE thr[v].pc = "sleep" /\ conn.resetting
      <3>1. PICK u \in Thread : u = thr[v]
        BY <1>1
      <3>2. PICK z : z = [u EXCEPT !.pc = "check"]
        OBVIOUS
      <3>3. z \in Thread /\ z.pc = "check" /\ z.req = u.req /\ z.cur = u.cur /\ z.held = u.held
        BY <3>2 DEF Thread
      <3>4. thr'[v] = z
        BY <1>2, <1>7, <2>1, <3>1, <3>2
      <3> QED
        BY <2>1, <3>1, <3>3, <3>4 DEF Still
    <2>2. CASE ~(thr[v].pc = "sleep" /\ conn.resetting)
      <3>1. thr'[v] = thr[v]
        BY <1>2, <1>7, <2>2
      <3> QED
        BY <1>1, <3>1 DEF Still
    <2> QED
      BY <2>1, <2>2
  <1>8. thr' \in [Threads -> Thread]
    <2>1. \A v \in Threads : thr'[v] \in Thread
      BY <1>5, <1>6, <1>7
    <2> QED
      BY <1>2, <2>1
  <1> QED
    BY <1>3, <1>5, <1>6, <1>7, <1>8

\* The reply of a request is written: np_respond goes on behind it.
LEMMA WrittenStep ==
    ASSUME NpSrvAssumption, IInv, NEW w \in Threads, thr[w].pc = "write", Answered(w),
           UNCHANGED <<reqs, work, kept>>, open' \in [Tags -> {"free", "io", "flush", "flushed"}],
           NEW m, m = References(w),
           conn' = [trans |-> conn'.trans, resetting |-> conn.resetting,
                    listed |-> conn.listed, refcount |-> m],
           conn'.trans \in BOOLEAN
    PROVE  IInv'
  <1>1. TypeOK /\ ChainInv /\ QueueInv /\ AnsweredInv /\ ThreadInv /\ CountInv /\ PoolInv
        /\ AnswerInv /\ ListedInv /\ ConnRefs
    BY DEF IInv
  <1>2. ThreadOK(w) /\ w \notin Objs /\ w \in Keys /\ w # Reader
    BY <1>1, StartOfThread DEF ThreadInv, ThreadOK, Resets
  <1>3. Answers(w) /\ AnsweredOK(w) /\ ~Working(w)
    BY <1>1, StartOfThread DEF Answers, AnsweredInv
  <1>4. PICK o \in Objs : o = thr[w].cur
    BY <1>3 DEF AnsweredOK
  <1>5. PICK q \in Objs : q = thr[w].req
    BY <1>3 DEF AnsweredOK
  <1>6. PICK S \in SUBSET Objs : S = {o} \ {q}
    OBVIOUS
  <1>7. Start(w) = o /\ o # NIL
    BY <1>4, StartOfThread DEF NpSrvAssumption
  <1>8. /\ o \in Part(w) /\ Part(w) = {o} \cup ChainOf(Links, Links[o]) /\ Part(w) \subseteq Chained
        /\ o \notin ChainOf(Links, Links[o]) /\ Part(w) \cap work = {}
    <2>1. /\ o \in Part(w) /\ Part(w) = {o} \cup ChainOf(Links, Links[o])
          /\ Part(w) \subseteq Chained
      BY <1>1, <1>2, <1>7, PartFacts
    <2> QED
      BY <1>1, <1>2, <1>3, <2>1 DEF ChainInv
  <1>9. o \in Pending /\ req[o].refcount # 0 /\ o \in Live
    <2>1. o \in Pending
      BY <1>8 DEF Pending
    <2> QED
      BY <1>1, <2>1, Counted
  <1>10. /\ req' \in [Objs -> Npreq] /\ Links' = Links
         /\ pool' = SetToSeq(Freed(S)) \o pool
         /\ \A x \in Objs : req'[x].refcount = req[x].refcount - Bit(x \in S)
         /\ \A x \in Objs : req'[x].answers = req[x].answers + Bit(x = o)
    <2>1. S = {o} \ {thr[w].req} /\ TypeOK /\ PoolInv /\ req[o].refcount # 0
      BY <1>1, <1>5, <1>6, <1>9
    <2>2. Written(o, S)
      BY <1>4, <2>1, AnsweredFields
    <2>3. \A x \in Objs : req[x].refcount \in Nat /\ req[x].answers \in Nat
      BY <1>1 DEF TypeOK, Npreq
    <2>4. ASSUME NEW x \in Objs
          PROVE  /\ req'[x].refcount = req[x].refcount - Bit(x \in S)
                 /\ req'[x].answers = req[x].answers + Bit(x = o)
      <3>1. CASE x = o
        BY <2>2, <3>1 DEF Written, Bit
      <3>2. CASE x # o
        <4>1. x \notin S
          BY <1>6, <3>2
        <4> QED
          BY <2>2, <2>3, <3>2, <4>1 DEF Written, Bit
      <3> QED
        BY <3>1, <3>2
    <2> QED
      BY <2>2, <2>4 DEF Written
  <1>11. /\ thr' \in [Threads -> Thread] /\ thr'[w].pc = "next"
         /\ thr'[w].req = q /\ thr'[w].cur = o /\ thr'[w].held = thr[w].held
         /\ \A v \in Threads \ {w} : Still(v)
    BY <1>1, <1>4, <1>5, WokenThreads DEF Answered
  <1>12. \A x \in Objs : req[x].refcount \in Nat
    BY <1>1 DEF TypeOK, Npreq
  <1>13. /\ PoolInv' /\ pool' \in Seq(Objs)
         /\ Live' = Live \ Freed(S) /\ Freed(S) \subseteq Live
         /\ Cardinality(Freed(S)) \in Nat /\ Cardinality(Live) \in Nat
         /\ Cardinality(Live') = Cardinality(Live) - Cardinality(Freed(S))
    <2>1. \A x \in S : req[x].refcount # 0
      BY <1>6, <1>9
    <2>2. \A x \in S : req'[x].refcount = req[x].refcount - 1
      BY <1>10 DEF Bit
    <2>3. \A x \in Objs \ S : req'[x].refcount = 0 <=> req[x].refcount = 0
      BY <1>10, <1>12 DEF Bit
    <2> QED
      BY <1>1, <1>10, <2>1, <2>2, <2>3, RefsReleased
  <1>14. \A v \in Threads : (Answers(v)' <=> Answers(v)) /\ thr'[v].req = thr[v].req
    <2>1. \A v \in Threads \ {w} : Answers(v)' <=> Answers(v)
      BY <1>1, <1>10, <1>11, StillFacts
    <2> QED
      BY <1>3, <1>5, <1>11, <2>1 DEF Answers, Still
  <1>15. \A k \in Keys : Working(k)' <=> Working(k)
    BY <1>14 DEF Working, Keys
  <1>16. ASSUME NEW k \in Keys \ {w}
         PROVE  Start(k)' = Start(k) /\ Part(k)' = Part(k) /\ o \notin Part(k)
    <2>1. Start(k)' = Start(k)
      <3>1. CASE k \in Objs
        BY <3>1, StartOfObj
      <3>2. CASE k \in Threads
        BY <1>1, <1>10, <1>11, <1>16, <3>2, StillFacts
      <3> QED
        BY <1>16, <3>1, <3>2 DEF Keys
    <2>2. Part(k) \cap Part(w) = {}
      BY <1>1, <1>2, <1>16 DEF ChainInv
    <2> QED
      BY <1>8, <1>10, <2>1, <2>2 DEF Part
  <1>17. Start(w)' = Links[o] /\ Part(w)' = Part(w) \ {o}
    <2>1. Start(w)' = Links[o]
      BY <1>10, <1>11, StartOfThread
    <2>2. Part(w)' = ChainOf(Links, Links[o])
      BY <1>10, <2>1 DEF Part
    <2> QED
      BY <1>8, <2>1, <2>2
  <1>18. Chained' = Chained \ {o}
    <2>1. ASSUME NEW x \in Objs
          PROVE  (\E k \in Keys : x \in Part(k)') <=> (x # o /\ \E k \in Keys : x \in Part(k))
      BY <1>2, <1>16, <1>17
    <2> QED
      BY <2>1 DEF Chained
  <1>19. o \notin Queued /\ o \notin work /\ Queued' = Queued
    BY <1>1, <1>8 DEF QueueInv, Queued
  <1>20. Pending' = Pending \ {o}
    BY <1>18, <1>19 DEF Pending
  <1>21. Final' = Final /\ (o # q => o \notin Final) /\ q \in Final
    <2>1. \A x : x \in Final' <=> x \in Final
      BY <1>14 DEF Final
    <2>2. ASSUME o # q, NEW v \in Threads, Answers(v), thr[v].req = o
          PROVE  FALSE
      <3>1. AnsweredOK(v)
        BY <1>1, <2>2 DEF AnsweredInv
      <3>2. w = v
        BY <1>2, <1>8, <2>2, <3>1 DEF AnsweredOK
      <3> QED
        BY <1>5, <2>2, <3>2
    <2> QED
      BY <1>3, <1>5, <2>1, <2>2 DEF Final
  <1>22. CountInv'
    <2>1. ASSUME NEW x \in Objs
          PROVE  req'[x].refcount = Holding(x)'
      <3>1. HeldBy(x)' = HeldBy(x)
        BY <1>11, HeldSame DEF Still
      <3>2. Bit(x \in Pending' \cup Final') = Bit(x \in Pending \cup Final) - Bit(x \in S)
        BY <1>6, <1>9, <1>20, <1>21 DEF Bit
      <3>3. req[x].refcount = Cardinality(HeldBy(x)) + Bit(x \in Pending \cup Final)
        BY <1>1 DEF CountInv, Holding, Bit
      <3>4. Holding(x)' = Cardinality(HeldBy(x)) + Bit(x \in Pending' \cup Final')
        BY <3>1 DEF Holding, Bit
      <3>5. PICK h \in Nat, a \in Nat, b \in Nat :
                h = Cardinality(HeldBy(x)) /\ a = Bit(x \in S) /\ b = Bit(x \in Pending \cup Final)
        BY HeldByFinite DEF Bit
      <3> QED
        BY <1>10, <3>2, <3>3, <3>4, <3>5
    <2> QED
      BY <2>1 DEF CountInv
  <1>23. ChainInv'
    <2>1. Links \in LinkTable
      BY <1>1, LinksType
    <2>2. \A k \in Keys : Start(k)' \in Objs \cup {NIL}
      BY <1>1, <1>16, <1>17, <2>1 DEF ChainInv, LinkTable
    <2>3. \A j, k \in Keys : j # k => Part(j)' \cap Part(k)' = {}
      <3>1. \A k \in Keys : Part(k)' \subseteq Part(k)
        BY <1>16, <1>17
      <3> QED
        BY <1>1, <3>1 DEF ChainInv
    <2>4. \A k \in Keys : /\ Working(k)' => Part(k)' \subseteq work'
                          /\ ~Working(k)' => Part(k)' \cap work' = {}
      <3>1. \A k \in Keys : Part(k)' \subseteq Part(k)
        BY <1>16, <1>17
      <3> QED
        BY <1>1, <1>15, <3>1 DEF ChainInv
    <2>5. \A y \in Chained' : y \notin ChainOf(Links', Links'[y])
      BY <1>1, <1>10, <1>18 DEF ChainInv
    <2> QED
      BY <2>2, <2>3, <2>4, <2>5 DEF ChainInv
  <1>24. QueueInv'
    <2>1. Queued' \cap (work' \cup Chained') = {}
      BY <1>1, <1>18, <1>19 DEF QueueInv
    <2>2. \A v \in Threads : thr'[v].held \cap Queued' = {}
      BY <1>1, <1>11, <1>19 DEF QueueInv, Still
    <2> QED
      BY <1>1, <1>10, <1>19, <2>1, <2>2 DEF QueueInv
  <1>25. ThreadInv'
    <2>1. ThreadOK(w)'
      BY <1>2, <1>5, <1>11 DEF ThreadOK, Resets
    <2> QED
      BY <1>1, <1>11, <2>1, StillOK DEF ThreadInv
  <1>26. AnswerInv'
    <2>1. ASSUME NEW x \in Live'
          PROVE  req'[x].answers = IF x \in Pending' THEN 0 ELSE 1
      <3>1. x \in Live /\ x \in Objs
        BY <1>13, <2>1 DEF Live
      <3>2. req[x].answers = IF x \in Pending THEN 0 ELSE 1
        BY <1>1, <3>1 DEF AnswerInv
      <3>3. req'[x].answers = req[x].answers + Bit(x = o)
        BY <1>10, <3>1
      <3>4. CASE x = o
        BY <1>9, <1>20, <3>2, <3>3, <3>4 DEF Bit
      <3>5. CASE x # o
        BY <1>20, <3>2, <3>3, <3>5 DEF Bit
      <3> QED
        BY <3>4, <3>5
    <2> QED
      BY <2>1 DEF AnswerInv
  <1>27. AnsweredOK(w)'
    <2>1. thr'[w].req \notin Queued' \cup work'
      BY <1>3, <1>5, <1>11, <1>19 DEF AnsweredOK
    <2>2. \A k \in Keys : q \notin Part(k)'
      <3>1. \A k \in Keys : q \in Part(k) => k = w /\ o = q
        BY <1>3, <1>4, <1>5 DEF AnsweredOK
      <3> QED
        BY <1>16, <1>17, <3>1
    <2>3. \A v \in Threads : Answers(v)' /\ thr'[v].req = thr'[w].req => v = w
      BY <1>3, <1>14 DEF AnsweredOK
    <2> QED
      BY <1>11, <1>20, <2>1, <2>2, <2>3 DEF AnsweredOK
  <1>28. ASSUME NEW v \in Threads \ {w}, Answers(v)'
         PROVE  AnsweredOK(v)'
    <2>1. Answers(v) /\ AnsweredOK(v)
      BY <1>1, <1>14, <1>28 DEF AnsweredInv
    <2>2. thr'[v].req = thr[v].req /\ thr'[v].cur = thr[v].cur /\ thr'[v].pc = thr[v].pc
      BY <1>1, <1>10, <1>11, <2>1, StillFacts DEF Still
    <2>3. thr'[v].req \notin Queued' \cup work'
      BY <1>19, <2>1, <2>2 DEF AnsweredOK
    <2>4. \A i \in Keys : thr'[v].req \in Part(i)' =>
              i = v /\ thr'[v].cur = thr'[v].req /\ thr'[v].pc # "next"
      BY <1>16, <1>17, <2>1, <2>2 DEF AnsweredOK
    <2>5. \A t \in Threads : Answers(t)' /\ thr'[t].req = thr'[v].req => t = v
      BY <1>14, <2>1 DEF AnsweredOK
    <2> QED
      BY <1>20, <2>1, <2>2, <2>3, <2>4, <2>5 DEF AnsweredOK
  <1>29. thr'[Reader].pc \in {"idle", "unlist"} <=> thr[Reader].pc \in {"idle", "unlist"}
    <2>1. Still(Reader)
      BY <1>2, <1>11 DEF Threads
    <2> QED
      BY <2>1 DEF Still
  <1>30. thr'[Reader].pc = "gone" <=> thr[Reader].pc = "gone"
    <2>1. Still(Reader)
      BY <1>2, <1>11 DEF Threads
    <2> QED
      BY <2>1 DEF Still
  <1>31. conn'.refcount = m /\ conn'.listed = conn.listed /\ conn'.resetting = conn.resetting
    <2>1. PICK c : c = conn'
      OBVIOUS
    <2>2. c.refcount = m /\ c.listed = conn.listed /\ c.resetting = conn.resetting
      BY <2>1
    <2> QED
      BY <2>1, <2>2
  <1>32. ListedInv'
    BY <1>1, <1>29, <1>31 DEF ListedInv
  <1>33. ConnRefs' /\ m \in Nat
    <2>1. m = conn.refcount - Cardinality(Freed(S))
      BY <1>4, <1>5, <1>6 DEF References
    <2>2. conn.refcount = Cardinality(Live) + (IF conn.listed THEN 1 ELSE 0)
                          + (IF thr[Reader].pc = "gone" THEN 0 ELSE 1)
      BY <1>1 DEF ConnRefs
    <2>3. PICK a \in Nat, b \in Nat, c \in Nat :
              /\ a = Cardinality(Live) /\ b = (IF conn.listed THEN 1 ELSE 0)
              /\ c = (IF thr[Reader].pc = "gone" THEN 0 ELSE 1)
      BY <1>13
    <2>4. PICK d \in Nat : d = Cardinality(Live') /\ d = a - Cardinality(Freed(S))
      <3>1. IsFiniteSet(Live')
        BY FS_Subset DEF Live, NpSrvAssumption
      <3>2. Cardinality(Live') \in Nat
        BY <3>1, FS_CardinalityType
      <3> QED
        BY <1>13, <2>3, <3>2
    <2>5. m = d + b + c
      BY <1>13, <2>1, <2>2, <2>3, <2>4
    <2>6. b = (IF conn'.listed THEN 1 ELSE 0) /\ c = (IF thr'[Reader].pc = "gone" THEN 0 ELSE 1)
      BY <1>30, <1>31, <2>3
    <2> QED
      BY <1>31, <2>4, <2>5, <2>6 DEF ConnRefs
  <1>34. TypeOK'
    <2>1. conn.resetting \in BOOLEAN /\ conn.listed \in BOOLEAN
      BY <1>1 DEF TypeOK, Npconn
    <2>2. conn' \in Npconn
      BY <1>33, <2>1 DEF Npconn
    <2> QED
      BY <1>1, <1>10, <1>11, <1>13, <2>2 DEF TypeOK, Answered
  <1> QED
    BY <1>13, <1>22, <1>23, <1>24, <1>25, <1>26, <1>27, <1>28, <1>32, <1>33, <1>34
    DEF IInv, AnsweredInv

\* The client's tags have their type when it gets a reply.
LEMMA ReceivedType ==
    ASSUME TypeOK, NEW o, Received(o)
    PROVE  open' \in [Tags -> {"free", "io", "flush", "flushed"}]
  <1>1. open \in [Tags -> {"free", "io", "flush", "flushed"}]
    BY DEF TypeOK
  <1> QED
    BY <1>1 DEF Received

LEMMA WriteStep ==
    ASSUME NpSrvAssumption, IInv, NEW w \in Threads, np_conn_respond_write(w)
    PROVE  IInv'
  <1>1. TypeOK /\ thr[w].pc = "write" /\ UNCHANGED <<reqs, work, kept>>
    BY DEF IInv, np_conn_respond_write
  <1>2. open \in [Tags -> {"free", "io", "flush", "flushed"}]
    BY <1>1 DEF TypeOK
  <1>3. PICK a, b, c \in BOOLEAN, n \in Nat :
            conn = [trans |-> a, resetting |-> b, listed |-> c, refcount |-> n]
    BY <1>1, ConnRecord
  <1>4. PICK m : m = References(w)
    OBVIOUS
  <1>5. conn.resetting = b /\ conn.listed = c
    BY <1>3
  <1>6. CASE UNCHANGED <<req, pool, conn, thr, open>> /\ srv' = "crashed"
    BY <1>1, <1>6, Stops
  <1>7. CASE /\ Answered(w) /\ open' \in [Tags -> {"free", "io", "flush", "flushed"}]
             /\ conn' = [conn EXCEPT !.refcount = m]
    <2>1. conn' = [trans |-> a, resetting |-> b, listed |-> c, refcount |-> m]
      BY <1>3, <1>7
    <2>2. conn'.trans = a
      BY <2>1
    <2> QED
      BY <1>1, <1>4, <1>5, <1>7, <2>1, <2>2, WrittenStep
  <1>8. CASE /\ Answered(w) /\ open' \in [Tags -> {"free", "io", "flush", "flushed"}]
             /\ conn' = [conn EXCEPT !.refcount = m, !.trans = FALSE]
    <2>1. conn' = [trans |-> FALSE, resetting |-> b, listed |-> c, refcount |-> m]
      BY <1>3, <1>8
    <2>2. conn'.trans = FALSE
      BY <2>1
    <2> QED
      BY <1>1, <1>4, <1>5, <1>8, <2>1, <2>2, WrittenStep
  <1> QED
    BY <1>1, <1>2, <1>4, <1>6, <1>7, <1>8, ReceivedType DEF np_conn_respond_write

\* The answer is given, with those of the flushes chained to it: np_respond gives its
\* reference back.
LEMMA EndStep ==
    ASSUME NpSrvAssumption, IInv, NEW w \in Threads, thr[w].pc = "next",
           req[thr[w].cur].flushreq = NIL, NEW q, q = thr[w].req,
           Release({q}), thr' = [thr EXCEPT ![w] = Idle],
           UNCHANGED <<srv, reqs, work, kept, open>>
    PROVE  IInv'
  <1>1. TypeOK /\ ChainInv /\ QueueInv /\ AnsweredInv /\ ThreadInv /\ CountInv /\ PoolInv
        /\ AnswerInv /\ ListedInv /\ ConnRefs
    BY DEF IInv
  <1>2. ThreadOK(w) /\ w \notin Objs /\ w \in Keys /\ w # Reader
    BY <1>1, StartOfThread DEF ThreadInv, ThreadOK, Resets
  <1>3. Answers(w) /\ AnsweredOK(w) /\ q \in Objs /\ thr[w].cur \in Objs
    BY <1>1 DEF Answers, AnsweredInv, AnsweredOK
  <1>4. q \notin Pending /\ q \in Final
    <2>1. \A k \in Keys : q \notin Part(k)
      BY <1>3 DEF AnsweredOK
    <2>2. q \notin Queued \cup work
      BY <1>3 DEF AnsweredOK
    <2> QED
      BY <1>3, <2>1, <2>2 DEF Pending, Chained, Final
  <1>5. \A x \in {q} \cup {} : req[x].refcount # 0
    BY <1>1, <1>3, <1>4, Counted
  <1>6. PICK S, N : S = {q} /\ N = {}
    OBVIOUS
  <1>7. /\ req' \in [Objs -> Npreq] /\ Links' = Links
        /\ \A x \in Objs : req'[x].refcount = req[x].refcount - (IF x \in S THEN 1 ELSE 0)
                                               + (IF x \in N THEN 1 ELSE 0)
        /\ \A x \in Objs : req'[x].answers = req[x].answers
        /\ PoolInv' /\ pool' \in Seq(Objs)
        /\ Live' = Live \ Freed(S) /\ Freed(S) \subseteq Live
        /\ Cardinality(Freed(S)) \in Nat /\ Cardinality(Live) \in Nat
        /\ Cardinality(Live') = Cardinality(Live) - Cardinality(Freed(S))
    <2>1. S \in SUBSET Objs /\ N \in SUBSET Objs /\ S \cap N = {}
      BY <1>3, <1>6
    <2>2. \A x \in S \cup N : req[x].refcount # 0
      BY <1>5, <1>6
    <2>3. Refcounted(S, N)
      BY <1>6 DEF Release, Refcounted
    <2> QED
      BY <1>1, <2>1, <2>2, <2>3, RefStep
  <1>8. thr \in [Threads -> Thread] /\ thr'[w] = Idle /\ \A v \in Threads \ {w} : thr'[v] = thr[v]
    BY <1>1 DEF TypeOK
  <1>9. thr' \in [Threads -> Thread]
    BY <1>8, IdleThread
  <1>10. /\ thr'[w].pc = "idle" /\ thr'[w].req = NIL /\ thr'[w].held = {} /\ thr[w].held = {}
    BY <1>2, <1>8, IdleThread DEF ThreadOK
  <1>11. \A v \in Threads \ {w} : Still(v)
    BY <1>8 DEF Still
  <1>12. ~Answers(w)' /\ \A v \in Threads \ {w} : Answers(v)' <=> Answers(v)
    BY <1>8, <1>10 DEF Answers
  <1>13. Start(w) = NIL /\ Start(w)' = NIL
    <2>1. Start(w) = Links[thr[w].cur]
      BY StartOfThread
    <2> QED
      BY <1>3, <1>10, <2>1, StartOfThread DEF Links
  <1>14. ASSUME NEW k \in Keys
         PROVE  Start(k)' = Start(k) /\ Part(k)' = Part(k)
    <2>1. CASE k \in Objs
      BY <1>7, <2>1, StartOfObj DEF Part
    <2>2. CASE k \in Threads \ {w}
      BY <1>1, <1>7, <1>11, <2>2, StillFacts DEF Part
    <2>3. CASE k = w
      BY <1>7, <1>13, <2>3 DEF Part
    <2> QED
      BY <1>14, <2>1, <2>2, <2>3 DEF Keys
  <1>15. Chained' = Chained /\ Queued' = Queued /\ Pending' = Pending
    BY <1>14 DEF Chained, Queued, Pending
  <1>16. Final' = Final \ {q}
    <2>1. ASSUME NEW x \in Objs
          PROVE  x \in Final' <=> (x \in Final /\ x # q)
      <3>1. ASSUME NEW v \in Threads, Answers(v)', thr'[v].req = x
            PROVE  x \in Final /\ x # q
        BY <1>3, <1>8, <1>12, <3>1 DEF Final, AnsweredOK
      <3>2. ASSUME NEW v \in Threads, Answers(v), thr[v].req = x, x # q
            PROVE  x \in Final'
        <4>1. v # w
          BY <3>2
        <4>2. Answers(v)' /\ thr'[v].req = x
          BY <1>8, <1>12, <3>2, <4>1
        <4> QED
          BY <4>2 DEF Final
      <3> QED
        BY <3>1, <3>2 DEF Final
    <2> QED
      BY <2>1 DEF Final
  <1>17. CountInv'
    <2>1. ASSUME NEW x \in Objs
          PROVE  req'[x].refcount = Holding(x)'
      <3>1. HeldBy(x)' = HeldBy(x)
        BY <1>8, <1>10, HeldSame
      <3>2. Bit(x \in Pending' \cup Final') = Bit(x \in Pending \cup Final) - Bit(x \in S)
        BY <1>4, <1>6, <1>15, <1>16 DEF Bit
      <3>3. req[x].refcount = Cardinality(HeldBy(x)) + Bit(x \in Pending \cup Final)
        BY <1>1 DEF CountInv, Holding, Bit
      <3>4. Holding(x)' = Cardinality(HeldBy(x)) + Bit(x \in Pending' \cup Final')
        BY <3>1 DEF Holding, Bit
      <3>5. req'[x].refcount = req[x].refcount - Bit(x \in S) + 0
        BY <1>6, <1>7 DEF Bit
      <3>6. PICK h \in Nat, a \in Nat, b \in Nat :
                h = Cardinality(HeldBy(x)) /\ a = Bit(x \in S) /\ b = Bit(x \in Pending \cup Final)
        BY HeldByFinite DEF Bit
      <3> QED
        BY <3>2, <3>3, <3>4, <3>5, <3>6
    <2> QED
      BY <2>1 DEF CountInv
  <1>18. ChainInv'
    <2>1. \A k \in Keys : Working(k)' => Working(k) \/ Part(k)' = {}
      <3>1. Part(w)' = {}
        BY <1>13, ChainNil DEF Part
      <3>2. ASSUME NEW k \in Keys \ {w}, Working(k)'
            PROVE  Working(k)
        BY <1>12, <3>2 DEF Working, Keys
      <3> QED
        BY <3>1, <3>2
    <2>2. \A k \in Keys : ~Working(k)' => ~Working(k)
      BY <1>12 DEF Working, Keys
    <2>3. \A k \in Keys : /\ Working(k)' => Part(k)' \subseteq work'
                          /\ ~Working(k)' => Part(k)' \cap work' = {}
      BY <1>1, <1>14, <2>1, <2>2 DEF ChainInv
    <2>4. \A k \in Keys : Start(k)' \in Objs \cup {NIL}
      BY <1>1, <1>14 DEF ChainInv
    <2>5. \A j, k \in Keys : j # k => Part(j)' \cap Part(k)' = {}
      BY <1>1, <1>14 DEF ChainInv
    <2>6. \A x \in Chained' : x \notin ChainOf(Links', Links'[x])
      BY <1>1, <1>7, <1>15 DEF ChainInv
    <2> QED
      BY <2>3, <2>4, <2>5, <2>6 DEF ChainInv
  <1>19. QueueInv'
    <2>1. Queued' \cap (work' \cup Chained') = {}
      BY <1>1, <1>15 DEF QueueInv
    <2>2. \A x \in Queued' : Links'[x] = NIL
      BY <1>1, <1>7, <1>15 DEF QueueInv
    <2>3. \A v \in Threads : thr'[v].held \cap Queued' = {}
      BY <1>1, <1>8, <1>10, <1>15 DEF QueueInv
    <2> QED
      BY <1>1, <2>1, <2>2, <2>3 DEF QueueInv
  <1>20. ThreadInv'
    <2>1. ThreadOK(w)'
      BY <1>2, <1>10 DEF ThreadOK, Resets
    <2> QED
      BY <1>1, <1>11, <2>1, StillOK DEF ThreadInv
  <1>21. AnswerInv'
    BY <1>1, <1>7, <1>15 DEF AnswerInv, Live
  <1>22. ASSUME NEW v \in Threads, Answers(v)'
         PROVE  AnsweredOK(v)'
    <2>1. v # w /\ Answers(v) /\ AnsweredOK(v) /\ thr'[v] = thr[v]
      BY <1>1, <1>8, <1>12, <1>22 DEF AnsweredInv
    <2>2. \A t \in Threads : Answers(t)' /\ thr'[t].req = thr'[v].req => t = v
      <3>1. \A t \in Threads : Answers(t)' => Answers(t) /\ thr'[t] = thr[t]
        BY <1>8, <1>12
      <3> QED
        BY <2>1, <3>1 DEF AnsweredOK
    <2>3. thr'[v].req \notin Queued' \cup work'
      BY <1>15, <2>1 DEF AnsweredOK
    <2>4. \A i \in Keys : thr'[v].req \in Part(i)' =>
              i = v /\ thr'[v].cur = thr'[v].req /\ thr'[v].pc # "next"
      BY <1>14, <2>1 DEF AnsweredOK
    <2> QED
      BY <1>15, <2>1, <2>2, <2>3, <2>4 DEF AnsweredOK
  <1>23. /\ conn' \in Npconn /\ ListedInv' /\ ConnRefs'
    <2>1. PICK a, b, c \in BOOLEAN, n \in Nat :
              conn = [trans |-> a, resetting |-> b, listed |-> c, refcount |-> n]
      BY <1>1, ConnRecord
    <2>2. PICK k \in Nat, l \in Nat : k = Cardinality(Freed(S)) /\ l = Cardinality(Live)
      BY <1>7
    <2>3. PICK m \in Int : m = n - k
      OBVIOUS
    <2>4. conn' = [trans |-> a, resetting |-> b, listed |-> c, refcount |-> m]
      BY <1>6, <2>1, <2>2, <2>3 DEF Release
    <2>5. conn'.listed = c /\ conn.listed = c /\ conn.refcount = n /\ conn'.refcount = m
      BY <2>1, <2>4
    <2>6. thr'[Reader] = thr[Reader]
      BY <1>2, <1>8 DEF Threads
    <2>7. PICK u \in Nat : u = Users
      BY DEF Users, Bit
    <2>8. Users' = u
      BY <2>5, <2>6, <2>7 DEF Users
    <2>9. n = l + u
      BY <1>1, <2>2, <2>5, <2>7 DEF ConnRefs, Users, Bit
    <2>10. Cardinality(Live') = l - k /\ Cardinality(Live') \in Nat
      <3>1. Cardinality(Live') \in Nat
        BY FS_CardinalityType, FS_Subset DEF Live, NpSrvAssumption
      <3> QED
        BY <1>7, <2>2, <3>1
    <2>11. m = (l - k) + u
      BY <2>3, <2>9
    <2>12. conn'.refcount = Cardinality(Live') + Users'
      BY <2>5, <2>8, <2>10, <2>11
    <2>13. ConnRefs'
      BY <2>10, <2>12 DEF ConnRefs, Users, Bit
    <2>14. m \in Nat
      BY <2>10, <2>11
    <2> QED
      BY <1>1, <2>4, <2>5, <2>6, <2>13, <2>14 DEF ListedInv, Npconn
  <1>24. TypeOK'
    BY <1>1, <1>7, <1>9, <1>23 DEF TypeOK
  <1> QED
    BY <1>7, <1>17, <1>18, <1>19, <1>20, <1>21, <1>22, <1>23, <1>24 DEF IInv, AnsweredInv

LEMMA FlushStep ==
    ASSUME NpSrvAssumption, IInv, NEW w \in Workers, np_flush(w)
    PROVE  IInv'
  <1> DEFINE r == thr[w].req
             pending == {i \in DOMAIN reqs : req[reqs[i]].tag = req[r].oldtag}
             working == {o \in work : req[o].tag = req[r].oldtag}
  <1>1. TypeOK /\ ThreadInv /\ thr[w].pc = "flush" /\ srv = "running"
    BY DEF IInv, np_flush
  <1>2. w \in Threads /\ w # Reader /\ ThreadOK(w)
    BY <1>1 DEF Threads, ThreadInv, NpSrvAssumption
  <1>3. thr[w].req \in Objs /\ thr[w].held = {}
    BY <1>1, <1>2 DEF ThreadOK
  <1>4. UNCHANGED <<work, kept, open>>
    BY DEF np_flush
  <1>5. CASE srv' = "locked" /\ UNCHANGED <<req, pool, reqs, conn, thr>>
    BY <1>4, <1>5, Stops
  <1>6. CASE /\ pending # {} /\ reqs' = RemoveAt(reqs, Min(pending))
             /\ Release({reqs[Min(pending)]}) /\ Step(w, "remove") /\ UNCHANGED srv
    <2>1. pending \in SUBSET (DOMAIN reqs)
      OBVIOUS
    <2>2. DOMAIN reqs \subseteq Nat
      BY <1>1 DEF TypeOK
    <2>3. PICK i : i = Min(pending)
      OBVIOUS
    <2>4. reqs' = RemoveAt(reqs, i) /\ Release({reqs[i]}) /\ Step(w, "remove") /\ UNCHANGED srv
      BY <1>6, <2>3
    <2>5. pending \in SUBSET Nat /\ pending # {}
      BY <1>6, <2>1, <2>2
    <2> HIDE DEF pending
    <2>6. i \in DOMAIN reqs
      BY <2>1, <2>3, <2>5, FirstOf
    <2> QED
      BY <1>1, <1>2, <1>4, <2>4, <2>6, FlushPendingStep
  <1>7. CASE Step(w, "remove") /\ UNCHANGED <<srv, req, pool, reqs, conn>>
    <2>1. conn.resetting \in BOOLEAN /\ conn' = [conn EXCEPT !.resetting = conn.resetting]
      BY <1>1, <1>7, ConnSame
    <2>2. PICK b \in BOOLEAN : conn' = [conn EXCEPT !.resetting = b]
      BY <2>1
    <2> QED
      BY <1>1, <1>2, <1>3, <1>4, <1>7, <2>2, PcStep
  <1>8. ASSUME NEW o \in working,
               req' = [req EXCEPT ![r].flushreq = req[o].flushreq,
                                  ![o] = [np_req_ref(o) EXCEPT !.flushreq = r]],
               thr' = [thr EXCEPT ![w] = [Idle EXCEPT !.pc = "flushed", !.held = {o}]],
               UNCHANGED <<srv, reqs, pool, conn>>
        PROVE  IInv'
    <2>1. Put(o, r)
      BY <1>8 DEF Put
    <2>2. PICK z : z = Flushing(o)
      OBVIOUS
    <2>3. thr' = [thr EXCEPT ![w] = z]
      BY <1>8, <2>2 DEF Flushing
    <2>4. o \in work
      OBVIOUS
    <2> HIDE DEF r
    <2>5. r = thr[w].req
      BY DEF r
    <2> QED
      BY <1>1, <1>2, <1>4, <1>8, <2>1, <2>2, <2>3, <2>4, <2>5, FlushWorkingStep
  <1>9. \/ srv' = "locked" /\ UNCHANGED <<req, pool, reqs, conn, thr>>
        \/ /\ pending # {} /\ reqs' = RemoveAt(reqs, Min(pending))
           /\ Release({reqs[Min(pending)]}) /\ Step(w, "remove") /\ UNCHANGED srv
        \/ Step(w, "remove") /\ UNCHANGED <<srv, req, pool, reqs, conn>>
        \/ \E o \in working :
              /\ req' = [req EXCEPT ![r].flushreq = req[o].flushreq,
                                    ![o] = [np_req_ref(o) EXCEPT !.flushreq = r]]
              /\ thr' = [thr EXCEPT ![w] = [Idle EXCEPT !.pc = "flushed", !.held = {o}]]
              /\ UNCHANGED <<srv, reqs, pool, conn>>
    BY Zenon DEF np_flush
  <1> QED
    BY <1>5, <1>6, <1>7, <1>8, <1>9

\* np_conn_reset begins, and waits for the requests it has flushed.
LEMMA ResetStep ==
    ASSUME NpSrvAssumption, IInv, NEW w \in Threads, np_conn_reset(w) \/ np_conn_reset_wait(w)
    PROVE  IInv'
  <1>1. TypeOK /\ ThreadInv
    BY DEF IInv
  <1>2. ThreadOK(w)
    BY <1>1 DEF ThreadInv
  <1>3. CASE np_conn_reset(w)
    <2>1. thr[w].pc = "reset" /\ Step(w, "collect") /\ conn' = [conn EXCEPT !.resetting = TRUE]
          /\ UNCHANGED <<srv, req, pool, reqs, work, kept, open>>
      BY <1>3 DEF np_conn_reset
    <2>2. thr[w].held = {} /\ (w # Reader => thr[w].req \in Objs) /\ "collect" \in Resets
          /\ "reset" \in Resets
      BY <1>2, <2>1 DEF ThreadOK, Resets
    <2> QED
      BY <2>1, <2>2, PcStep
  <1>4. CASE np_conn_reset_wait(w)
    <2>1. PICK pc \in {"sleep", "finish"} : Step(w, pc)
      BY <1>4 DEF np_conn_reset_wait
    <2>2. thr[w].pc = "check" /\ UNCHANGED <<srv, req, pool, reqs, work, kept, conn, open>>
      BY <1>4 DEF np_conn_reset_wait
    <2>3. conn.resetting \in BOOLEAN /\ conn' = [conn EXCEPT !.resetting = conn.resetting]
      BY <1>1, <2>2, ConnSame
    <2>4. PICK b \in BOOLEAN : conn' = [conn EXCEPT !.resetting = b]
      BY <2>3
    <2>5. (w # Reader => thr[w].req \in Objs) /\ pc \in Resets /\ "check" \in Resets
      BY <1>2, <2>2 DEF ThreadOK, Resets
    <2> QED
      BY <2>1, <2>2, <2>4, <2>5, PcStep
  <1> QED
    BY <1>3, <1>4

LEMMA SeqAppended ==
    ASSUME NEW S, NEW s \in Seq(S), \A i, j \in DOMAIN s : s[i] = s[j] => i = j,
           NEW h \in S, h \notin Elements(s), NEW t, t = Append(s, h)
    PROVE  /\ t \in Seq(S) /\ \A i, j \in DOMAIN t : t[i] = t[j] => i = j
           /\ With(s, t, h)
  <1>1. PICK n \in Nat : n = Len(s) /\ DOMAIN s = 1..n
    BY LenProperties
  <1>2. t \in Seq(S) /\ Len(t) = n + 1 /\ t[n + 1] = h /\ \A i \in 1..n : t[i] = s[i]
    BY <1>1, AppendProperties
  <1>3. DOMAIN t = 1..(n + 1)
    BY <1>2, LenProperties
  <1>4. \A i \in 1..(n + 1) : i = n + 1 \/ i \in 1..n
    OBVIOUS
  <1>5. \A i \in 1..n : s[i] # h
    BY <1>1 DEF Elements
  <1>6. \A i, j \in DOMAIN t : t[i] = t[j] => i = j
    BY <1>1, <1>2, <1>3, <1>4, <1>5
  <1>7. \A i \in 1..n : i \in 1..(n + 1)
    OBVIOUS
  <1>8. n + 1 \in 1..(n + 1)
    OBVIOUS
  <1>9. Elements(t) = Elements(s) \cup {h}
    <2>1. \A x : x \in Elements(t) <=> \E i \in 1..(n + 1) : t[i] = x
      BY <1>3 DEF Elements
    <2>2. \A x : x \in Elements(s) <=> \E i \in 1..n : s[i] = x
      BY <1>1 DEF Elements
    <2>3. ASSUME NEW x, x \in Elements(t)
          PROVE  x \in Elements(s) \cup {h}
      BY <1>2, <1>4, <2>1, <2>2, <2>3
    <2>4. ASSUME NEW x, x \in Elements(s) \cup {h}
          PROVE  x \in Elements(t)
      BY <1>2, <1>7, <1>8, <2>1, <2>2, <2>4
    <2> QED
      BY <2>3, <2>4
  <1> QED
    BY <1>2, <1>6, <1>9 DEF With

\* np_req_alloc makes the head of the pool a request, to which nothing is chained.
LEMMA AllocFields ==
    ASSUME NpSrvAssumption, TypeOK, NEW h \in Objs, NEW type \in {"io", "flush", "version"},
           NEW t \in Tags \cup {NIL}, NEW o \in Tags \cup {NIL},
           req' = [req EXCEPT ![h] = np_req_alloc(type, t, o)]
    PROVE  /\ req' \in [Objs -> Npreq] /\ Links' \in LinkTable
           /\ Links'[h] = NIL /\ req'[h].refcount = 1 /\ req'[h].answers = 0
           /\ \A x \in Objs \ {h} : req'[x] = req[x] /\ Links'[x] = Links[x]
  <1>1. req \in [Objs -> Npreq]
    BY DEF TypeOK
  <1>2. PICK y : y = np_req_alloc(type, t, o)
    OBVIOUS
  <1>3. y \in Npreq /\ y.flushreq = NIL /\ y.refcount = 1 /\ y.answers = 0
    BY <1>2 DEF np_req_alloc, Npreq
  <1>4. req'[h] = y /\ \A x \in Objs \ {h} : req'[x] = req[x]
    BY <1>1, <1>2
  <1>5. req' \in [Objs -> Npreq]
    BY <1>1, <1>2, <1>3
  <1>6. Links' \in LinkTable
    BY <1>5 DEF Links, LinkTable, Npreq
  <1> QED
    BY <1>3, <1>4, <1>5, <1>6 DEF Links

LEMMA ReadStep ==
    ASSUME NpSrvAssumption, Prompt, IInv, NEW type \in {"io", "flush", "version"},
           NEW t \in Tags \cup {NIL}, NEW o \in Tags \cup {NIL}, Read(type, t, o),
           type = "version" => t = NIL
    PROVE  IInv'
  <1>1. TypeOK /\ ChainInv /\ QueueInv /\ AnsweredInv /\ ThreadInv /\ CountInv /\ PoolInv
        /\ AnswerInv /\ ListedInv /\ ConnRefs /\ Links \in LinkTable
    BY LinksType DEF IInv
  <1>2. PICK h : h = Head(pool)
    OBVIOUS
  <1>3. /\ h \in Objs /\ pool' \in Seq(Objs)
        /\ \A i, j \in DOMAIN pool' : pool'[i] = pool'[j] => i = j
        /\ h \in Elements(pool) /\ Elements(pool') = Elements(pool) \ {h}
    <2>1. PICK s \in Seq(Objs) : s = pool
      BY <1>1 DEF TypeOK
    <2>2. PICK u : u = Tail(s)
      OBVIOUS
    <2>3. s # <<>> /\ pool' = u /\ h = Head(s)
      BY <1>2, <2>1, <2>2 DEF Read
    <2>4. \A i, j \in DOMAIN s : s[i] = s[j] => i = j
      BY <1>1, <2>1 DEF PoolInv
    <2>5. h \in Objs /\ h \in Elements(s)
      BY <2>2, <2>3, <2>4, SeqTail
    <2>6. u \in Seq(Objs)
      BY <2>2, <2>3, <2>4, SeqTail
    <2>7. \A i, j \in DOMAIN u : u[i] = u[j] => i = j
      BY <2>2, <2>3, <2>4, SeqTail
    <2>8. Without(s, u, h)
      BY <2>2, <2>3, <2>4, SeqTail
    <2> QED
      BY <2>1, <2>3, <2>5, <2>6, <2>7, <2>8 DEF Without
  <1>4. /\ h \notin Live /\ Live' = Live \cup {h}
    BY <1>3 DEF Live, Elements
  <1>5. req[h].refcount = 0 /\ h \notin Pending /\ h \notin Final /\ HeldBy(h) = {} /\ h # NIL
    BY <1>1, <1>3, <1>4, Counted DEF PoolInv, NpSrvAssumption
  <1>6. /\ UNCHANGED <<srv, work, kept, thr>> /\ reqs' = Append(reqs, h)
        /\ conn' = [conn EXCEPT !.refcount = @ + 1]
        /\ req' = [req EXCEPT ![h] = np_req_alloc(type, t, o)]
        /\ \A v \in Threads : thr[v].pc = "next" => thr[v].cur # h
    BY <1>2 DEF Read
  <1>7. /\ req' \in [Objs -> Npreq] /\ Links' \in LinkTable
        /\ Links'[h] = NIL /\ req'[h].refcount = 1 /\ req'[h].answers = 0
        /\ \A x \in Objs \ {h} : req'[x] = req[x] /\ Links'[x] = Links[x]
    BY <1>1, <1>3, <1>6, AllocFields
  <1>8. /\ reqs' \in Seq(Objs) /\ \A i, j \in DOMAIN reqs' : reqs'[i] = reqs'[j] => i = j
        /\ Queued' = Queued \cup {h}
    <2>1. Queued = Elements(reqs) /\ Queued' = Elements(reqs')
      BY DEF Queued, Elements
    <2>2. h \notin Elements(reqs)
      BY <1>5, <2>1 DEF Pending
    <2>3. PICK s \in Seq(Objs) : s = reqs
      BY <1>1 DEF TypeOK
    <2>4. \A i, j \in DOMAIN s : s[i] = s[j] => i = j
      BY <1>1, <2>3 DEF QueueInv
    <2>5. PICK u : u = Append(s, h)
      OBVIOUS
    <2>6. h \notin Elements(s)
      BY <2>2, <2>3
    <2>7. u \in Seq(Objs)
      BY <1>3, <2>4, <2>5, <2>6, SeqAppended
    <2>8. \A i, j \in DOMAIN u : u[i] = u[j] => i = j
      BY <1>3, <2>4, <2>5, <2>6, SeqAppended
    <2>9. With(s, u, h)
      BY <1>3, <2>4, <2>5, <2>6, SeqAppended
    <2>10. reqs' = u
      BY <1>6, <2>3, <2>5
    <2> QED
      BY <2>1, <2>3, <2>7, <2>8, <2>9, <2>10 DEF With
  <1>9. conn' \in Npconn /\ conn'.refcount = conn.refcount + 1 /\ conn'.listed = conn.listed
    <2>1. PICK a, b, c \in BOOLEAN, n \in Nat :
              conn = [trans |-> a, resetting |-> b, listed |-> c, refcount |-> n]
      BY <1>1, ConnRecord
    <2>2. PICK m \in Nat : m = n + 1
      OBVIOUS
    <2>3. conn' = [trans |-> a, resetting |-> b, listed |-> c, refcount |-> m]
      BY <1>6, <2>1, <2>2
    <2> QED
      BY <2>1, <2>2, <2>3 DEF Npconn
  <1>10. open' \in [Tags -> {"free", "io", "flush", "flushed"}]
    <2>1. open \in [Tags -> {"free", "io", "flush", "flushed"}]
      BY <1>1 DEF TypeOK
    <2>2. open' = [u \in Tags |-> CASE u = t -> type [] u = o -> "flushed" [] OTHER -> open[u]]
      BY DEF Read
    <2>3. NIL \notin Tags
      BY DEF NpSrvAssumption
    <2> QED
      BY <2>1, <2>2, <2>3
  <1>11. ASSUME NEW k \in Keys
         PROVE  Start(k)' = Start(k) /\ Part(k)' = Part(k) /\ h \notin Part(k)
    <2>1. h \notin Part(k)
      <3>1. Part(k) \subseteq Chained
        BY <1>1, PartFacts
      <3>2. h \notin Chained
        BY <1>5 DEF Pending
      <3> QED
        BY <3>1, <3>2
    <2>2. Start(k)' = Start(k)
      <3>1. CASE k \in Objs
        BY <1>6, <3>1, StartOfObj
      <3>2. CASE k \in Threads /\ thr[k].pc = "next"
        <4>1. thr[k].cur # h
          BY <1>6, <3>2
        <4>2. Answers(k)
          BY <3>2 DEF Answers
        <4>3. thr[k].cur \in Objs
          BY <1>1, <3>2, <4>2 DEF AnsweredInv, AnsweredOK
        <4>4. Links'[thr[k].cur] = Links[thr[k].cur]
          BY <1>7, <4>1, <4>3
        <4>5. Start(k) = Links[thr[k].cur] /\ Start(k)' = Links'[thr'[k].cur]
          BY <1>6, <3>2, StartOfThread
        <4> QED
          BY <1>6, <4>4, <4>5
      <3>3. CASE k \in Threads /\ thr[k].pc # "next"
        BY <1>6, <3>3, StartOfThread
      <3> QED
        BY <1>11, <3>1, <3>2, <3>3 DEF Keys
    <2>3. \A x \in Part(k) : Links'[x] = Links[x]
      BY <1>7, <2>1, ChainObjs DEF Part
    <2>4. Start(k) \in Objs \cup {NIL}
      BY <1>1 DEF ChainInv
    <2>5. Part(k)' = Part(k)
      BY <1>1, <1>7, <2>2, <2>3, <2>4, ChainSame DEF Part
    <2> QED
      BY <2>1, <2>2, <2>5
  <1>12. Chained' = Chained /\ Pending' = Pending \cup {h} /\ Final' = Final
    <2>1. Chained' = Chained
      BY <1>11 DEF Chained
    <2>2. Final' = Final
      BY <1>6 DEF Final, Answers
    <2> QED
      BY <1>6, <1>8, <2>1, <2>2 DEF Pending
  <1>13. ChainInv'
    <2>1. \A k \in Keys : Working(k)' <=> Working(k)
      BY <1>6 DEF Working, Answers
    <2>2. \A k \in Keys : /\ Working(k)' => Part(k)' \subseteq work'
                          /\ ~Working(k)' => Part(k)' \cap work' = {}
      BY <1>1, <1>6, <1>11, <2>1 DEF ChainInv
    <2>3. (\A k \in Keys : Start(k)' \in Objs \cup {NIL})
          /\ \A j, k \in Keys : j # k => Part(j)' \cap Part(k)' = {}
      BY <1>1, <1>11 DEF ChainInv
    <2>4. ASSUME NEW x \in Chained'
          PROVE  x \notin ChainOf(Links', Links'[x])
      <3>1. x \in Chained /\ x \in Objs
        BY <1>12, <2>4 DEF Chained
      <3>2. PICK k \in Keys : x \in Part(k)
        BY <3>1 DEF Chained
      <3>3. ChainOf(Links, Links[x]) \subseteq Part(k)
        BY <1>1, <3>2, ChainTail DEF Part
      <3>4. \A y \in ChainOf(Links, Links[x]) : Links'[y] = Links[y]
        BY <1>7, <1>11, <3>3, ChainObjs
      <3>5. Links'[x] = Links[x] /\ Links[x] \in Objs \cup {NIL}
        BY <1>1, <1>7, <1>11, <3>1, <3>2 DEF LinkTable
      <3>6. ChainOf(Links', Links[x]) = ChainOf(Links, Links[x])
        BY <1>1, <1>7, <3>4, <3>5, ChainSame
      <3> QED
        BY <1>1, <3>1, <3>5, <3>6 DEF ChainInv
    <2> QED
      BY <2>2, <2>3, <2>4 DEF ChainInv
  <1>14. QueueInv'
    <2>1. Queued' \cap (work' \cup Chained') = {}
      BY <1>1, <1>5, <1>6, <1>8, <1>12 DEF QueueInv, Pending
    <2>2. \A x \in Queued' : Links'[x] = NIL
      <3>1. \A x \in Queued : x \in Objs
        BY <1>1 DEF TypeOK, Queued
      <3> QED
        BY <1>1, <1>5, <1>7, <1>8, <3>1 DEF QueueInv
    <2>3. \A v \in Threads : thr'[v].held \cap Queued' = {}
      BY <1>1, <1>5, <1>6, <1>8 DEF QueueInv, HeldBy
    <2> QED
      BY <1>8, <2>1, <2>2, <2>3 DEF QueueInv
  <1>15. ASSUME NEW v \in Threads, Answers(v)'
         PROVE  AnsweredOK(v)'
    <2>1. Answers(v) /\ AnsweredOK(v) /\ thr[v].req \in Final /\ thr'[v] = thr[v]
      BY <1>1, <1>6, <1>15 DEF Answers, AnsweredInv, AnsweredOK, Final
    <2>2. thr'[v].req \notin Queued' \cup work'
      BY <1>5, <1>6, <1>8, <2>1 DEF AnsweredOK
    <2>3. \A i \in Keys : thr'[v].req \in Part(i)' =>
              i = v /\ thr'[v].cur = thr'[v].req /\ thr'[v].pc # "next"
      BY <1>11, <2>1 DEF AnsweredOK
    <2>4. \A u \in Threads : Answers(u)' /\ thr'[u].req = thr'[v].req => u = v
      BY <1>6, <2>1 DEF Answers, AnsweredOK
    <2>5. thr'[v].pc = "next" => thr'[v].cur \notin Pending'
      BY <1>6, <1>12, <2>1 DEF AnsweredOK
    <2> QED
      BY <2>1, <2>2, <2>3, <2>4, <2>5 DEF AnsweredOK
  <1>16. ThreadInv' /\ ListedInv'
    BY <1>1, <1>6, <1>9 DEF ThreadInv, ThreadOK, ListedInv
  <1>17. CountInv'
    <2>1. ASSUME NEW x \in Objs
          PROVE  req'[x].refcount = Holding(x)'
      <3>1. HeldBy(x)' = HeldBy(x)
        BY <1>6 DEF HeldBy
      <3>2. CASE x = h
        BY <1>5, <1>7, <1>12, <3>1, <3>2, HeldByFinite DEF Holding
      <3>3. CASE x # h
        BY <1>1, <1>7, <1>12, <3>1, <3>3 DEF Holding, CountInv
      <3> QED
        BY <3>2, <3>3
    <2> QED
      BY <2>1 DEF CountInv
  <1>18. PoolInv' /\ AnswerInv'
    <2>1. \A x \in Objs : x \in Live' <=> req'[x].refcount # 0
      BY <1>1, <1>4, <1>7 DEF PoolInv
    <2>2. ASSUME NEW x \in Live'
          PROVE  req'[x].answers = IF x \in Pending' THEN 0 ELSE 1
      <3>1. CASE x = h
        BY <1>7, <1>12, <3>1
      <3>2. CASE x # h
        <4>1. x \in Live /\ x \in Objs
          BY <1>4, <2>2, <3>2 DEF Live
        <4> QED
          BY <1>1, <1>7, <1>12, <3>2, <4>1 DEF AnswerInv
      <3> QED
        BY <3>1, <3>2
    <2> QED
      BY <1>3, <2>1, <2>2 DEF PoolInv, AnswerInv
  <1>19. ConnRefs'
    <2>1. IsFiniteSet(Live) /\ Cardinality(Live) \in Nat
      BY FS_CardinalityType, FS_Subset DEF Live, NpSrvAssumption
    <2>2. Cardinality(Live \cup {h}) = Cardinality(Live) + 1
      BY <1>4, <2>1, FS_AddElement
    <2>3. PICK l \in Nat : l = Cardinality(Live)
      BY <2>1
    <2>4. Cardinality(Live') = l + 1
      BY <1>4, <2>2, <2>3
    <2> QED
      BY <1>1, <1>6, <1>9, <2>3, <2>4 DEF ConnRefs
  <1>20. TypeOK'
    BY <1>1, <1>3, <1>6, <1>7, <1>8, <1>9, <1>10 DEF TypeOK
  <1> QED
    BY <1>13, <1>14, <1>15, <1>16, <1>17, <1>18, <1>19, <1>20 DEF IInv, AnsweredInv

-----------------------------------------------------------------------------
(* The invariant holds.                                                    *)

LEMMA InitInv ==
    ASSUME NpSrvAssumption, Init
    PROVE  IInv
  <1>1. /\ srv = "running" /\ req = [o \in Objs |-> Unused] /\ reqs = <<>> /\ work = {}
        /\ kept = {} /\ thr = [w \in Threads |-> Idle] /\ open = [t \in Tags |-> "free"]
        /\ conn = [trans |-> TRUE, resetting |-> FALSE, listed |-> TRUE, refcount |-> 2]
    BY DEF Init
  <1>2. PICK n \in Nat : n = Cardinality(Objs)
    BY FS_CardinalityType DEF NpSrvAssumption
  <1>3. PICK s : s = SetToSeq(Objs)
    OBVIOUS
  <1>4. /\ s \in Seq(Objs) /\ Len(s) = n
        /\ \A i, j \in 1..n : s[i] = s[j] => i = j
        /\ \A x \in Objs : \E i \in 1..n : s[i] = x
    BY <1>2, <1>3, SetSeq DEF NpSrvAssumption
  <1>5. pool = s /\ DOMAIN s = 1..n
    BY <1>3, <1>4, LenProperties DEF Init
  <1>6. Live = {}
    BY <1>4, <1>5 DEF Live
  <1>7. \A o \in Objs : req[o] = Unused
    BY <1>1
  <1>8. /\ Unused \in Npreq /\ Unused.refcount = 0 /\ Unused.flushreq = NIL
    BY DEF Unused, Npreq
  <1>9. \A w \in Threads : thr[w] = Idle
    BY <1>1
  <1>10. TypeOK
    <2>1. req \in [Objs -> Npreq]
      BY <1>1, <1>8
    <2>2. thr \in [Threads -> Thread]
      BY <1>1, IdleThread
    <2>3. conn \in Npconn
      BY <1>1 DEF Npconn
    <2>4. reqs \in Seq(Objs)
      BY <1>1
    <2>5. open \in [Tags -> {"free", "io", "flush", "flushed"}]
      BY <1>1
    <2> QED
      BY <1>1, <1>4, <1>5, <2>1, <2>2, <2>3, <2>4, <2>5 DEF TypeOK
  <1>11. \A w \in Threads : ~Answers(w)
    BY <1>9, IdleThread DEF Answers
  <1>12. \A k \in Keys : Start(k) = NIL /\ Part(k) = {}
    <2>1. ASSUME NEW k \in Keys
          PROVE  Start(k) = NIL
      <3>1. CASE k \in Objs
        BY <1>1, <3>1, StartOfObj
      <3>2. CASE k \in Threads
        BY <1>9, <3>2, IdleThread, StartOfThread
      <3> QED
        BY <3>1, <3>2 DEF Keys
    <2> QED
      BY <2>1, ChainNil DEF Part
  <1>13. Chained = {} /\ Queued = {} /\ Pending = {} /\ Final = {}
    BY <1>1, <1>11, <1>12 DEF Chained, Queued, Pending, Final
  <1>14. ChainInv
    BY <1>12, <1>13 DEF ChainInv
  <1>15. QueueInv
    BY <1>1, <1>13 DEF QueueInv
  <1>16. AnsweredInv
    BY <1>11 DEF AnsweredInv
  <1>17. ThreadInv
    BY <1>9, IdleThread DEF ThreadInv, ThreadOK, Resets
  <1>18. CountInv
    <2>1. ASSUME NEW o \in Objs
          PROVE  req[o].refcount = Holding(o)
      <3>1. HeldBy(o) = {}
        BY <1>9, IdleThread DEF HeldBy
      <3>2. Holding(o) = 0
        BY <1>13, <3>1, FS_EmptySet DEF Holding
      <3> QED
        BY <1>7, <1>8, <3>2
    <2> QED
      BY <2>1 DEF CountInv
  <1>19. PoolInv /\ AnswerInv
    BY <1>4, <1>5, <1>6, <1>7, <1>8 DEF PoolInv, AnswerInv
  <1>20. ListedInv /\ ConnRefs
    <2>1. Reader \in Threads
      BY DEF Threads
    <2>2. thr[Reader].pc = "idle"
      BY <1>9, <2>1, IdleThread
    <2>3. conn.listed = TRUE /\ conn.refcount = 2
      BY <1>1
    <2>4. Cardinality(Live) = 0
      BY <1>6, FS_EmptySet
    <2> QED
      BY <2>2, <2>3, <2>4 DEF ListedInv, ConnRefs
  <1> QED
    BY <1>10, <1>14, <1>15, <1>16, <1>17, <1>18, <1>19, <1>20 DEF IInv

LEMMA StutterInv ==
    ASSUME NpSrvAssumption, IInv, UNCHANGED vars
    PROVE  IInv'
  <1>1. srv' \in {"running", "crashed", "locked"}
    BY DEF IInv, TypeOK, vars
  <1> QED
    BY <1>1, Stops DEF vars

LEMMA RespondInv ==
    ASSUME NpSrvAssumption, IInv, NEW w \in Threads, Respond(w)
    PROVE  IInv'
  <1>1. CASE np_respond_next(w)
    <2>1. thr[w].pc = "next"
      BY <1>1 DEF np_respond_next
    <2>2. UNCHANGED <<srv, reqs, work, kept, open>>
      BY <1>1 DEF np_respond_next
    <2>3. CASE req[thr[w].cur].flushreq # NIL
      <3>1. PICK f : f = req[thr[w].cur].flushreq
        OBVIOUS
      <3>2. thr' = [thr EXCEPT ![w].pc = "respond", ![w].cur = f] /\ UNCHANGED <<req, pool, conn>>
        BY <1>1, <2>3, <3>1 DEF np_respond_next
      <3> QED
        BY <2>1, <2>2, <2>3, <3>1, <3>2, NextFlushStep
    <2>4. CASE req[thr[w].cur].flushreq = NIL
      <3>1. PICK q : q = thr[w].req
        OBVIOUS
      <3>2. Release({q}) /\ thr' = [thr EXCEPT ![w] = Idle]
        BY <1>1, <2>4, <3>1 DEF np_respond_next
      <3> QED
        BY <2>1, <2>2, <2>4, <3>1, <3>2, EndStep
    <2> QED
      BY <2>3, <2>4
  <1> QED
    BY <1>1, RespondRemoveStep, ConnRespondStep, WriteStep DEF Respond

LEMMA ResetInv ==
    ASSUME NpSrvAssumption, IInv, NEW w \in Threads, Reset(w)
    PROVE  IInv'
  BY ResetStep, ResetFlushStep, FinishStep DEF Reset

LEMMA WorkInv ==
    ASSUME NpSrvAssumption, IInv, NEW w \in Workers, Work(w)
    PROVE  IInv'
  <1>1. w \in Threads
    BY DEF Threads
  <1> QED
    BY <1>1, TakeStep, ProcessStep, FlushStep, FlushDoneStep, RespondInv, ResetInv DEF Work

LEMMA ClientInv ==
    ASSUME NpSrvAssumption, Prompt, IInv,
           \/ \E t \in Tags : ReadIo(t)
           \/ ReadVersion
           \/ \E t, o \in Tags : ReadFlush(t, o)
    PROVE  IInv'
  <1>1. ASSUME NEW t \in Tags, ReadIo(t)
        PROVE  IInv'
    <2>1. Read("io", t, NIL)
      BY <1>1 DEF ReadIo
    <2> QED
      BY <2>1, ReadStep
  <1>2. ASSUME ReadVersion
        PROVE  IInv'
    <2>1. Read("version", NIL, NIL)
      BY <1>2 DEF ReadVersion
    <2> QED
      BY <2>1, ReadStep
  <1>3. ASSUME NEW t \in Tags, NEW o \in Tags, ReadFlush(t, o)
        PROVE  IInv'
    <2>1. Read("flush", t, o)
      BY <1>3 DEF ReadFlush
    <2> QED
      BY <2>1, ReadStep
  <1> QED
    BY <1>1, <1>2, <1>3

LEMMA NextInv ==
    ASSUME NpSrvAssumption, Prompt, IInv, [Next]_vars
    PROVE  IInv'
  <1>1. Service \in Threads /\ Reader \in Threads
    BY DEF Threads
  <1>2. CASE UNCHANGED vars
    BY <1>2, StutterInv
  <1>3. CASE \/ \E t \in Tags : ReadIo(t)
             \/ ReadVersion
             \/ \E t, o \in Tags : ReadFlush(t, o)
    BY <1>3, ClientInv
  <1>4. CASE Hangup
    BY <1>4, HangupStep
  <1>5. CASE np_srv_remove_conn
    BY <1>5, RemoveConnStep
  <1>6. CASE Reset(Reader)
    BY <1>1, <1>6, ResetInv
  <1>7. CASE \E w \in Workers : Work(w)
    BY <1>7, WorkInv
  <1>8. CASE \E o \in Objs : Complete(o)
    BY <1>8, CompleteStep
  <1>9. CASE Respond(Service)
    BY <1>1, <1>9, RespondInv
  <1> QED
    BY <1>2, <1>3, <1>4, <1>5, <1>6, <1>7, <1>8, <1>9 DEF Next

\* The inductive invariant holds, when np_respond follows the link of a structure it has
\* released before the structure is a request again.
THEOREM NpSrvInv ==
    ASSUME Prompt
    PROVE  Spec => []IInv
  <1>1. Init => IInv
    BY InitInv, NpSrvAssumption
  <1>2. IInv /\ [Next]_vars => IInv'
    BY NextInv, NpSrvAssumption
  <1> QED
    BY <1>1, <1>2, PTL DEF Spec

-----------------------------------------------------------------------------
(* The properties.                                                         *)

LEMMA AnsweringIs ==
    ASSUME NpSrvAssumption, NEW w \in Threads, Answers(w) => thr[w].cur \in Objs
    PROVE  Answering(w) = IF Answers(w) THEN {thr[w].req} \cup Part(w) ELSE {}
  <1>1. CASE thr[w].pc \in {"respond", "write"}
    <2>1. Answering(w) = {thr[w].req} \cup Chain(thr[w].cur) /\ Answers(w)
      BY <1>1 DEF Answering, Answers
    <2>2. Start(w) = thr[w].cur
      BY <1>1, StartOfThread
    <2> QED
      BY <2>1, <2>2, ChainsOfLinks DEF Part
  <1>2. CASE thr[w].pc = "next"
    <2>1. Answering(w) = {thr[w].req} \cup Chain(req[thr[w].cur].flushreq) /\ Answers(w)
      BY <1>2 DEF Answering, Answers
    <2>2. Start(w) = req[thr[w].cur].flushreq
      BY <1>2, <2>1, StartOfThread DEF Links
    <2> QED
      BY <2>1, <2>2, ChainsOfLinks DEF Part
  <1>3. CASE ~Answers(w)
    BY <1>3 DEF Answering, Answers
  <1> QED
    BY <1>1, <1>2, <1>3 DEF Answers

\* The reference count of a request is exact, whatever threads answer it, flush it and reset
\* its connection: np_req_ref and np_req_unref are called in pairs.
THEOREM NpSrvRequestRefs ==
    ASSUME Prompt
    PROVE  Spec => []RequestRefs
  <1>1. IInv => RequestRefs
    <2> SUFFICES ASSUME IInv
                 PROVE  RequestRefs
      OBVIOUS
    <2>1. TypeOK /\ ChainInv /\ AnsweredInv /\ CountInv
      BY DEF IInv
    <2>2. \A w \in Threads : Answering(w) = IF Answers(w) THEN {thr[w].req} \cup Part(w) ELSE {}
      BY <2>1, AnsweringIs, NpSrvAssumption DEF AnsweredInv, AnsweredOK
    <2>3. \A k \in Objs : Part(k) \subseteq work
      BY <2>1, StartOfObj DEF ChainInv
    <2>4. \A w \in Threads : ~Answers(w) => Part(w) \subseteq work
      BY <2>1, StartOfThread, NpSrvAssumption DEF ChainInv
    <2>5. ASSUME NEW o \in Objs
          PROVE  req[o].refcount = Cardinality(Holders(o))
      <3>1. o \in Queued \cup work \cup UNION {Answering(w) : w \in Threads}
               <=> o \in Pending \cup Final
        <4>1. ASSUME NEW w \in Threads, o \in Answering(w)
              PROVE  o \in Pending \cup Final
          <5>1. Answers(w) /\ (o = thr[w].req \/ o \in Part(w)) /\ w \in Keys
            BY <2>2, <4>1 DEF Keys
          <5> QED
            BY <5>1 DEF Pending, Chained, Final
        <4>2. ASSUME o \in Final
              PROVE  \E w \in Threads : o \in Answering(w)
          BY <2>2, <4>2 DEF Final
        <4>3. ASSUME o \in Chained, o \notin work
              PROVE  \E w \in Threads : o \in Answering(w)
          <5>1. PICK k \in Keys : o \in Part(k)
            BY <4>3 DEF Chained
          <5>2. k \in Threads /\ Answers(k)
            BY <2>3, <2>4, <4>3, <5>1 DEF Keys
          <5> QED
            BY <2>2, <5>1, <5>2
        <4> QED
          BY <4>1, <4>2, <4>3 DEF Pending
      <3>2. PICK H : H = HeldBy(o)
        OBVIOUS
      <3>3. IsFiniteSet(H) /\ Cardinality(H) \in Nat /\ NIL \notin H
        BY <3>2, HeldByFinite, NpSrvAssumption DEF HeldBy, NpSrvAssumption, Threads
      <3>4. Holders(o) = IF o \in Pending \cup Final THEN H \cup {NIL} ELSE H
        BY <3>1, <3>2 DEF Holders, HeldBy
      <3>5. Cardinality(H \cup {NIL}) = Cardinality(H) + 1
        BY <3>3, FS_AddElement
      <3>6. req[o].refcount = Cardinality(H) + (IF o \in Pending \cup Final THEN 1 ELSE 0)
        BY <2>1, <3>2 DEF CountInv, Holding
      <3> QED
        BY <3>3, <3>4, <3>5, <3>6
    <2> QED
      BY <2>1, <2>5 DEF RequestRefs
  <1> QED
    BY <1>1, NpSrvInv, PTL

\* The connection is counted by its reader, by srv->conns and by each request that is not in
\* the pool: np_conn_decref frees it behind the last of them.
THEOREM NpSrvConnRefs ==
    ASSUME Prompt
    PROVE  Spec => []ConnRefs
  <1>1. IInv => ConnRefs
    BY DEF IInv
  <1> QED
    BY <1>1, NpSrvInv, PTL

\* The structures that go back to the pool.
LEMMA FreedThen ==
    ASSUME NpSrvAssumption, IInv, NEW S \in SUBSET Objs, pool' = SetToSeq(Freed(S)) \o pool
    PROVE  Live \ Live' \subseteq Freed(S)
  <1>1. TypeOK /\ PoolInv
    BY DEF IInv
  <1>2. PICK F : F = Freed(S)
    OBVIOUS
  <1>3. F \in SUBSET Objs /\ F \subseteq Live /\ pool' = SetToSeq(F) \o pool
    BY <1>1, <1>2 DEF Freed, PoolInv
  <1>4. Live' = Live \ F
    BY <1>1, <1>3, PoolReleased
  <1> QED
    BY <1>2, <1>4

\* Those that are freed and were not waited for had their answer.
FreedAnswered == \A o \in (Live \ Live') \ Queued : req'[o].answers = 1

LEMMA FreesNothing ==
    ASSUME pool' = pool
    PROVE  FreedAnswered
  BY DEF FreedAnswered, Live

LEMMA FreesFinal ==
    ASSUME NpSrvAssumption, IInv, NEW S \in SUBSET Objs, Refcounted(S, {}),
           \A o \in S : o \notin Pending \/ req[o].refcount # 1
    PROVE  FreedAnswered
  <1>1. TypeOK /\ PoolInv /\ AnswerInv
    BY DEF IInv
  <1>2. Live \ Live' \subseteq Freed(S)
    BY FreedThen DEF Refcounted
  <1>3. ASSUME NEW o \in Freed(S)
        PROVE  req'[o].answers = 1
    <2>1. o \in S /\ o \in Objs /\ req[o].refcount = 1
      BY DEF Freed
    <2>2. req'[o].answers = req[o].answers
      BY <1>1, <2>1, UnrefFields DEF Refcounted
    <2>3. o \in Live /\ o \notin Pending
      BY <1>1, <2>1 DEF PoolInv
    <2> QED
      BY <1>1, <2>2, <2>3 DEF AnswerInv
  <1> QED
    BY <1>2, <1>3 DEF FreedAnswered

LEMMA FreesQueued ==
    ASSUME NpSrvAssumption, IInv, NEW S \in SUBSET Queued, pool' = SetToSeq(Freed(S)) \o pool
    PROVE  FreedAnswered
  <1>1. S \in SUBSET Objs
    BY DEF IInv, TypeOK, Queued
  <1>2. Live \ Live' \subseteq Queued
    BY <1>1, FreedThen DEF Freed
  <1> QED
    BY <1>2 DEF FreedAnswered

\* A thread's own reference is not the last one of a request that is waited for.
LEMMA FreesHeld ==
    ASSUME NpSrvAssumption, IInv, NEW w \in Threads, Refcounted(thr[w].held, {})
    PROVE  FreedAnswered
  <1>1. TypeOK /\ CountInv
    BY DEF IInv
  <1>2. PICK S \in SUBSET Objs : S = thr[w].held
    BY <1>1 DEF TypeOK, Thread
  <1>3. ASSUME NEW o \in S, o \in Pending
        PROVE  req[o].refcount # 1
    <2>1. HeldBy(o) # {}
      BY <1>2 DEF HeldBy
    <2>2. Holding(o) >= 2 /\ Holding(o) \in Nat
      BY <1>3, <2>1, HoldingFacts
    <2>3. req[o].refcount = Holding(o)
      BY <1>1 DEF CountInv
    <2> QED
      BY <2>2, <2>3
  <1> QED
    BY <1>2, <1>3, FreesFinal

LEMMA FreesRead ==
    ASSUME NpSrvAssumption, IInv, NEW type, NEW t, NEW o, Read(type, t, o)
    PROVE  FreedAnswered
  <1>1. PICK s \in Seq(Objs) : s = pool
    BY DEF IInv, TypeOK
  <1>2. s # <<>> /\ pool' = Tail(s) /\ \A i, j \in DOMAIN s : s[i] = s[j] => i = j
    BY <1>1 DEF Read, IInv, PoolInv
  <1>3. PICK u, h : u = Tail(s) /\ h = Head(s)
    OBVIOUS
  <1>4. Without(s, u, h)
    BY <1>2, <1>3, SeqTail
  <1>5. Elements(pool') \subseteq Elements(pool)
    BY <1>1, <1>2, <1>3, <1>4 DEF Without
  <1>6. Live \subseteq Live'
    BY <1>5 DEF Live, Elements
  <1> QED
    BY <1>6 DEF FreedAnswered

LEMMA FreesAnswered ==
    ASSUME NpSrvAssumption, IInv, NEW w \in Threads, thr[w].pc = "write", Answered(w)
    PROVE  FreedAnswered
  <1>1. TypeOK /\ ChainInv /\ AnsweredInv /\ CountInv /\ PoolInv /\ AnswerInv
    BY DEF IInv
  <1>2. Answers(w) /\ AnsweredOK(w)
    BY <1>1 DEF Answers, AnsweredInv
  <1>3. PICK o \in Objs : o = thr[w].cur
    BY <1>2 DEF AnsweredOK
  <1>4. PICK S \in SUBSET Objs : S = {o} \ {thr[w].req}
    OBVIOUS
  <1>5. o \in Pending
    <2>1. Start(w) = o /\ o # NIL /\ w \in Keys
      BY <1>3, StartOfThread DEF NpSrvAssumption
    <2>2. o \in Part(w) /\ Part(w) \subseteq Chained
      BY <1>1, <2>1, PartFacts
    <2> QED
      BY <2>2 DEF Pending
  <1>6. req[o].refcount # 0 /\ o \in Live
    BY <1>1, <1>5, Counted
  <1>7. Written(o, S)
    BY <1>1, <1>3, <1>4, <1>6, AnsweredFields
  <1>8. Live \ Live' \subseteq Freed(S)
    BY <1>7, FreedThen DEF Written
  <1>9. req'[o].answers = 1
    BY <1>1, <1>5, <1>6, <1>7 DEF AnswerInv, Written
  <1>10. Freed(S) \subseteq {o}
    BY <1>4 DEF Freed
  <1> QED
    BY <1>8, <1>9, <1>10 DEF FreedAnswered

LEMMA FreesFlush ==
    ASSUME NpSrvAssumption, IInv, NEW w \in Workers, np_flush(w)
    PROVE  FreedAnswered
  <1> DEFINE r == thr[w].req
             pending == {i \in DOMAIN reqs : req[reqs[i]].tag = req[r].oldtag}
  <1>1. TypeOK
    BY DEF IInv
  <1>2. CASE pool' = pool
    BY <1>2, FreesNothing
  <1>3. CASE pending # {} /\ Release({reqs[Min(pending)]})
    <2>1. pending \in SUBSET (DOMAIN reqs) /\ pending \in SUBSET Nat
      BY <1>1 DEF TypeOK
    <2>2. PICK i : i = Min(pending)
      OBVIOUS
    <2>3. Release({reqs[i]}) /\ pending # {}
      BY <1>3, <2>2
    <2> HIDE DEF pending
    <2>4. i \in DOMAIN reqs
      BY <2>1, <2>2, <2>3, FirstOf
    <2>5. PICK S : S = {reqs[i]}
      OBVIOUS
    <2>6. S \in SUBSET Queued
      BY <2>4, <2>5 DEF Queued
    <2>7. pool' = SetToSeq(Freed(S)) \o pool
      BY <2>3, <2>5 DEF Release
    <2> QED
      BY <2>6, <2>7, FreesQueued
  <1>4. pool' = pool \/ (pending # {} /\ Release({reqs[Min(pending)]}))
    BY Zenon DEF np_flush
  <1> QED
    BY <1>2, <1>3, <1>4

LEMMA FreesReset ==
    ASSUME NpSrvAssumption, IInv, NEW w \in Threads, Reset(w)
    PROVE  FreedAnswered
  <1>1. CASE np_conn_reset(w) \/ np_conn_reset_wait(w)
    BY <1>1, FreesNothing DEF np_conn_reset, np_conn_reset_wait
  <1>2. CASE np_conn_reset_flush(w)
    <2>1. pool' = SetToSeq(Freed(Queued)) \o pool
      BY <1>2 DEF np_conn_reset_flush
    <2>2. PICK S \in SUBSET Queued : S = Queued
      OBVIOUS
    <2> QED
      BY <2>1, <2>2, FreesQueued
  <1>3. CASE np_conn_reset_finish(w)
    <2>1. Refcounted(thr[w].held, {})
      BY <1>3 DEF np_conn_reset_finish, Refcounted
    <2> QED
      BY <2>1, FreesHeld
  <1> QED
    BY <1>1, <1>2, <1>3 DEF Reset

LEMMA FreesRespond ==
    ASSUME NpSrvAssumption, IInv, NEW w \in Threads, Respond(w)
    PROVE  FreedAnswered
  <1>1. CASE pool' = pool
    BY <1>1, FreesNothing
  <1>2. CASE thr[w].pc = "write" /\ Answered(w)
    BY <1>2, FreesAnswered
  <1>3. CASE thr[w].pc = "next" /\ Release({thr[w].req})
    <2>1. Answers(w) /\ AnsweredOK(w)
      BY <1>3 DEF Answers, IInv, AnsweredInv
    <2>2. PICK S \in SUBSET Objs : S = {thr[w].req}
      BY <2>1 DEF AnsweredOK
    <2>3. Refcounted(S, {})
      BY <1>3, <2>2 DEF Release, Refcounted
    <2>4. thr[w].req \notin Pending
      BY <1>3, <2>1 DEF AnsweredOK, Pending, Chained
    <2> QED
      BY <2>2, <2>3, <2>4, FreesFinal
  <1>4. \/ pool' = pool
        \/ thr[w].pc = "write" /\ Answered(w)
        \/ thr[w].pc = "next" /\ Release({thr[w].req})
    BY DEF Respond, np_respond_remove, np_conn_respond, np_conn_respond_write, np_respond_next
  <1> QED
    BY <1>1, <1>2, <1>3, <1>4

LEMMA NextFrees ==
    ASSUME NpSrvAssumption, IInv, [Next]_vars
    PROVE  FreedAnswered
  <1>1. Service \in Threads /\ Reader \in Threads
    BY DEF Threads
  <1>2. CASE UNCHANGED vars
    BY <1>2, FreesNothing DEF vars
  <1>3. CASE \/ \E t \in Tags : ReadIo(t)
             \/ ReadVersion
             \/ \E t, o \in Tags : ReadFlush(t, o)
    BY <1>3, FreesRead DEF ReadIo, ReadVersion, ReadFlush
  <1>4. CASE Hangup \/ np_srv_remove_conn
    BY <1>4, FreesNothing DEF Hangup, np_srv_remove_conn
  <1>5. CASE Reset(Reader)
    BY <1>1, <1>5, FreesReset
  <1>6. ASSUME NEW w \in Workers, Work(w)
        PROVE  FreedAnswered
    <2>1. w \in Threads
      BY DEF Threads
    <2>2. CASE Take(w) \/ np_process_request(w)
      BY <2>2, FreesNothing DEF Take, np_process_request
    <2>3. CASE np_flush(w)
      BY <2>3, FreesFlush
    <2>4. CASE FlushDone(w)
      <3>1. Refcounted(thr[w].held, {})
        BY <2>4 DEF FlushDone, Release, Refcounted
      <3> QED
        BY <2>1, <3>1, FreesHeld
    <2>5. CASE Respond(w) \/ Reset(w)
      BY <2>1, <2>5, FreesRespond, FreesReset
    <2> QED
      BY <1>6, <2>2, <2>3, <2>4, <2>5 DEF Work
  <1>7. CASE \E o \in Objs : Complete(o)
    BY <1>7, FreesNothing DEF Complete
  <1>8. CASE Respond(Service)
    BY <1>1, <1>8, FreesRespond
  <1> QED
    BY <1>2, <1>3, <1>4, <1>5, <1>6, <1>7, <1>8 DEF Next

\* A request that a thread has taken is given back with exactly one answer: by np_respond of the
\* thread that has it, or of the request it flushes, whatever resets happen meanwhile.
THEOREM NpSrvAnsweredOnce ==
    ASSUME Prompt
    PROVE  Spec => AnsweredOnce
  <1>1. IInv /\ [Next]_vars => [\A o \in (Live \ Live') \ Queued : req'[o].answers = 1]_vars
    BY NextFrees, NpSrvAssumption DEF FreedAnswered
  <1> QED
    BY <1>1, NpSrvInv, PTL DEF Spec, AnsweredOnce
=============================================================================
