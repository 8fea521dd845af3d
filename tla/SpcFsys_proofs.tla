--------------------------- MODULE SpcFsys_proofs ---------------------------
(***************************************************************************)
(* Proofs about the requests of libspclient, for any number of requests,   *)
(* files and tags: a callback is called once and a request is freed once;  *)
(* and while the tags last the program gets the reply to its own request.  *)
(***************************************************************************)
EXTENDS SpcFsys, FiniteSetTheorems, WellFoundedInduction, TLAPS

-----------------------------------------------------------------------------
(* The inductive invariant of the requests, of any Spcfsys.                *)

MadeIn(F) == 1..F.n
ListedIn(F) == F.pend \cup F.sent
FlushIn(F, r) == F.req[r].old # NIL

\* Only what was made is in a list, and in one; without a connection nothing is.
ListInv(F) ==
    /\ F.pend \subseteq MadeIn(F) /\ F.sent \subseteq MadeIn(F)
    /\ F.pend \cap F.sent = {}
    /\ ~F.spfd => ListedIn(F) = {}

\* A Tflush is for an earlier request of the program, which has no other.
FlushInv(F) ==
    \A r \in MadeIn(F) :
        IF FlushIn(F, r)
        THEN /\ F.req[r].old \in MadeIn(F) /\ F.req[r].old < r
             /\ ~FlushIn(F, F.req[r].old) /\ F.req[F.req[r].old].flushed
             /\ \A q \in MadeIn(F) : F.req[q].old = F.req[r].old => q = r
             /\ F.req[r].fid = NIL /\ ~F.req[r].flushed
        ELSE F.req[r].fid \in Fids

\* A request that is flushed was sent, and leaves the list at the latest with its Tflush.
FlushedInv(F) ==
    \A r \in ListedIn(F) :
        F.req[r].flushed => r \in F.sent /\ \E f \in ListedIn(F) : F.req[f].old = r

\* What CompletedOnce counts.
CountInv(F) ==
    \A r \in MadeIn(F) :
        /\ ~FlushIn(F, r) => F.req[r].calls = (IF r \in ListedIn(F) THEN 0 ELSE 1)
        /\ F.req[r].freed =
              (IF r \in ListedIn(F) \/ \E f \in ListedIn(F) : F.req[f].old = r THEN 0 ELSE 1)

\* The callback of a Tflush is that of the library.
SilentInv(F) == \A r \in MadeIn(F) : FlushIn(F, r) => F.req[r].calls = 0

Good(F) ==
    /\ F \in Spcfsys
    /\ ListInv(F) /\ FlushInv(F) /\ FlushedInv(F) /\ CountInv(F) /\ SilentInv(F)

-----------------------------------------------------------------------------
(* Lemmas.                                                                 *)

\* A set of natural numbers has a least element, the one Min chooses.
LEMMA LeastMember ==
    ASSUME NEW S \in SUBSET Nat, S # {}
    PROVE  Min(S) \in S /\ \A x \in S : Min(S) <= x
  <1>1. \E x \in S : \A y \in S : ~(<<y, x>> \in OpToRel(<, Nat))
    BY NatLessThanWellFounded, WFMin, Zenon
  <1>2. PICK x \in S : \A y \in S : ~(<<y, x>> \in OpToRel(<, Nat))
    BY <1>1, Zenon
  <1>3. ASSUME NEW y \in S
        PROVE  x <= y
    <2>1. ~(<<y, x>> \in {ss \in Nat \X Nat : ss[1] < ss[2]})
      BY <1>2 DEF OpToRel
    <2> QED
      BY <2>1
  <1>4. \E z \in S : \A y \in S : z <= y
    BY <1>3
  <1> QED
    BY <1>4 DEF Min

\* A set of requests has a greatest element, the one Max chooses.
LEMMA GreatestMember ==
    ASSUME SpcFsysAssumption, NEW S \in SUBSET Reqs, S # {}
    PROVE  Max(S) \in S /\ \A x \in S : x <= Max(S)
  <1>1. PICK n \in Nat : n = MaxReqs
    BY DEF SpcFsysAssumption
  <1>2. S \subseteq 1..n
    BY <1>1 DEF Reqs
  <1> DEFINE T == {i \in 0..n : n - i \in S}
  <1>3. T \in SUBSET Nat /\ T # {}
    <2>1. PICK s \in S : TRUE
      OBVIOUS
    <2>2. s \in 1..n
      BY <1>2
    <2>3. n - s \in 0..n /\ n - (n - s) = s
      BY <2>2
    <2>4. n - s \in T
      BY <2>3
    <2>5. T \subseteq Nat
      OBVIOUS
    <2> QED
      BY <2>4, <2>5
  <1>4. Min(T) \in T /\ \A x \in T : Min(T) <= x
    <2> HIDE DEF T
    <2> QED
      BY <1>3, LeastMember
  <1>5. PICK m \in 0..n : m = Min(T) /\ n - m \in S
    BY <1>4
  <1>6. ASSUME NEW x \in S
        PROVE  n - m >= x
    <2>1. x \in 1..n
      BY <1>2
    <2>2. n - x \in 0..n /\ n - (n - x) = x
      BY <2>1
    <2>3. n - x \in T
      BY <2>2
    <2>4. m <= n - x
      BY <1>4, <1>5, <2>3
    <2> QED
      BY <2>1, <2>4
  <1>7. \E x \in S : \A y \in S : x >= y
    BY <1>5, <1>6
  <1>8. Max(S) \in S /\ \A y \in S : Max(S) >= y
    BY <1>7 DEF Max
  <1>9. \A y \in S : y \in Nat
    BY <1>2
  <1> QED
    BY <1>8, <1>9

\* What a set of sets that grow holds of its own: they have all sizes, once each.
LEMMA Ranks ==
    ASSUME NEW S, IsFiniteSet(S), NEW up \in [S -> SUBSET S],
           \A t \in S : t \in up[t],
           \A t, u \in S : t # u => \/ up[t] \subseteq up[u] \ {u}
                                    \/ up[u] \subseteq up[t] \ {t}
    PROVE  /\ \A t \in S : Cardinality(up[t]) \in 1..Cardinality(S)
           /\ \A t, u \in S : Cardinality(up[t]) = Cardinality(up[u]) => t = u
           /\ \A i \in 1..Cardinality(S) : \E t \in S : Cardinality(up[t]) = i
  <1> DEFINE rank == [t \in S |-> Cardinality(up[t])]
  <1>1. PICK s \in Nat : s = Cardinality(S)
    BY FS_CardinalityType
  <1>2. ASSUME NEW t \in S
        PROVE  /\ IsFiniteSet(up[t]) /\ Cardinality(up[t]) \in 1..s
    <2>1. up[t] \in SUBSET S /\ up[t] # {}
      OBVIOUS
    <2>2. IsFiniteSet(up[t]) /\ Cardinality(up[t]) <= s
      BY <1>1, <2>1, FS_Subset
    <2>3. Cardinality(up[t]) \in Nat /\ Cardinality(up[t]) # 0
      BY <2>1, <2>2, FS_CardinalityType, FS_EmptySet
    <2> QED
      BY <2>2, <2>3
  <1>3. ASSUME NEW t \in S, NEW u \in S, up[t] \subseteq up[u] \ {u}
        PROVE  Cardinality(up[t]) < Cardinality(up[u])
    <2>1. PICK c \in Nat : c = Cardinality(up[u])
      BY <1>2
    <2>2. IsFiniteSet(up[u] \ {u}) /\ Cardinality(up[u] \ {u}) = c - 1
      BY <1>2, <2>1, FS_RemoveElement
    <2>3. Cardinality(up[t]) <= c - 1
      BY <1>3, <2>2, FS_Subset
    <2> QED
      BY <1>2, <2>1, <2>3
  <1>4. ASSUME NEW t \in S, NEW u \in S, Cardinality(up[t]) = Cardinality(up[u]), t # u
        PROVE  FALSE
    <2>1. Cardinality(up[t]) < Cardinality(up[u]) \/ Cardinality(up[u]) < Cardinality(up[t])
      BY <1>3, <1>4
    <2> QED
      BY <1>2, <1>4, <2>1
  <1>5. rank \in Injection(S, 1..s)
    <2>1. rank \in [S -> 1..s] /\ \A t \in S : rank[t] = Cardinality(up[t])
      BY <1>2
    <2> HIDE DEF rank
    <2> QED
      BY <1>4, <2>1 DEF Injection, IsInjective
  <1>6. IsFiniteSet(1..s) /\ Cardinality(1..s) = s
    BY FS_Interval
  <1>7. rank \in Surjection(S, 1..s)
    <2> HIDE DEF rank
    <2> QED
      BY <1>1, <1>5, <1>6, FS_Injection
  <1>8. \A i \in 1..s : \E t \in S : rank[t] = i
    BY <1>7 DEF Surjection
  <1> QED
    BY <1>1, <1>2, <1>4, <1>8

\* The tags that are free are given one after another.
LEMMA Tags ==
    ASSUME SpcFsysAssumption, NEW tags \in SUBSET (0..NTags - 1)
    PROVE  LET free == (0..NTags - 1) \ tags
           IN  /\ IsFiniteSet(free) /\ Cardinality(free) \in Nat
               /\ \A i \in 1..Cardinality(free) : spc_get_id(tags, i) \in free
               /\ \A i, j \in 1..Cardinality(free) :
                      spc_get_id(tags, i) = spc_get_id(tags, j) => i = j
  <1> DEFINE free == (0..NTags - 1) \ tags
             to(t) == {u \in free : u <= t}
             up == [t \in free |-> to(t)]
  <1>1. IsFiniteSet(0..NTags - 1)
    BY FS_Interval DEF SpcFsysAssumption
  <1>2. free \in SUBSET (0..NTags - 1)
    OBVIOUS
  <1>3. IsFiniteSet(free) /\ Cardinality(free) \in Nat
    <2> HIDE DEF free
    <2> QED
      BY <1>1, <1>2, FS_Subset, FS_CardinalityType
  <1>4. \A t \in free : t \in Nat
    BY <1>2 DEF SpcFsysAssumption
  <1>5. \A i \in 1..Cardinality(free) :
            spc_get_id(tags, i) = CHOOSE t \in free : Cardinality(to(t)) = i
    <2> SUFFICES ASSUME NEW i \in 1..Cardinality(free)
                 PROVE  spc_get_id(tags, i) = CHOOSE t \in free : Cardinality(to(t)) = i
      OBVIOUS
    <2>1. ~(i > Cardinality(free))
      BY <1>3
    <2> QED
      BY <2>1, Zenon DEF spc_get_id
  <1> HIDE DEF free
  <1>6. \A i \in 1..Cardinality(free) : \E t \in free : Cardinality(to(t)) = i
    <2>1. up \in [free -> SUBSET free] /\ \A t \in free : up[t] = to(t)
      OBVIOUS
    <2>2. \A t \in free : t \in to(t)
      BY <1>4
    <2>3. ASSUME NEW t \in free, NEW u \in free, t # u
          PROVE  to(t) \subseteq to(u) \ {u} \/ to(u) \subseteq to(t) \ {t}
      <3>1. t < u \/ u < t
        BY <1>4, <2>3
      <3>2. CASE t < u
        BY <1>4, <3>2
      <3>3. CASE u < t
        BY <1>4, <3>3
      <3> QED
        BY <3>1, <3>2, <3>3
    <2> HIDE DEF up, to
    <2>4. \A i \in 1..Cardinality(free) : \E t \in free : Cardinality(up[t]) = i
      BY <1>3, <2>1, <2>2, <2>3, Ranks
    <2> QED
      BY <2>1, <2>4
  <1> HIDE DEF to
  <1>7. \A i \in 1..Cardinality(free) :
            spc_get_id(tags, i) \in free /\ Cardinality(to(spc_get_id(tags, i))) = i
    BY <1>5, <1>6
  <1> QED
    BY <1>3, <1>7 DEF free

\* Each request of a set is found at one place along the list.
LEMMA AlongAll ==
    ASSUME SpcFsysAssumption, NEW S \in SUBSET Reqs
    PROVE  /\ IsFiniteSet(S) /\ Cardinality(S) \in Nat
           /\ \A i \in 1..Cardinality(S) : Along(S, i) \in S
           /\ \A i, j \in 1..Cardinality(S) : Along(S, i) = Along(S, j) => i = j
           /\ \A r \in S : \E i \in 1..Cardinality(S) : Along(S, i) = r
  <1> DEFINE from(r) == {q \in S : q >= r}
             up == [r \in S |-> from(r)]
  <1>1. IsFiniteSet(Reqs)
    BY FS_Interval DEF SpcFsysAssumption, Reqs
  <1>2. IsFiniteSet(S) /\ Cardinality(S) \in Nat
    BY <1>1, FS_Subset, FS_CardinalityType
  <1>3. \A r \in S : r \in Nat
    BY DEF Reqs, SpcFsysAssumption
  <1>4. \A i : Along(S, i) = CHOOSE r \in S : Cardinality(from(r)) = i
    BY DEF Along
  <1>5. /\ \A t \in S : Cardinality(from(t)) \in 1..Cardinality(S)
        /\ \A t, u \in S : Cardinality(from(t)) = Cardinality(from(u)) => t = u
        /\ \A i \in 1..Cardinality(S) : \E t \in S : Cardinality(from(t)) = i
    <2>1. up \in [S -> SUBSET S] /\ \A t \in S : up[t] = from(t)
      OBVIOUS
    <2>2. \A t \in S : t \in from(t)
      BY <1>3
    <2>3. ASSUME NEW t \in S, NEW u \in S, t # u
          PROVE  from(t) \subseteq from(u) \ {u} \/ from(u) \subseteq from(t) \ {t}
      <3>1. t < u \/ u < t
        BY <1>3, <2>3
      <3>2. CASE t < u
        BY <1>3, <3>2
      <3>3. CASE u < t
        BY <1>3, <3>3
      <3> QED
        BY <3>1, <3>2, <3>3
    <2> HIDE DEF up, from
    <2>4. \A t \in S : t \in up[t]
      BY <2>1, <2>2
    <2>5. \A t, u \in S : t # u => \/ up[t] \subseteq up[u] \ {u}
                                   \/ up[u] \subseteq up[t] \ {t}
      BY <2>1, <2>3
    <2>6. /\ \A t \in S : Cardinality(up[t]) \in 1..Cardinality(S)
          /\ \A t, u \in S : Cardinality(up[t]) = Cardinality(up[u]) => t = u
          /\ \A i \in 1..Cardinality(S) : \E t \in S : Cardinality(up[t]) = i
      BY <1>2, <2>1, <2>4, <2>5, Ranks
    <2> QED
      BY <2>1, <2>6
  <1> HIDE DEF from
  <1>6. \A i \in 1..Cardinality(S) : Along(S, i) \in S /\ Cardinality(from(Along(S, i))) = i
    BY <1>4, <1>5
  <1>7. \A r \in S : Along(S, Cardinality(from(r))) = r
    BY <1>4, <1>5, <1>6
  <1> QED
    BY <1>2, <1>5, <1>6, <1>7

\* The ID of a full pool is in its range too.
LEMMA TagType ==
    ASSUME SpcFsysAssumption, NEW tags \in SUBSET (0..NTags - 1), NEW i \in Nat, i > 0
    PROVE  spc_get_id(tags, i) \in 0..NTags - 1
  <1>1. PICK c \in Nat : c = Cardinality((0..NTags - 1) \ tags)
    BY Tags
  <1>2. CASE i > c
    <2>1. spc_get_id(tags, i) = NTags \div 8
      BY <1>1, <1>2 DEF spc_get_id
    <2>2. NTags \in Nat /\ NTags > 0
      BY DEF SpcFsysAssumption
    <2>3. NTags \div 8 \in 0..NTags - 1
      BY <2>2
    <2> QED
      BY <2>1, <2>3
  <1>3. CASE ~(i > c)
    <2>1. i \in 1..c
      BY <1>3
    <2> QED
      BY <1>1, <2>1, Tags
  <1> QED
    BY <1>2, <1>3

\* The fields of a Spcfsys.
LEMMA Fields ==
    ASSUME NEW F \in Spcfsys
    PROVE  /\ F.spfd \in BOOLEAN /\ F.writable \in BOOLEAN /\ F.half \in BOOLEAN
           /\ F.n \in 0..MaxReqs /\ F.req \in [Reqs -> Spcreq]
           /\ F.pend \in SUBSET Reqs /\ F.sent \in SUBSET Reqs
           /\ F.tags \in SUBSET (0..NTags - 1)
  BY DEF Spcfsys

LEMMA ReqFields ==
    ASSUME NEW x \in Spcreq
    PROVE  /\ x.fid \in Fids \cup {NIL} /\ x.old \in Reqs \cup {NIL} /\ x.tag \in 0..NTags - 1
           /\ x.flushed \in BOOLEAN /\ x.calls \in 0..2 /\ x.freed \in 0..2
           /\ x.rc \in Reqs \cup {NIL}
  BY DEF Spcreq

\* NIL is no request and no file; requests are numbers from 1.
LEMMA Names ==
    ASSUME SpcFsysAssumption
    PROVE  /\ NIL \notin Reqs /\ NIL \notin Fids
           /\ MaxReqs \in Nat /\ Reqs = 1..MaxReqs /\ Reqs \subseteq Nat
  BY DEF SpcFsysAssumption, Reqs

\* G is F with k more requests at the end, for olds, and the others as they were.
Extended(F, G, fid, k, olds) ==
    /\ G \in Spcfsys
    /\ G.spfd = F.spfd /\ G.n = F.n + k /\ G.sent = F.sent
    /\ G.pend = F.pend \cup F.n + 1..F.n + k
    /\ G.tags = F.tags \cup {spc_get_id(F.tags, i) : i \in 1..k}
    /\ \A r \in Reqs : r \notin F.n + 1..F.n + k => G.req[r] = F.req[r]
    /\ \A i \in 1..k : G.req[F.n + i] =
           [fid |-> fid, old |-> olds[i], tag |-> spc_get_id(F.tags, i),
            flushed |-> FALSE, calls |-> 0, freed |-> 0, rc |-> NIL]

LEMMA Extends ==
    ASSUME SpcFsysAssumption, NEW F \in Spcfsys, NEW fid \in Fids \cup {NIL}, NEW k \in Nat,
           NEW olds \in [1..k -> Reqs \cup {NIL}], F.n + k <= MaxReqs
    PROVE  Extended(F, Spcreq_new(F, fid, olds), fid, k, olds)
  <1> DEFINE new(i) == [fid |-> fid, old |-> olds[i], tag |-> spc_get_id(F.tags, i),
                        flushed |-> FALSE, calls |-> 0, freed |-> 0, rc |-> NIL]
             req == [r \in Reqs |-> IF r \in F.n + 1..F.n + k THEN new(r - F.n) ELSE F.req[r]]
             ids == {spc_get_id(F.tags, i) : i \in 1..k}
             G == [F EXCEPT !.n = @ + k, !.req = req, !.tags = @ \cup ids,
                            !.pend = @ \cup F.n + 1..F.n + k]
  <1>1. Len(olds) = k
    <2>1. olds \in Seq(Reqs \cup {NIL}) /\ DOMAIN olds = 1..k
      OBVIOUS
    <2> QED
      BY <2>1
  <1>2. Spcreq_new(F, fid, olds) = G
    BY <1>1 DEF Spcreq_new
  <1>3. F.n \in Nat /\ F.n + k \in 0..MaxReqs /\ F.n + 1..F.n + k \subseteq Reqs
    BY Fields, Names
  <1>4. \A i \in 1..k : spc_get_id(F.tags, i) \in 0..NTags - 1
    BY Fields, TagType
  <1>5. ids \subseteq 0..NTags - 1
    BY <1>4
  <1>6. \A i \in 1..k : new(i) \in Spcreq
    BY <1>4 DEF Spcreq
  <1> HIDE DEF new, ids
  <1>7. req \in [Reqs -> Spcreq]
    <2> SUFFICES ASSUME NEW r \in Reqs
                 PROVE  (IF r \in F.n + 1..F.n + k THEN new(r - F.n) ELSE F.req[r]) \in Spcreq
      OBVIOUS
    <2>1. CASE r \in F.n + 1..F.n + k
      <3>1. r - F.n \in 1..k
        BY <1>3, <2>1
      <3> QED
        BY <1>6, <2>1, <3>1
    <2>2. CASE r \notin F.n + 1..F.n + k
      BY <2>2, Fields
    <2> QED
      BY <2>1, <2>2
  <1>8. \A i \in 1..k : F.n + i \in Reqs /\ F.n + i \in F.n + 1..F.n + k /\ (F.n + i) - F.n = i
    BY <1>3
  <1>9. /\ \A r \in Reqs : r \notin F.n + 1..F.n + k => req[r] = F.req[r]
        /\ \A i \in 1..k : req[F.n + i] = new(i)
    BY <1>8
  <1> HIDE DEF req
  <1>10. /\ G.spfd = F.spfd /\ G.n = F.n + k /\ G.sent = F.sent /\ G.req = req
         /\ G.pend = F.pend \cup F.n + 1..F.n + k /\ G.tags = F.tags \cup ids
    BY DEF Spcfsys
  <1>11. G \in Spcfsys
    <2>1. F.tags \cup ids \in SUBSET (0..NTags - 1) /\ F.pend \cup F.n + 1..F.n + k \in SUBSET Reqs
      BY <1>3, <1>5, Fields
    <2> QED
      BY <1>3, <1>7, <2>1 DEF Spcfsys
  <1> HIDE DEF G
  <1> QED
    BY <1>2, <1>9, <1>10, <1>11 DEF Extended, new, ids

\* spc_rpcnb makes a good request.
LEMMA GoodNew ==
    ASSUME SpcFsysAssumption, NEW F, Good(F), F.spfd, NEW fid \in Fids, F.n < MaxReqs
    PROVE  Good(Spcreq_new(F, fid, <<NIL>>))
  <1>1. PICK G : G = Spcreq_new(F, fid, <<NIL>>)
    OBVIOUS
  <1>2. PICK n \in Nat : n = F.n /\ n + 1 <= MaxReqs
    BY Fields, Names DEF Good
  <1>3. PICK t : t = spc_get_id(F.tags, 1)
    OBVIOUS
  <1>4. /\ G \in Spcfsys
        /\ G.spfd = F.spfd /\ G.n = n + 1 /\ G.sent = F.sent
        /\ G.pend = F.pend \cup {n + 1}
        /\ \A r \in Reqs : r # n + 1 => G.req[r] = F.req[r]
        /\ G.req[n + 1] = [fid |-> fid, old |-> NIL, tag |-> t,
                           flushed |-> FALSE, calls |-> 0, freed |-> 0, rc |-> NIL]
    <2>1. PICK k \in Nat : k = 1
      OBVIOUS
    <2>2. <<NIL>> \in [1..k -> Reqs \cup {NIL}] /\ <<NIL>>[1] = NIL
      BY <2>1
    <2>3. PICK olds \in [1..k -> Reqs \cup {NIL}] : olds = <<NIL>>
      BY <2>2
    <2>4. F \in Spcfsys /\ F.n + k <= MaxReqs
      BY <1>2, <2>1 DEF Good
    <2>5. PICK H : H = Spcreq_new(F, fid, olds)
      OBVIOUS
    <2>6. Extended(F, H, fid, k, olds)
      BY <2>4, <2>5, Extends
    <2>7. n + 1..n + 1 = {n + 1} /\ 1 \in 1..1 /\ G = H
      BY <1>1, <2>3, <2>5
    <2>8. \A i \in 1..1 : G.req[n + i] =
                      [fid |-> fid, old |-> olds[i], tag |-> spc_get_id(F.tags, i),
                       flushed |-> FALSE, calls |-> 0, freed |-> 0, rc |-> NIL]
      BY <1>2, <2>1, <2>6, <2>7 DEF Extended
    <2>9. G.req[n + 1] = [fid |-> fid, old |-> NIL, tag |-> t,
                          flushed |-> FALSE, calls |-> 0, freed |-> 0, rc |-> NIL]
      BY <1>3, <2>2, <2>3, <2>7, <2>8
    <2> QED
      BY <1>2, <2>1, <2>6, <2>7, <2>9 DEF Extended
  <1>5. F \in Spcfsys /\ ListInv(F) /\ FlushInv(F) /\ FlushedInv(F) /\ CountInv(F) /\ SilentInv(F)
    BY DEF Good
  <1>6. /\ 1..n + 1 = 1..n \cup {n + 1} /\ n + 1 \notin 1..n
        /\ 1..n \subseteq Reqs /\ n + 1 \in Reqs /\ n + 1 # NIL
        /\ \A r \in 1..n : r < n + 1
    BY <1>2, Names
  <1>7. F.pend \subseteq 1..n /\ F.sent \subseteq 1..n /\ F.pend \cap F.sent = {}
    BY <1>2, <1>5 DEF ListInv, MadeIn
  <1>8. /\ \A r \in 1..n : G.req[r] = F.req[r]
        /\ G.req[n + 1].old = NIL /\ G.req[n + 1].fid = fid
        /\ G.req[n + 1].calls = 0 /\ G.req[n + 1].freed = 0 /\ G.req[n + 1].flushed = FALSE
    BY <1>4, <1>6
  <1>9. \A r \in 1..n : F.req[r].old # n + 1
    <2> SUFFICES ASSUME NEW r \in 1..n, F.req[r].old = n + 1 PROVE FALSE
      OBVIOUS
    <2>1. F.req[r].old \in 1..n
      BY <1>2, <1>5, <1>6 DEF FlushInv, FlushIn, MadeIn
    <2> QED
      BY <1>6, <2>1
  <1>10. ListInv(G)
    BY <1>4, <1>6, <1>7 DEF ListInv, MadeIn, ListedIn
  <1>11. FlushInv(G)
    <2>1. ASSUME NEW r \in 1..n, F.req[r].old # NIL
          PROVE  /\ G.req[r].old \in 1..n + 1 /\ G.req[r].old < r
                 /\ G.req[G.req[r].old].old = NIL /\ G.req[G.req[r].old].flushed
                 /\ \A q \in 1..n + 1 : G.req[q].old = G.req[r].old => q = r
                 /\ G.req[r].fid = NIL /\ ~G.req[r].flushed
      <3>1. PICK o \in 1..n : o = F.req[r].old
        BY <1>2, <1>5, <2>1 DEF FlushInv, FlushIn, MadeIn
      <3>2. /\ o < r /\ F.req[o].old = NIL /\ F.req[o].flushed
            /\ \A q \in 1..n : F.req[q].old = o => q = r
            /\ F.req[r].fid = NIL /\ ~F.req[r].flushed
        BY <1>2, <1>5, <2>1, <3>1 DEF FlushInv, FlushIn, MadeIn
      <3>3. o # NIL
        BY <2>1, <3>1
      <3> QED
        BY <1>6, <1>8, <3>1, <3>2, <3>3
    <2>2. ASSUME NEW r \in 1..n, F.req[r].old = NIL
          PROVE  G.req[r].old = NIL /\ G.req[r].fid \in Fids
      BY <1>2, <1>5, <1>8, <2>2 DEF FlushInv, FlushIn, MadeIn
    <2>3. G.n = n + 1
      BY <1>4
    <2> QED
      BY <1>6, <1>8, <2>1, <2>2, <2>3 DEF FlushInv, FlushIn, MadeIn
  <1>12. FlushedInv(G)
    BY <1>4, <1>5, <1>6, <1>7, <1>8 DEF FlushedInv, ListedIn
  <1>13. CountInv(G)
    BY <1>2, <1>4, <1>5, <1>6, <1>7, <1>8, <1>9 DEF CountInv, FlushIn, MadeIn, ListedIn
  <1>14. SilentInv(G)
    BY <1>2, <1>4, <1>5, <1>6, <1>8 DEF SilentInv, FlushIn, MadeIn
  <1> QED
    BY <1>1, <1>4, <1>10, <1>11, <1>12, <1>13, <1>14 DEF Good

\* spc_flush_request: each of S has a Tflush of its own behind the others.
TflushesOf(F, G, S) ==
    /\ G \in Spcfsys
    /\ G.spfd = F.spfd /\ G.sent = F.sent /\ F.n <= G.n /\ G.n = F.n + Cardinality(S)
    /\ G.pend = F.pend \cup F.n + 1..G.n
    /\ G.tags = F.tags \cup {spc_get_id(F.tags, i) : i \in 1..Cardinality(S)}
    /\ \A r \in 1..F.n : G.req[r] = IF r \in S THEN [F.req[r] EXCEPT !.flushed = TRUE]
                                      ELSE F.req[r]
    /\ \A f \in F.n + 1..G.n :
          /\ G.req[f].old \in S /\ G.req[f].fid = NIL /\ ~G.req[f].flushed
          /\ G.req[f].calls = 0 /\ G.req[f].freed = 0 /\ G.req[f].rc = NIL
          /\ G.req[f].tag = spc_get_id(F.tags, f - F.n)
    /\ \A f, g \in F.n + 1..G.n : G.req[f].old = G.req[g].old => f = g
    /\ \A r \in S : \E f \in F.n + 1..G.n : G.req[f].old = r

LEMMA MadeTflushes ==
    ASSUME SpcFsysAssumption, NEW F \in Spcfsys, NEW S \in SUBSET (1..F.n),
           F.n + Cardinality(S) <= MaxReqs
    PROVE  TflushesOf(F, spc_flush_request(F, S), S)
  <1> DEFINE req == [r \in Reqs |-> IF r \in S THEN [F.req[r] EXCEPT !.flushed = TRUE]
                                       ELSE F.req[r]]
             H == [F EXCEPT !.req = req]
             olds == [i \in 1..Cardinality(S) |-> Along(S, i)]
  <1>1. PICK G : G = spc_flush_request(F, S)
    OBVIOUS
  <1>2. PICK n \in Nat : n = F.n /\ 1..n \subseteq Reqs
    BY Fields, Names
  <1>3. S \in SUBSET Reqs
    BY <1>2
  <1>4. PICK k \in Nat : k = Cardinality(S) /\ n + k <= MaxReqs
    BY <1>2, <1>3, AlongAll
  <1>5. /\ \A i \in 1..k : Along(S, i) \in S
        /\ \A i, j \in 1..k : Along(S, i) = Along(S, j) => i = j
        /\ \A r \in S : \E i \in 1..k : Along(S, i) = r
    BY <1>3, <1>4, AlongAll
  <1>6. req \in [Reqs -> Spcreq]
    <2> SUFFICES ASSUME NEW r \in Reqs
                 PROVE  (IF r \in S THEN [F.req[r] EXCEPT !.flushed = TRUE] ELSE F.req[r])
                            \in Spcreq
      OBVIOUS
    <2>1. PICK x \in Spcreq : x = F.req[r]
      BY Fields
    <2>2. [x EXCEPT !.flushed = TRUE] \in Spcreq
      BY DEF Spcreq
    <2> QED
      BY <2>1, <2>2
  <1>7. \A r \in Reqs : req[r] = IF r \in S THEN [F.req[r] EXCEPT !.flushed = TRUE]
                                      ELSE F.req[r]
    OBVIOUS
  <1> HIDE DEF req
  <1>8. /\ H \in Spcfsys /\ H.spfd = F.spfd /\ H.sent = F.sent /\ H.n = n
        /\ H.pend = F.pend /\ H.tags = F.tags /\ H.req = req
    BY <1>2, <1>6 DEF Spcfsys
  <1>9. spc_flush_request(F, S) = Spcreq_new(H, NIL, olds)
    BY Zenon DEF spc_flush_request, req
  <1>10. olds \in [1..k -> Reqs \cup {NIL}] /\ \A i \in 1..k : olds[i] = Along(S, i)
    BY <1>3, <1>4, <1>5
  <1> HIDE DEF olds, H
  <1>11. Extended(H, G, NIL, k, olds)
    <2>1. NIL \in Fids \cup {NIL} /\ H.n + k <= MaxReqs
      BY <1>4, <1>8
    <2> QED
      BY <1>1, <1>8, <1>9, <1>10, <2>1, Extends
  <1>12. /\ G \in Spcfsys
         /\ G.spfd = F.spfd /\ G.sent = F.sent /\ G.n = n + k
         /\ G.pend = F.pend \cup n + 1..n + k
         /\ G.tags = F.tags \cup {spc_get_id(F.tags, i) : i \in 1..k}
         /\ \A r \in 1..n : G.req[r] = req[r]
    <2>1. \A r \in 1..n : r \in Reqs /\ r \notin n + 1..n + k
      BY <1>2
    <2> QED
      BY <1>8, <1>11, <2>1 DEF Extended
  <1>13. \A i \in 1..k : G.req[n + i] =
             [fid |-> NIL, old |-> Along(S, i), tag |-> spc_get_id(F.tags, i),
              flushed |-> FALSE, calls |-> 0, freed |-> 0, rc |-> NIL]
    BY <1>8, <1>10, <1>11 DEF Extended
  <1>14. \A f \in n + 1..n + k : f - n \in 1..k /\ n + (f - n) = f
    BY <1>2, <1>4
  <1>15. \A f \in n + 1..n + k : G.req[f] =
             [fid |-> NIL, old |-> Along(S, f - n), tag |-> spc_get_id(F.tags, f - n),
              flushed |-> FALSE, calls |-> 0, freed |-> 0, rc |-> NIL]
    BY <1>13, <1>14
  <1>16. \A f \in n + 1..n + k : G.req[f].old = Along(S, f - n) /\ G.req[f].fid = NIL
             /\ G.req[f].tag = spc_get_id(F.tags, f - n) /\ ~G.req[f].flushed
             /\ G.req[f].calls = 0 /\ G.req[f].freed = 0 /\ G.req[f].rc = NIL
    <2> SUFFICES ASSUME NEW f \in n + 1..n + k
                 PROVE  /\ G.req[f].old = Along(S, f - n) /\ G.req[f].fid = NIL
                        /\ G.req[f].tag = spc_get_id(F.tags, f - n) /\ ~G.req[f].flushed
                        /\ G.req[f].calls = 0 /\ G.req[f].freed = 0 /\ G.req[f].rc = NIL
      OBVIOUS
    <2>1. PICK o, tag : o = Along(S, f - n) /\ tag = spc_get_id(F.tags, f - n)
      OBVIOUS
    <2>2. PICK x : x = G.req[f]
      OBVIOUS
    <2>3. x = [fid |-> NIL, old |-> o, tag |-> tag, flushed |-> FALSE, calls |-> 0,
               freed |-> 0, rc |-> NIL]
      BY <1>15, <2>1, <2>2
    <2>4. x.fid = NIL /\ x.old = o /\ x.tag = tag /\ x.flushed = FALSE /\ x.calls = 0
          /\ x.freed = 0 /\ x.rc = NIL
      BY <2>3
    <2> QED
      BY <2>1, <2>2, <2>4
  <1>17. ASSUME NEW f \in n + 1..n + k, NEW g \in n + 1..n + k, G.req[f].old = G.req[g].old
         PROVE  f = g
    <2>1. f - n = g - n
      BY <1>5, <1>14, <1>16, <1>17
    <2> QED
      BY <1>14, <2>1
  <1>18. ASSUME NEW r \in S
         PROVE  \E f \in n + 1..n + k : G.req[f].old = r
    <2>1. PICK i \in 1..k : Along(S, i) = r
      BY <1>5
    <2>2. n + i \in n + 1..n + k /\ (n + i) - n = i
      BY <1>2, <1>4
    <2> QED
      BY <1>16, <2>1, <2>2
  <1>19. \A f \in n + 1..n + k : G.req[f].old \in S
    BY <1>5, <1>14, <1>16
  <1>20. \A r \in 1..n : G.req[r] = IF r \in S THEN [F.req[r] EXCEPT !.flushed = TRUE]
                                      ELSE F.req[r]
    BY <1>2, <1>7, <1>12
  <1>21. n <= n + k
    OBVIOUS
  <1> QED
    BY <1>1, <1>2, <1>4, <1>12, <1>16, <1>17, <1>18, <1>19, <1>20, <1>21 DEF TflushesOf

\* So the requests stay good when those that were sent, are the program's and are not
\* flushed yet are flushed.
LEMMA GoodFlush ==
    ASSUME SpcFsysAssumption, NEW F, Good(F), F.spfd, NEW S \in SUBSET F.sent,
           \A r \in S : F.req[r].old = NIL /\ ~F.req[r].flushed,
           F.n + Cardinality(S) <= MaxReqs
    PROVE  Good(spc_flush_request(F, S))
  <1>1. PICK G : G = spc_flush_request(F, S)
    OBVIOUS
  <1>2. F \in Spcfsys /\ ListInv(F) /\ FlushInv(F) /\ FlushedInv(F) /\ CountInv(F) /\ SilentInv(F)
    BY DEF Good
  <1>3. PICK n \in Nat : n = F.n /\ 1..n \subseteq Reqs
    BY <1>2, Fields, Names
  <1>4. /\ F.pend \subseteq 1..n /\ F.sent \subseteq 1..n /\ F.pend \cap F.sent = {}
        /\ S \in SUBSET (1..n)
    BY <1>2, <1>3 DEF ListInv, MadeIn
  <1>5. TflushesOf(F, G, S)
    BY <1>1, <1>2, <1>3, <1>4, MadeTflushes
  <1>6. PICK m \in Nat : m = G.n /\ n <= m /\ 1..m \subseteq Reqs
    BY <1>3, <1>5, Fields, Names DEF TflushesOf
  <1> DEFINE N == n + 1..m
  <1>7. /\ 1..m = 1..n \cup N /\ 1..n \cap N = {}
        /\ \A r \in 1..n : \A f \in N : r < f
        /\ \A r \in 1..m : r # NIL
    BY <1>3, <1>6, Names
  <1> HIDE DEF N
  <1>8. /\ G \in Spcfsys /\ G.spfd = F.spfd /\ G.sent = F.sent /\ G.pend = F.pend \cup N
        /\ \A f \in N : /\ G.req[f].old \in S /\ G.req[f].fid = NIL /\ ~G.req[f].flushed
                        /\ G.req[f].calls = 0 /\ G.req[f].freed = 0
        /\ \A f, g \in N : G.req[f].old = G.req[g].old => f = g
        /\ \A r \in S : \E f \in N : G.req[f].old = r
    BY <1>3, <1>5, <1>6 DEF TflushesOf, N
  <1>9. \A r \in 1..n : /\ G.req[r].old = F.req[r].old /\ G.req[r].fid = F.req[r].fid
                        /\ G.req[r].calls = F.req[r].calls /\ G.req[r].freed = F.req[r].freed
                        /\ G.req[r].flushed = (F.req[r].flushed \/ r \in S)
    <2> SUFFICES ASSUME NEW r \in 1..n
                 PROVE  /\ G.req[r].old = F.req[r].old /\ G.req[r].fid = F.req[r].fid
                        /\ G.req[r].calls = F.req[r].calls /\ G.req[r].freed = F.req[r].freed
                        /\ G.req[r].flushed = (F.req[r].flushed \/ r \in S)
      OBVIOUS
    <2>1. PICK x \in Spcreq : x = F.req[r]
      BY <1>2, <1>3, Fields
    <2>2. G.req[r] = IF r \in S THEN [x EXCEPT !.flushed = TRUE] ELSE x
      BY <1>3, <1>5, <2>1 DEF TflushesOf
    <2>3. CASE r \in S
      <3>1. x.flushed \in BOOLEAN
        BY ReqFields
      <3>2. PICK y : y = G.req[r]
        OBVIOUS
      <3>3. y = [x EXCEPT !.flushed = TRUE]
        BY <2>2, <2>3, <3>2
      <3>4. /\ y.old = x.old /\ y.fid = x.fid /\ y.calls = x.calls /\ y.freed = x.freed
            /\ y.flushed = TRUE
        BY <3>3 DEF Spcreq
      <3> QED
        BY <2>1, <2>3, <3>1, <3>2, <3>4
    <2>4. CASE r \notin S
      <3>1. x.flushed \in BOOLEAN
        BY ReqFields
      <3> QED
        BY <2>1, <2>2, <2>4, <3>1
    <2> QED
      BY <2>3, <2>4
  \* No other Tflush is for one of S.
  <1>10. \A q \in 1..n : F.req[q].old \notin S
    BY <1>2, <1>3, <1>4, <1>7 DEF FlushInv, FlushIn, MadeIn
  <1>11. ListInv(G)
    BY <1>2, <1>4, <1>6, <1>7, <1>8 DEF ListInv, MadeIn, ListedIn
  <1>12. FlushInv(G)
    <2>1. ASSUME NEW r \in 1..n, F.req[r].old # NIL
          PROVE  /\ G.req[r].old \in 1..m /\ G.req[r].old < r
                 /\ G.req[G.req[r].old].old = NIL /\ G.req[G.req[r].old].flushed
                 /\ \A q \in 1..m : G.req[q].old = G.req[r].old => q = r
                 /\ G.req[r].fid = NIL /\ ~G.req[r].flushed
      <3>1. PICK o \in 1..n : o = F.req[r].old
        BY <1>2, <1>3, <2>1 DEF FlushInv, FlushIn, MadeIn
      <3>2. /\ o < r /\ F.req[o].old = NIL /\ F.req[o].flushed
            /\ \A q \in 1..n : F.req[q].old = o => q = r
            /\ F.req[r].fid = NIL /\ ~F.req[r].flushed
        BY <1>2, <1>3, <2>1, <3>1 DEF FlushInv, FlushIn, MadeIn
      <3>3. o \notin S /\ r \notin S
        BY <2>1, <3>2
      <3>4. ASSUME NEW q \in 1..m, G.req[q].old = o
            PROVE  q = r
        <4>1. q \notin N
          BY <1>8, <3>3, <3>4
        <4> QED
          BY <1>7, <1>9, <3>2, <3>4, <4>1
      <3>5. G.req[r].old = o /\ G.req[r].fid = NIL /\ ~G.req[r].flushed
        BY <1>9, <3>1, <3>2, <3>3
      <3>6. G.req[o].old = NIL /\ G.req[o].flushed /\ o \in 1..m
        BY <1>7, <1>9, <3>2
      <3> QED
        BY <3>2, <3>4, <3>5, <3>6
    <2>2. ASSUME NEW r \in N
          PROVE  /\ G.req[r].old \in 1..m /\ G.req[r].old < r
                 /\ G.req[G.req[r].old].old = NIL /\ G.req[G.req[r].old].flushed
                 /\ \A q \in 1..m : G.req[q].old = G.req[r].old => q = r
                 /\ G.req[r].fid = NIL /\ ~G.req[r].flushed
      <3>1. PICK o \in S : o = G.req[r].old
        BY <1>8
      <3>2. o \in 1..n /\ o < r /\ G.req[o].old = NIL /\ G.req[o].flushed
        BY <1>4, <1>7, <1>9
      <3>3. \A q \in 1..m : G.req[q].old = o => q = r
        BY <1>7, <1>8, <1>9, <1>10, <3>1
      <3> QED
        BY <1>7, <1>8, <3>1, <3>2, <3>3
    <2>3. \A r \in N : G.req[r].old # NIL
      BY <1>4, <1>7, <1>8
    <2>4. ASSUME NEW r \in 1..n, F.req[r].old = NIL
          PROVE  G.req[r].old = NIL /\ G.req[r].fid \in Fids
      BY <1>2, <1>3, <1>9, <2>4 DEF FlushInv, FlushIn, MadeIn
    <2> QED
      BY <1>6, <1>7, <1>9, <2>1, <2>2, <2>3, <2>4 DEF FlushInv, FlushIn, MadeIn
  <1>13. FlushedInv(G)
    <2> SUFFICES ASSUME NEW r \in ListedIn(G), G.req[r].flushed
                 PROVE  r \in G.sent /\ \E f \in ListedIn(G) : G.req[f].old = r
      BY DEF FlushedInv
    <2>1. r \in 1..n /\ r \in ListedIn(F)
      BY <1>4, <1>8 DEF ListedIn
    <2>2. CASE r \in S
      BY <1>8, <2>2 DEF ListedIn
    <2>3. CASE r \notin S
      <3>1. r \in F.sent /\ \E f \in ListedIn(F) : F.req[f].old = r
        BY <1>2, <1>9, <2>1, <2>3 DEF FlushedInv
      <3> QED
        BY <1>4, <1>8, <1>9, <3>1 DEF ListedIn
    <2> QED
      BY <2>2, <2>3
  <1>14. CountInv(G)
    <2>1. ASSUME NEW r \in N
          PROVE  /\ G.req[r].old # NIL /\ G.req[r].freed = 0 /\ r \in ListedIn(G)
      BY <1>4, <1>7, <1>8 DEF ListedIn
    <2>2. ASSUME NEW r \in 1..n
          PROVE  (r \in ListedIn(G) <=> r \in ListedIn(F))
      BY <1>7, <1>8 DEF ListedIn
    <2>3. ASSUME NEW r \in 1..n
          PROVE  r \in ListedIn(G) \/ (\E f \in ListedIn(G) : G.req[f].old = r)
                 <=> r \in ListedIn(F) \/ (\E f \in ListedIn(F) : F.req[f].old = r)
      <3>1. ASSUME NEW f \in ListedIn(F), F.req[f].old = r
            PROVE  f \in ListedIn(G) /\ G.req[f].old = r
        BY <1>4, <1>8, <1>9, <3>1 DEF ListedIn
      <3>2. ASSUME NEW f \in ListedIn(G), G.req[f].old = r
            PROVE  r \in ListedIn(F) \/ (f \in ListedIn(F) /\ F.req[f].old = r)
        <4>1. CASE f \in N
          BY <1>8, <3>2, <4>1 DEF ListedIn
        <4>2. CASE f \notin N
          BY <1>4, <1>8, <1>9, <3>2, <4>2 DEF ListedIn
        <4> QED
          BY <4>1, <4>2
      <3> QED
        BY <2>2, <3>1, <3>2
    <2>4. \A r \in 1..n : G.req[r].freed = F.req[r].freed /\ G.req[r].calls = F.req[r].calls
                          /\ G.req[r].old = F.req[r].old
      BY <1>9
    <2>5. \A r \in 1..n :
              /\ F.req[r].old = NIL => F.req[r].calls = (IF r \in ListedIn(F) THEN 0 ELSE 1)
              /\ F.req[r].freed = (IF r \in ListedIn(F) \/ \E f \in ListedIn(F) : F.req[f].old = r
                                   THEN 0 ELSE 1)
      BY <1>2, <1>3 DEF CountInv, FlushIn, MadeIn
    <2>6. \A r \in 1..n :
              /\ G.req[r].old = NIL => G.req[r].calls = (IF r \in ListedIn(G) THEN 0 ELSE 1)
              /\ G.req[r].freed = (IF r \in ListedIn(G) \/ \E f \in ListedIn(G) : G.req[f].old = r
                                   THEN 0 ELSE 1)
      BY <2>2, <2>3, <2>4, <2>5
    <2> QED
      BY <1>6, <1>7, <2>1, <2>6 DEF CountInv, FlushIn, MadeIn
  <1>15. SilentInv(G)
    BY <1>2, <1>3, <1>6, <1>7, <1>8, <1>9 DEF SilentInv, FlushIn, MadeIn
  <1> QED
    BY <1>1, <1>8, <1>11, <1>12, <1>13, <1>14, <1>15 DEF Good

\* What was good stays good when requests leave the lists, if no Tflush leaves them
\* before its request and the callbacks are counted.
Leaves(F, G) ==
    /\ G \in Spcfsys /\ G.n = F.n
    /\ ListedIn(G) \subseteq ListedIn(F) /\ G.pend \subseteq F.pend /\ G.pend \cap G.sent = {}
    /\ ~G.spfd => ListedIn(G) = {}
    /\ \A r \in MadeIn(F) : /\ G.req[r].old = F.req[r].old /\ G.req[r].fid = F.req[r].fid
                            /\ G.req[r].flushed = F.req[r].flushed
                            /\ FlushIn(F, r) => G.req[r].calls = F.req[r].calls
    /\ \A r \in ListedIn(G), f \in ListedIn(F) : F.req[f].old = r => f \in ListedIn(G)

LEMMA GoodLeaves ==
    ASSUME SpcFsysAssumption, NEW F, NEW G, Good(F), Leaves(F, G), CountInv(G)
    PROVE  Good(G)
  <1>1. F \in Spcfsys /\ ListInv(F) /\ FlushInv(F) /\ FlushedInv(F) /\ SilentInv(F)
    BY DEF Good
  <1>2. /\ G.n = F.n /\ ListedIn(G) \subseteq ListedIn(F) /\ G.pend \subseteq F.pend
        /\ G.pend \cap G.sent = {} /\ (~G.spfd => ListedIn(G) = {})
        /\ \A r \in MadeIn(F) : /\ G.req[r].old = F.req[r].old /\ G.req[r].fid = F.req[r].fid
                                /\ G.req[r].flushed = F.req[r].flushed
                                /\ FlushIn(F, r) => G.req[r].calls = F.req[r].calls
        /\ \A r \in ListedIn(G), f \in ListedIn(F) : F.req[f].old = r => f \in ListedIn(G)
    BY DEF Leaves
  <1>3. MadeIn(G) = MadeIn(F) /\ ListedIn(F) \subseteq MadeIn(F)
    BY <1>1, <1>2 DEF MadeIn, ListInv, ListedIn
  <1>4. ListInv(G)
    BY <1>2, <1>3 DEF ListInv, ListedIn
  <1>5. \A r \in MadeIn(G) : FlushIn(G, r) <=> FlushIn(F, r)
    BY <1>2, <1>3 DEF FlushIn
  <1>6. FlushInv(G)
    BY <1>1, <1>2, <1>3, <1>5 DEF FlushInv
  <1>7. FlushedInv(G)
    <2> SUFFICES ASSUME NEW r \in ListedIn(G), G.req[r].flushed
                 PROVE  r \in G.sent /\ \E f \in ListedIn(G) : G.req[f].old = r
      BY DEF FlushedInv
    <2>1. r \in F.sent /\ \E f \in ListedIn(F) : F.req[f].old = r
      BY <1>1, <1>2, <1>3 DEF FlushedInv
    <2>2. r \in G.sent
      BY <1>1, <1>2, <2>1 DEF ListInv, ListedIn
    <2> QED
      BY <1>2, <1>3, <2>1, <2>2
  <1>8. SilentInv(G)
    BY <1>1, <1>2, <1>3, <1>5 DEF SilentInv
  <1> QED
    BY <1>4, <1>6, <1>7, <1>8 DEF Good, Leaves

\* A write only moves a request from the one list to the other.
Moved(F, G) ==
    /\ G \in Spcfsys
    /\ G.spfd = F.spfd /\ G.n = F.n /\ G.req = F.req /\ G.tags = F.tags
    /\ G.pend \subseteq F.pend /\ F.sent \subseteq G.sent /\ ListedIn(G) = ListedIn(F)
    /\ G.pend \cap G.sent = {}

LEMMA Writes ==
    ASSUME NEW F \in Spcfsys, F.pend \cap F.sent = {}, NEW G \in spc_fd_write(F)
    PROVE  Moved(F, G)
  <1>1. CASE F.pend = {}
    BY <1>1 DEF spc_fd_write, Moved, ListedIn
  <1>2. CASE F.pend # {}
    <2>1. PICK r : r = Min(F.pend)
      OBVIOUS
    <2>2. r \in F.pend
      <3>1. F.pend \in SUBSET Nat
        BY Fields DEF Reqs
      <3> QED
        BY <1>2, <2>1, <3>1, LeastMember
    <2>3. \/ G = [F EXCEPT !.writable = FALSE, !.half = FALSE, !.pend = @ \ {r},
                           !.sent = @ \cup {r}]
          \/ G = [F EXCEPT !.writable = FALSE, !.half = TRUE]
          \/ G = [F EXCEPT !.writable = FALSE]
      BY <1>2, <2>1 DEF spc_fd_write
    <2>4. /\ G \in Spcfsys
          /\ G.spfd = F.spfd /\ G.n = F.n /\ G.req = F.req /\ G.tags = F.tags
          /\ \/ G.pend = F.pend \ {r} /\ G.sent = F.sent \cup {r}
             \/ G.pend = F.pend /\ G.sent = F.sent
      <3>1. F.pend \ {r} \in SUBSET Reqs /\ F.sent \cup {r} \in SUBSET Reqs
        BY <2>2, Fields
      <3>2. CASE G = [F EXCEPT !.writable = FALSE, !.half = FALSE, !.pend = @ \ {r},
                               !.sent = @ \cup {r}]
        BY <3>1, <3>2 DEF Spcfsys
      <3>3. CASE G = [F EXCEPT !.writable = FALSE, !.half = TRUE]
        BY <3>3 DEF Spcfsys
      <3>4. CASE G = [F EXCEPT !.writable = FALSE]
        BY <3>4 DEF Spcfsys
      <3> QED
        BY <2>3, <3>2, <3>3, <3>4
    <2> QED
      BY <2>2, <2>4 DEF Moved, ListedIn
  <1> QED
    BY <1>1, <1>2

LEMMA GoodMoved ==
    ASSUME SpcFsysAssumption, NEW F, NEW G, Good(F), Moved(F, G)
    PROVE  Good(G)
  <1>1. Leaves(F, G)
    BY DEF Moved, Leaves, Good, ListInv, ListedIn
  <1>2. CountInv(G)
    BY DEF Moved, CountInv, Good, MadeIn, FlushIn
  <1> QED
    BY <1>1, <1>2, GoodLeaves

\* A request that is written at once.
LEMMA Starts ==
    ASSUME NEW F \in Spcfsys, F.pend \cap F.sent = {}, NEW G \in Started(F)
    PROVE  Moved(F, G)
  <1>1. G = F \/ G \in spc_fd_write(F)
    BY DEF Started
  <1>2. CASE G = F
    BY <1>2 DEF Moved
  <1>3. CASE G \in spc_fd_write(F)
    BY <1>3, Writes
  <1> QED
    BY <1>1, <1>2, <1>3

\* x is y with other counts.
SameReq(y, x, calls, freed, rc) ==
    /\ x \in Spcreq
    /\ x.fid = y.fid /\ x.old = y.old /\ x.tag = y.tag /\ x.flushed = y.flushed
    /\ x.calls = calls /\ x.freed = freed /\ x.rc = rc

Recounted(y, c, d, rc) ==
    [fid |-> y.fid, old |-> y.old, tag |-> y.tag, flushed |-> y.flushed,
     calls |-> c, freed |-> d, rc |-> rc]

LEMMA Counts ==
    ASSUME NEW y \in Spcreq, NEW c \in 0..2, NEW d \in 0..2, NEW rc \in Reqs \cup {NIL}
    PROVE  SameReq(y, Recounted(y, c, d, rc), c, d, rc)
  BY ReqFields DEF Spcreq, SameReq, Recounted

\* Requests that are dropped before they are sent are called back and freed once.
Dropped(F, G, S) ==
    /\ G \in Spcfsys /\ G.spfd = F.spfd /\ G.n = F.n /\ G.tags = F.tags
    /\ G.pend = F.pend \ S /\ G.sent = F.sent
    /\ \A r \in Reqs : r \notin S => G.req[r] = F.req[r]
    /\ \A r \in S : /\ G.req[r].old = F.req[r].old /\ G.req[r].fid = F.req[r].fid
                    /\ G.req[r].flushed = F.req[r].flushed
                    /\ G.req[r].calls = 1 /\ G.req[r].freed = 1 /\ G.req[r].rc = NIL

LEMMA Drops ==
    ASSUME SpcFsysAssumption, NEW F, Good(F), NEW S \in SUBSET F.pend,
           \A r \in S : F.req[r].old = NIL
    PROVE  Dropped(F, Unsent(F, S), S)
  <1> DEFINE req == [r \in Reqs |-> IF r \in S THEN GivenUp(F.req[r]) ELSE F.req[r]]
             G == [F EXCEPT !.pend = @ \ S, !.req = req]
  <1>1. F \in Spcfsys /\ CountInv(F) /\ S \subseteq ListedIn(F) /\ S \subseteq MadeIn(F)
        /\ S \subseteq Reqs
    BY Fields DEF Good, ListInv, ListedIn
  <1>2. ASSUME NEW r \in S
        PROVE  LET x == GivenUp(F.req[r])
               IN  /\ x \in Spcreq /\ x.old = F.req[r].old /\ x.fid = F.req[r].fid
                   /\ x.flushed = F.req[r].flushed /\ x.calls = 1 /\ x.freed = 1 /\ x.rc = NIL
    <2>1. PICK y \in Spcreq : y = F.req[r]
      BY <1>1, Fields
    <2>2. y.calls = 0 /\ y.freed = 0
      BY <1>1, <2>1 DEF CountInv, FlushIn
    <2>3. PICK x : x = GivenUp(y)
      OBVIOUS
    <2>4. PICK c \in 0..2, d \in 0..2, rc \in Reqs \cup {NIL} : c = 1 /\ d = 1 /\ rc = NIL
      OBVIOUS
    <2>5. x = [y EXCEPT !.calls = c, !.freed = d, !.rc = rc]
      BY <2>2, <2>3, <2>4 DEF GivenUp
    <2>6. x = Recounted(y, c, d, rc)
      BY <2>5 DEF Spcreq, Recounted
    <2>7. SameReq(y, x, c, d, rc)
      BY <2>6, Counts
    <2> QED
      BY <2>1, <2>3, <2>4, <2>7 DEF SameReq
  <1>3. req \in [Reqs -> Spcreq]
    BY <1>1, <1>2, Fields
  <1>4. /\ \A r \in Reqs : r \notin S => req[r] = F.req[r]
        /\ \A r \in S : req[r] = GivenUp(F.req[r])
    BY <1>1
  <1>5. Unsent(F, S) = G
    BY Zenon DEF Unsent
  <1> HIDE DEF req
  <1>6. /\ G \in Spcfsys /\ G.spfd = F.spfd /\ G.n = F.n /\ G.tags = F.tags
        /\ G.pend = F.pend \ S /\ G.sent = F.sent /\ G.req = req
    BY <1>1, <1>3 DEF Spcfsys
  <1> HIDE DEF G
  <1> QED
    BY <1>2, <1>4, <1>5, <1>6 DEF Dropped

LEMMA GoodUnsent ==
    ASSUME SpcFsysAssumption, NEW F, Good(F), NEW S \in SUBSET F.pend,
           \A r \in S : F.req[r].old = NIL
    PROVE  Good(Unsent(F, S))
  <1>1. PICK G : G = Unsent(F, S)
    OBVIOUS
  <1>2. Dropped(F, G, S)
    BY <1>1, Drops
  <1>3. F \in Spcfsys /\ ListInv(F) /\ FlushInv(F) /\ FlushedInv(F) /\ CountInv(F)
    BY DEF Good
  <1>4. /\ ListedIn(F) \subseteq MadeIn(F) /\ S \subseteq ListedIn(F) /\ S \cap F.sent = {}
        /\ MadeIn(F) \subseteq Reqs
    <2>1. F.n <= MaxReqs /\ F.n \in Nat
      BY <1>3, Fields, Names
    <2> QED
      BY <1>3, <2>1, Names DEF ListInv, ListedIn, MadeIn
  <1>5. ListedIn(G) = ListedIn(F) \ S /\ MadeIn(G) = MadeIn(F)
    BY <1>2, <1>4 DEF Dropped, ListedIn, MadeIn
  \* None of S is flushed, so there is no Tflush for it.
  <1>6. \A r \in S : \A f \in MadeIn(F) : F.req[f].old # r
    <2> SUFFICES ASSUME NEW r \in S, NEW f \in MadeIn(F), F.req[f].old = r
                 PROVE  FALSE
      OBVIOUS
    <2>1. r # NIL
      BY <1>4, Names
    <2>2. F.req[r].flushed
      BY <1>3, <2>1 DEF FlushInv, FlushIn
    <2> QED
      BY <1>3, <1>4, <2>2 DEF FlushedInv
  <1>7. \A r \in MadeIn(F) : G.req[r].old = F.req[r].old /\ G.req[r].fid = F.req[r].fid
                             /\ G.req[r].flushed = F.req[r].flushed
                             /\ (r \notin S => G.req[r] = F.req[r])
    BY <1>2, <1>4 DEF Dropped
  <1>8. Leaves(F, G)
    <2>1. \A r \in MadeIn(F) : FlushIn(F, r) => G.req[r].calls = F.req[r].calls
      BY <1>7 DEF FlushIn
    <2>2. /\ G \in Spcfsys /\ G.n = F.n /\ G.spfd = F.spfd /\ G.pend = F.pend \ S
          /\ G.sent = F.sent
      BY <1>2 DEF Dropped
    <2>3. \A r \in ListedIn(G), f \in ListedIn(F) : F.req[f].old = r => f \in ListedIn(G)
      <3>1. \A r \in ListedIn(G), f \in S : F.req[f].old # r
        BY <1>4, <1>5, Names
      <3> QED
        BY <1>5, <3>1
    <2> QED
      BY <1>3, <1>5, <1>7, <2>1, <2>2, <2>3 DEF Leaves, ListInv
  <1>9. CountInv(G)
    <2>1. ASSUME NEW r \in S
          PROVE  /\ G.req[r].calls = 1 /\ G.req[r].freed = 1
                 /\ ~(r \in ListedIn(G) \/ \E f \in ListedIn(G) : G.req[f].old = r)
      BY <1>2, <1>4, <1>5, <1>6, <1>7 DEF Dropped
    <2>2. ASSUME NEW r \in MadeIn(F), r \notin S
          PROVE  /\ G.req[r] = F.req[r]
                 /\ (r \in ListedIn(G) <=> r \in ListedIn(F))
                 /\ (\E f \in ListedIn(G) : G.req[f].old = r)
                        <=> (\E f \in ListedIn(F) : F.req[f].old = r)
      <3>1. \A f \in S : F.req[f].old # r
        BY <1>4, <2>2, Names
      <3> QED
        BY <1>4, <1>5, <1>7, <2>2, <3>1
    <2>3. \A r \in MadeIn(F) :
            /\ ~FlushIn(F, r) => F.req[r].calls = (IF r \in ListedIn(F) THEN 0 ELSE 1)
            /\ F.req[r].freed = (IF r \in ListedIn(F) \/ \E f \in ListedIn(F) : F.req[f].old = r
                                 THEN 0 ELSE 1)
      BY <1>3 DEF CountInv
    <2>4. \A r \in MadeIn(F) \ S :
            /\ ~FlushIn(G, r) => G.req[r].calls = (IF r \in ListedIn(G) THEN 0 ELSE 1)
            /\ G.req[r].freed = (IF r \in ListedIn(G) \/ \E f \in ListedIn(G) : G.req[f].old = r
                                 THEN 0 ELSE 1)
      BY <2>2, <2>3 DEF FlushIn
    <2> QED
      BY <1>5, <2>1, <2>4 DEF CountInv
  <1> QED
    BY <1>1, <1>8, <1>9, GoodLeaves

\* G is F with another record of request r.
Edited(F, G, r) ==
    /\ G \in Spcfsys
    /\ G.spfd = F.spfd /\ G.n = F.n /\ G.pend = F.pend /\ G.sent = F.sent
    /\ \A q \in Reqs : q # r => G.req[q] = F.req[q]

Put(F, r, y) == [F EXCEPT !.req = [F.req EXCEPT ![r] = y]]

LEMMA Edits ==
    ASSUME NEW F \in Spcfsys, NEW r \in Reqs, NEW y \in Spcreq
    PROVE  LET G == Put(F, r, y)
           IN  Edited(F, G, r) /\ G.tags = F.tags /\ G.req[r] = y
  <1>1. PICK G : G = Put(F, r, y)
    OBVIOUS
  <1>2. PICK req \in [Reqs -> Spcreq] : req = F.req
    BY Fields
  <1>3. PICK new \in [Reqs -> Spcreq] : new = [req EXCEPT ![r] = y]
    OBVIOUS
  <1>4. G = [F EXCEPT !.req = new]
    BY <1>1, <1>2, <1>3 DEF Put
  <1>5. G \in Spcfsys /\ G.spfd = F.spfd /\ G.n = F.n /\ G.pend = F.pend /\ G.sent = F.sent
        /\ G.tags = F.tags /\ G.req = new
    BY <1>4 DEF Spcfsys
  <1>6. new[r] = y /\ \A q \in Reqs : q # r => new[q] = req[q]
    BY <1>3
  <1> QED
    BY <1>1, <1>2, <1>5, <1>6 DEF Edited

LEMMA CallsOne ==
    ASSUME NEW F \in Spcfsys, NEW r \in Reqs, F.req[r].calls = 0, NEW rc \in Reqs \cup {NIL},
           NEW G, G = Called(F, r, rc)
    PROVE  /\ Edited(F, G, r) /\ G.tags = F.tags
           /\ SameReq(F.req[r], G.req[r], 1, F.req[r].freed, rc)
  <1>1. PICK req \in [Reqs -> Spcreq], x \in Spcreq : req = F.req /\ x = req[r]
    BY Fields
  <1>2. PICK d \in 0..2, c \in 0..2 : d = x.freed /\ c = 1
    BY ReqFields
  <1>3. PICK y : y = Recounted(x, c, d, rc)
    OBVIOUS
  <1>4. SameReq(x, y, c, d, rc)
    BY <1>3, Counts
  <1>5. y \in Spcreq
    BY <1>4 DEF SameReq
  <1>6. G = Put(F, r, y)
    <2>1. G = [F EXCEPT !.req = [[req EXCEPT ![r] = [x EXCEPT !.calls = c]]
                                      EXCEPT ![r] = [[x EXCEPT !.calls = c] EXCEPT !.rc = rc]]]
      <3>1. x.calls + 1 = c
        BY <1>1, <1>2
      <3>2. [req EXCEPT ![r] = [x EXCEPT !.calls = c]][r] = [x EXCEPT !.calls = c]
        BY <1>1
      <3> QED
        BY <1>1, <3>1, <3>2 DEF Called, Spcfsys
    <2>2. [[x EXCEPT !.calls = c] EXCEPT !.rc = rc] = y
      <3>1. PICK z : z = [x EXCEPT !.calls = c]
        OBVIOUS
      <3>2. z = Recounted(x, c, x.freed, x.rc)
        BY <3>1 DEF Spcreq, Recounted
      <3>3. [z EXCEPT !.rc = rc] = Recounted(x, c, x.freed, rc)
        BY <3>2 DEF Recounted
      <3> QED
        BY <1>2, <1>3, <3>1, <3>3
    <2>3. PICK z : z = [x EXCEPT !.calls = c]
      OBVIOUS
    <2>4. [[req EXCEPT ![r] = z] EXCEPT ![r] = y] = [req EXCEPT ![r] = y]
      BY <1>1
    <2> QED
      BY <1>1, <2>1, <2>2, <2>3, <2>4 DEF Put
  <1> QED
    BY <1>1, <1>2, <1>4, <1>5, <1>6, Edits

LEMMA FreesOne ==
    ASSUME NEW F \in Spcfsys, NEW r \in Reqs, F.req[r].freed = 0, NEW G, G = Freed(F, r)
    PROVE  /\ Edited(F, G, r) /\ G.tags = F.tags
           /\ SameReq(F.req[r], G.req[r], F.req[r].calls, 1, F.req[r].rc)
  <1>1. PICK req \in [Reqs -> Spcreq], x \in Spcreq : req = F.req /\ x = req[r]
    BY Fields
  <1>2. PICK c \in 0..2, d \in 0..2, rc \in Reqs \cup {NIL} :
             c = x.calls /\ d = 1 /\ rc = x.rc
    BY ReqFields
  <1>3. PICK y : y = Recounted(x, c, d, rc)
    OBVIOUS
  <1>4. SameReq(x, y, c, d, rc)
    BY <1>3, Counts
  <1>5. y \in Spcreq
    BY <1>4 DEF SameReq
  <1>6. G = Put(F, r, y)
    <2>1. G = [F EXCEPT !.req = [req EXCEPT ![r] = [x EXCEPT !.freed = d]]]
      <3>1. x.freed + 1 = d
        BY <1>1, <1>2
      <3> QED
        BY <1>1, <3>1 DEF Freed, Spcfsys
    <2>2. [x EXCEPT !.freed = d] = y
      BY <1>2, <1>3 DEF Spcreq, Recounted
    <2> QED
      BY <1>1, <2>1, <2>2 DEF Put
  <1> QED
    BY <1>1, <1>2, <1>4, <1>5, <1>6, Edits

LEMMA PutsOne ==
    ASSUME NEW F \in Spcfsys, NEW r \in Reqs, NEW G, G = spc_put_id(F, r)
    PROVE  Edited(F, G, r) /\ G.tags = F.tags \ {F.req[r].tag} /\ G.req = F.req
  <1>1. G = [F EXCEPT !.tags = F.tags \ {F.req[r].tag}]
    BY DEF spc_put_id
  <1>2. PICK tags \in SUBSET (0..NTags - 1) : tags = F.tags \ {F.req[r].tag}
    BY Fields
  <1>3. G = [F EXCEPT !.tags = tags]
    BY <1>1, <1>2
  <1> QED
    BY <1>2, <1>3 DEF Spcfsys, Edited

Removed(F, r) == [F EXCEPT !.sent = F.sent \ {r}]

LEMMA TakesOut ==
    ASSUME NEW F \in Spcfsys, NEW r, NEW G, G = Removed(F, r)
    PROVE  /\ G \in Spcfsys /\ G.spfd = F.spfd /\ G.n = F.n /\ G.pend = F.pend
           /\ G.sent = F.sent \ {r} /\ G.tags = F.tags /\ G.req = F.req
  <1>1. PICK sent \in SUBSET Reqs : sent = F.sent \ {r}
    BY Fields
  <1>2. G = [F EXCEPT !.sent = sent]
    BY <1>1 DEF Removed
  <1> QED
    BY <1>1, <1>2 DEF Spcfsys

\* A request of the program gets its reply; it is kept while it is flushed.
Answered(F, G, r, rc) ==
    /\ G \in Spcfsys /\ G.spfd = F.spfd /\ G.n = F.n
    /\ G.pend = F.pend /\ G.sent = F.sent \ {r}
    /\ G.tags = F.tags \ (IF F.req[r].flushed THEN {} ELSE {F.req[r].tag})
    /\ \A q \in Reqs : q # r => G.req[q] = F.req[q]
    /\ SameReq(F.req[r], G.req[r], 1, IF F.req[r].flushed THEN 0 ELSE 1, rc)

\* The Tflush r gets its reply: it goes with request o, which it is for.
Rflushed(F, G, r, o) ==
    /\ G \in Spcfsys /\ G.spfd = F.spfd /\ G.n = F.n
    /\ G.pend = F.pend /\ G.sent = F.sent \ {r, o}
    /\ G.tags = F.tags \ {F.req[r].tag, F.req[o].tag}
    /\ \A q \in Reqs : q \notin {r, o} => G.req[q] = F.req[q]
    /\ SameReq(F.req[o], G.req[o], 1, 1, IF o \in F.sent THEN NIL ELSE F.req[o].rc)
    /\ SameReq(F.req[r], G.req[r], F.req[r].calls, 1, F.req[r].rc)

LEMMA Answers ==
    ASSUME SpcFsysAssumption, NEW F, Good(F), NEW r \in F.sent, F.req[r].old = NIL,
           NEW rc \in Reqs, NEW G, G = Done(cb([F EXCEPT !.sent = @ \ {r}], r, rc), r)
    PROVE  Answered(F, G, r, rc)
  <1>1. F \in Spcfsys /\ CountInv(F) /\ r \in ListedIn(F) /\ r \in MadeIn(F) /\ r \in Reqs
    BY Fields DEF Good, ListInv, ListedIn
  <1>2. F.req[r].calls = 0 /\ F.req[r].freed = 0 /\ F.req[r] \in Spcreq
    BY <1>1, Fields DEF CountInv, FlushIn
  <1>3. PICK A : A = Removed(F, r)
    OBVIOUS
  <1>4. PICK B : B = Called(A, r, rc)
    OBVIOUS
  <1>5. /\ A \in Spcfsys /\ A.spfd = F.spfd /\ A.n = F.n /\ A.pend = F.pend
        /\ A.sent = F.sent \ {r} /\ A.tags = F.tags /\ A.req = F.req
    BY <1>1, <1>3, TakesOut
  <1>6. Edited(A, B, r) /\ B.tags = A.tags /\ SameReq(A.req[r], B.req[r], 1, A.req[r].freed, rc)
    BY <1>1, <1>2, <1>4, <1>5, CallsOne
  <1>7. G = Done(B, r)
    BY <1>3, <1>4, <1>5 DEF cb, Removed
  <1>8. SameReq(F.req[r], B.req[r], 1, 0, rc)
    BY <1>2, <1>5, <1>6
  <1>9. /\ B \in Spcfsys /\ B.spfd = F.spfd /\ B.n = F.n /\ B.pend = F.pend
        /\ B.sent = F.sent \ {r} /\ B.tags = F.tags
        /\ \A q \in Reqs : q # r => B.req[q] = F.req[q]
        /\ B.req[r].flushed = F.req[r].flushed /\ B.req[r].tag = F.req[r].tag
        /\ B.req[r].freed = 0
    BY <1>5, <1>6, <1>8 DEF Edited, SameReq
  <1>10. CASE F.req[r].flushed
    <2>1. G = B
      BY <1>7, <1>9, <1>10 DEF Done
    <2>2. F.tags \ {} = F.tags
      OBVIOUS
    <2> QED
      BY <1>8, <1>9, <1>10, <2>1, <2>2 DEF Answered
  <1>11. CASE ~F.req[r].flushed
    <2>1. PICK C : C = spc_put_id(B, r)
      OBVIOUS
    <2>2. G = Freed(C, r)
      BY <1>7, <1>9, <1>11, <2>1 DEF Done
    <2>3. Edited(B, C, r) /\ C.tags = B.tags \ {B.req[r].tag} /\ C.req = B.req
      BY <1>1, <1>9, <2>1, PutsOne
    <2>4. C \in Spcfsys /\ C.req[r].freed = 0
      BY <1>9, <2>3 DEF Edited
    <2>5. Edited(C, G, r) /\ G.tags = C.tags
          /\ SameReq(C.req[r], G.req[r], C.req[r].calls, 1, C.req[r].rc)
      BY <1>1, <2>2, <2>4, FreesOne
    <2>6. SameReq(F.req[r], G.req[r], 1, 1, rc)
      BY <1>8, <2>3, <2>5 DEF SameReq
    <2> QED
      BY <1>9, <1>11, <2>3, <2>5, <2>6 DEF Answered, Edited
  <1> QED
    BY <1>10, <1>11

LEMMA Rflushes ==
    ASSUME SpcFsysAssumption, NEW F, Good(F), NEW r \in F.sent, NEW o, F.req[r].old = o,
           o # NIL, NEW rc \in Reqs,
           NEW G, G = Done(cb([F EXCEPT !.sent = @ \ {r}], r, rc), r)
    PROVE  Rflushed(F, G, r, o)
  <1>1. F \in Spcfsys /\ ListInv(F) /\ FlushInv(F) /\ FlushedInv(F) /\ CountInv(F)
    BY DEF Good
  <1>2. r \in ListedIn(F) /\ r \in MadeIn(F) /\ r \in Reqs
    BY <1>1, Fields DEF ListInv, ListedIn
  <1>3. o \in MadeIn(F) /\ o # r /\ o \in Reqs /\ F.req[o].flushed /\ ~F.req[r].flushed
    <2>1. o \in MadeIn(F) /\ o < r /\ F.req[o].flushed /\ ~F.req[r].flushed
      BY <1>1, <1>2 DEF FlushInv, FlushIn
    <2>2. o \in Reqs
      BY <1>1, <2>1, Fields, Names DEF MadeIn
    <2>3. o \in Nat /\ r \in Nat
      BY <1>2, <2>2, Names
    <2> QED
      BY <2>1, <2>2, <2>3
  <1>4. /\ F.req[r].freed = 0 /\ F.req[o].freed = 0 /\ o \notin F.pend
        /\ F.req[o].calls = (IF o \in F.sent THEN 0 ELSE 1)
    <2>1. o \notin F.pend
      BY <1>1, <1>3 DEF FlushedInv, ListInv, ListedIn
    <2>2. ~FlushIn(F, o)
      BY <1>1, <1>2 DEF FlushInv, FlushIn
    <2> QED
      BY <1>1, <1>2, <1>3, <2>1, <2>2 DEF CountInv, ListedIn
  <1>5. PICK A : A = Removed(F, r)
    OBVIOUS
  <1>6. /\ A \in Spcfsys /\ A.spfd = F.spfd /\ A.n = F.n /\ A.pend = F.pend
        /\ A.sent = F.sent \ {r} /\ A.tags = F.tags /\ A.req = F.req
    BY <1>1, <1>5, TakesOut
  <1>7. PICK B : B = IF o \in A.sent THEN Flushed(A, o) ELSE A
    OBVIOUS
  <1>8. PICK C : C = spc_put_id(B, o)
    OBVIOUS
  <1>9. PICK D : D = Freed(C, o)
    OBVIOUS
  <1>10. PICK E : E = spc_put_id(D, r)
    OBVIOUS
  <1>11. cb(A, r, rc) = D
    BY <1>6, <1>7, <1>8, <1>9 DEF cb, spc_request_flushed
  <1>12. /\ B \in Spcfsys /\ B.spfd = F.spfd /\ B.n = F.n /\ B.pend = F.pend
         /\ B.sent = F.sent \ {r, o} /\ B.tags = F.tags
         /\ \A q \in Reqs : q # o => B.req[q] = F.req[q]
         /\ SameReq(F.req[o], B.req[o], 1, 0, IF o \in F.sent THEN NIL ELSE F.req[o].rc)
    <2>1. CASE o \in F.sent
      <3>1. PICK K : K = Called(A, o, NIL)
        OBVIOUS
      <3>2. B = Removed(K, o)
        BY <1>3, <1>6, <1>7, <2>1, <3>1 DEF Flushed, Removed
      <3>3. A.req[o].calls = 0
        BY <1>4, <1>6, <2>1
      <3>4. /\ Edited(A, K, o) /\ K.tags = A.tags
            /\ SameReq(A.req[o], K.req[o], 1, A.req[o].freed, NIL)
        BY <1>3, <1>6, <3>1, <3>3, CallsOne
      <3>5. K \in Spcfsys
        BY <3>4 DEF Edited
      <3>6. /\ B \in Spcfsys /\ B.spfd = K.spfd /\ B.n = K.n /\ B.pend = K.pend
            /\ B.sent = K.sent \ {o} /\ B.tags = K.tags /\ B.req = K.req
        BY <3>2, <3>5, TakesOut
      <3>7. SameReq(F.req[o], B.req[o], 1, 0, NIL)
        BY <1>4, <1>6, <3>4, <3>6
      <3>8. B.sent = F.sent \ {r, o}
        BY <1>6, <3>4, <3>6 DEF Edited
      <3> QED
        BY <1>6, <2>1, <3>4, <3>6, <3>7, <3>8 DEF Edited
    <2>2. CASE o \notin F.sent
      <3>1. B = A
        BY <1>6, <1>7, <2>2
      <3>2. F.req[o] \in Spcreq /\ F.req[o].calls = 1
        BY <1>1, <1>3, <1>4, <2>2, Fields
      <3>3. SameReq(F.req[o], F.req[o], 1, 0, F.req[o].rc)
        BY <1>4, <3>2 DEF SameReq
      <3>4. B.sent = F.sent \ {r, o}
        BY <1>6, <2>2, <3>1
      <3> QED
        BY <1>6, <2>2, <3>1, <3>3, <3>4
    <2> QED
      BY <2>1, <2>2
  <1>13. PICK rco : rco = IF o \in F.sent THEN NIL ELSE F.req[o].rc
    OBVIOUS
  <1>14. SameReq(F.req[o], B.req[o], 1, 0, rco)
    BY <1>12, <1>13
  <1>15. Edited(B, C, o) /\ C.tags = B.tags \ {B.req[o].tag} /\ C.req = B.req
    BY <1>3, <1>8, <1>12, PutsOne
  <1>16. C \in Spcfsys /\ C.req[o].freed = 0
    BY <1>14, <1>15 DEF Edited, SameReq
  <1>17. Edited(C, D, o) /\ D.tags = C.tags
         /\ SameReq(C.req[o], D.req[o], C.req[o].calls, 1, C.req[o].rc)
    BY <1>3, <1>9, <1>16, FreesOne
  <1>18. /\ D \in Spcfsys /\ D.spfd = F.spfd /\ D.n = F.n /\ D.pend = F.pend
         /\ D.sent = F.sent \ {r, o} /\ D.tags = F.tags \ {F.req[o].tag}
         /\ \A q \in Reqs : q # o => D.req[q] = F.req[q]
         /\ SameReq(F.req[o], D.req[o], 1, 1, rco)
    BY <1>12, <1>14, <1>15, <1>17 DEF Edited, SameReq
  <1>19. D.req[r] = F.req[r]
    BY <1>2, <1>3, <1>18
  <1>20. G = Freed(E, r)
    BY <1>3, <1>5, <1>10, <1>11, <1>19 DEF Done, Removed
  <1>21. Edited(D, E, r) /\ E.tags = D.tags \ {D.req[r].tag} /\ E.req = D.req
    BY <1>2, <1>10, <1>18, PutsOne
  <1>22. E \in Spcfsys /\ E.req[r].freed = 0
    BY <1>4, <1>19, <1>21 DEF Edited
  <1>23. Edited(E, G, r) /\ G.tags = E.tags
         /\ SameReq(E.req[r], G.req[r], E.req[r].calls, 1, E.req[r].rc)
    BY <1>2, <1>20, <1>22, FreesOne
  <1>24. SameReq(F.req[r], G.req[r], F.req[r].calls, 1, F.req[r].rc)
    BY <1>19, <1>21, <1>23
  <1>25. G.req[o] = D.req[o]
    BY <1>3, <1>21, <1>23 DEF Edited
  <1>26. G.tags = F.tags \ {F.req[r].tag, F.req[o].tag}
    <2>1. PICK t, u : t = F.req[r].tag /\ u = F.req[o].tag
      OBVIOUS
    <2>2. D.tags = F.tags \ {u} /\ E.tags = D.tags \ {t} /\ G.tags = E.tags
      BY <1>18, <1>19, <1>21, <1>23, <2>1
    <2>3. G.tags = F.tags \ {t, u}
      BY <2>2
    <2> QED
      BY <2>1, <2>3
  <1>27. /\ G \in Spcfsys /\ G.spfd = F.spfd /\ G.n = F.n /\ G.pend = F.pend
         /\ G.sent = F.sent \ {r, o}
    BY <1>18, <1>21, <1>23 DEF Edited
  <1>28. \A q \in Reqs : q \notin {r, o} => G.req[q] = F.req[q]
    BY <1>18, <1>21, <1>23 DEF Edited
  <1> QED
    BY <1>13, <1>18, <1>24, <1>25, <1>26, <1>27, <1>28 DEF Rflushed

LEMMA GoodAnswered ==
    ASSUME SpcFsysAssumption, NEW F, Good(F), NEW r \in F.sent, F.req[r].old = NIL,
           NEW G, NEW rc, Answered(F, G, r, rc)
    PROVE  Good(G)
  <1>1. F \in Spcfsys /\ ListInv(F) /\ FlushInv(F) /\ FlushedInv(F) /\ CountInv(F)
    BY DEF Good
  <1>2. ListedIn(F) \subseteq MadeIn(F) /\ MadeIn(F) \subseteq Reqs /\ r \notin F.pend
    <2>1. F.n <= MaxReqs /\ F.n \in Nat
      BY <1>1, Fields, Names
    <2> QED
      BY <1>1, <2>1, Names DEF ListInv, ListedIn, MadeIn
  <1>3. /\ G \in Spcfsys /\ G.spfd = F.spfd /\ G.n = F.n
        /\ G.pend = F.pend /\ G.sent = F.sent \ {r}
        /\ \A q \in Reqs : q # r => G.req[q] = F.req[q]
        /\ G.req[r].fid = F.req[r].fid /\ G.req[r].old = F.req[r].old
        /\ G.req[r].flushed = F.req[r].flushed
        /\ G.req[r].calls = 1 /\ G.req[r].freed = IF F.req[r].flushed THEN 0 ELSE 1
    BY DEF Answered, SameReq
  <1>4. ListedIn(G) = ListedIn(F) \ {r} /\ MadeIn(G) = MadeIn(F) /\ r \in MadeIn(F) /\ r # NIL
    BY <1>2, <1>3, Names DEF ListedIn, MadeIn
  <1>5. \A q \in MadeIn(F) : G.req[q].old = F.req[q].old /\ G.req[q].fid = F.req[q].fid
                             /\ G.req[q].flushed = F.req[q].flushed
                             /\ (q # r => G.req[q] = F.req[q])
    BY <1>2, <1>3
  <1>6. Leaves(F, G)
    <2>1. \A q \in ListedIn(G), f \in ListedIn(F) : F.req[f].old = q => f \in ListedIn(G)
      BY <1>2, <1>4, Names
    <2> QED
      BY <1>1, <1>3, <1>4, <1>5, <2>1 DEF Leaves, ListInv, FlushIn
  \* There is a Tflush for r when it is flushed.
  <1>7. (\E f \in ListedIn(F) : F.req[f].old = r) <=> F.req[r].flushed
    <2>1. ASSUME F.req[r].flushed PROVE \E f \in ListedIn(F) : F.req[f].old = r
      BY <1>1, <2>1 DEF FlushedInv, ListedIn
    <2>2. ASSUME NEW f \in ListedIn(F), F.req[f].old = r PROVE F.req[r].flushed
      BY <1>1, <1>2, <1>4, <2>2 DEF FlushInv, FlushIn
    <2> QED
      BY <2>1, <2>2
  <1>8. \A q \in MadeIn(F) : (\E f \in ListedIn(G) : G.req[f].old = q)
                                <=> (\E f \in ListedIn(F) : F.req[f].old = q)
    <2> TAKE q \in MadeIn(F)
    <2>1. q # NIL
      BY <1>2, Names
    <2> QED
      BY <1>2, <1>4, <1>5, <2>1
  <1>9. CountInv(G)
    <2>1. /\ G.req[r].calls = IF r \in ListedIn(G) THEN 0 ELSE 1
          /\ G.req[r].freed = IF r \in ListedIn(G) \/ \E f \in ListedIn(G) : G.req[f].old = r
                              THEN 0 ELSE 1
      BY <1>3, <1>4, <1>7, <1>8
    <2>2. \A q \in MadeIn(F) \ {r} :
            /\ ~FlushIn(G, q) => G.req[q].calls = (IF q \in ListedIn(G) THEN 0 ELSE 1)
            /\ G.req[q].freed = (IF q \in ListedIn(G) \/ \E f \in ListedIn(G) : G.req[f].old = q
                                 THEN 0 ELSE 1)
      <3> TAKE q \in MadeIn(F) \ {r}
      <3>1. /\ ~FlushIn(F, q) => F.req[q].calls = (IF q \in ListedIn(F) THEN 0 ELSE 1)
            /\ F.req[q].freed = (IF q \in ListedIn(F) \/ \E f \in ListedIn(F) : F.req[f].old = q
                                 THEN 0 ELSE 1)
        BY <1>1 DEF CountInv
      <3>2. G.req[q] = F.req[q] /\ (q \in ListedIn(G) <=> q \in ListedIn(F))
        BY <1>4, <1>5
      <3> QED
        BY <1>8, <3>1, <3>2 DEF FlushIn
    <2> QED
      BY <1>4, <2>1, <2>2 DEF CountInv
  <1> QED
    BY <1>6, <1>9, GoodLeaves

LEMMA GoodRflushed ==
    ASSUME SpcFsysAssumption, NEW F, Good(F), NEW r \in F.sent, NEW o, F.req[r].old = o,
           o # NIL, NEW G, Rflushed(F, G, r, o)
    PROVE  Good(G)
  <1>1. F \in Spcfsys /\ ListInv(F) /\ FlushInv(F) /\ FlushedInv(F) /\ CountInv(F)
    BY DEF Good
  <1>2. ListedIn(F) \subseteq MadeIn(F) /\ MadeIn(F) \subseteq Reqs
    <2>1. F.n <= MaxReqs /\ F.n \in Nat
      BY <1>1, Fields, Names
    <2> QED
      BY <1>1, <2>1, Names DEF ListInv, ListedIn, MadeIn
  <1>3. /\ r \in MadeIn(F) /\ r \in ListedIn(F) /\ r # NIL /\ o \in MadeIn(F)
        /\ F.req[o].old = NIL /\ F.req[o].flushed /\ o # r
        /\ \A q \in MadeIn(F) : F.req[q].old = o => q = r
    <2>1. r \in MadeIn(F) /\ r \in ListedIn(F)
      BY <1>2 DEF ListedIn
    <2>2. /\ o \in MadeIn(F) /\ ~FlushIn(F, o) /\ F.req[o].flushed
          /\ \A q \in MadeIn(F) : F.req[q].old = o => q = r
      BY <1>1, <2>1 DEF FlushInv, FlushIn
    <2> QED
      BY <1>2, <2>1, <2>2, Names DEF FlushIn
  <1>4. o \notin F.pend
    BY <1>1, <1>3 DEF FlushedInv, ListInv, ListedIn
  <1>5. /\ G \in Spcfsys /\ G.spfd = F.spfd /\ G.n = F.n
        /\ G.pend = F.pend /\ G.sent = F.sent \ {r, o}
        /\ \A q \in Reqs : q \notin {r, o} => G.req[q] = F.req[q]
        /\ G.req[o].fid = F.req[o].fid /\ G.req[o].old = F.req[o].old
        /\ G.req[o].flushed = F.req[o].flushed /\ G.req[o].calls = 1 /\ G.req[o].freed = 1
        /\ G.req[r].fid = F.req[r].fid /\ G.req[r].old = F.req[r].old
        /\ G.req[r].flushed = F.req[r].flushed /\ G.req[r].calls = F.req[r].calls
        /\ G.req[r].freed = 1
    BY DEF Rflushed, SameReq
  <1>6. r \notin F.pend
    BY <1>1 DEF ListInv
  <1>7. ListedIn(G) = ListedIn(F) \ {r, o} /\ MadeIn(G) = MadeIn(F)
    BY <1>4, <1>5, <1>6 DEF ListedIn, MadeIn
  <1>8. \A q \in MadeIn(F) : G.req[q].old = F.req[q].old /\ G.req[q].fid = F.req[q].fid
                             /\ G.req[q].flushed = F.req[q].flushed
                             /\ (q \notin {r, o} => G.req[q] = F.req[q])
    BY <1>2, <1>5
  <1>9. \A q \in MadeIn(F) : FlushIn(F, q) => G.req[q].calls = F.req[q].calls
    <2> TAKE q \in MadeIn(F)
    <2>1. CASE q = r
      BY <1>5, <2>1
    <2>2. CASE q = o
      BY <1>3, <2>2 DEF FlushIn
    <2>3. CASE q \notin {r, o}
      BY <1>8, <2>3
    <2> QED
      BY <2>1, <2>2, <2>3
  <1>10. Leaves(F, G)
    <2>1. \A q \in ListedIn(G), f \in ListedIn(F) : F.req[f].old = q => f \in ListedIn(G)
      BY <1>2, <1>3, <1>7, Names
    <2> QED
      BY <1>1, <1>5, <1>7, <1>8, <1>9, <2>1 DEF Leaves, ListInv
  <1>11. \A q \in MadeIn(F) : (\E f \in ListedIn(G) : G.req[f].old = q)
                                <=> q # o /\ \E f \in ListedIn(F) : F.req[f].old = q
    <2> TAKE q \in MadeIn(F)
    <2>1. q # NIL
      BY <1>2, Names
    <2>2. CASE q = o
      BY <1>2, <1>3, <1>7, <1>8, <2>2
    <2>3. CASE q # o
      BY <1>2, <1>3, <1>7, <1>8, <2>1, <2>3
    <2> QED
      BY <2>2, <2>3
  \* No Tflush is for r.
  <1>12. \A f \in ListedIn(F) : F.req[f].old # r
    BY <1>1, <1>2, <1>3 DEF FlushInv, FlushIn
  <1>13. CountInv(G)
    <2>1. /\ G.req[o].calls = IF o \in ListedIn(G) THEN 0 ELSE 1
          /\ G.req[o].freed = IF o \in ListedIn(G) \/ \E f \in ListedIn(G) : G.req[f].old = o
                              THEN 0 ELSE 1
      BY <1>3, <1>5, <1>7, <1>11
    <2>2. /\ FlushIn(G, r)
          /\ G.req[r].freed = IF r \in ListedIn(G) \/ \E f \in ListedIn(G) : G.req[f].old = r
                              THEN 0 ELSE 1
      BY <1>3, <1>5, <1>7, <1>11, <1>12 DEF FlushIn
    <2>3. \A q \in MadeIn(F) \ {r, o} :
            /\ ~FlushIn(G, q) => G.req[q].calls = (IF q \in ListedIn(G) THEN 0 ELSE 1)
            /\ G.req[q].freed = (IF q \in ListedIn(G) \/ \E f \in ListedIn(G) : G.req[f].old = q
                                 THEN 0 ELSE 1)
      <3> TAKE q \in MadeIn(F) \ {r, o}
      <3>1. /\ ~FlushIn(F, q) => F.req[q].calls = (IF q \in ListedIn(F) THEN 0 ELSE 1)
            /\ F.req[q].freed = (IF q \in ListedIn(F) \/ \E f \in ListedIn(F) : F.req[f].old = q
                                 THEN 0 ELSE 1)
        BY <1>1 DEF CountInv
      <3>2. G.req[q] = F.req[q] /\ (q \in ListedIn(G) <=> q \in ListedIn(F))
        BY <1>7, <1>8
      <3>3. (\E f \in ListedIn(G) : G.req[f].old = q) <=> (\E f \in ListedIn(F) : F.req[f].old = q)
        BY <1>11
      <3> QED
        BY <3>1, <3>2, <3>3 DEF FlushIn
    <2> QED
      BY <1>7, <2>1, <2>2, <2>3 DEF CountInv
  <1> QED
    BY <1>10, <1>13, GoodLeaves

\* What the loss of the connection does to one request.
LostReq(x, y) ==
    /\ y \in Spcreq
    /\ y.fid = x.fid /\ y.old = x.old /\ y.flushed = x.flushed
    /\ y.calls = (IF x.old = NIL THEN 1 ELSE x.calls) /\ y.freed = 1 /\ y.rc \in {x.rc, NIL}

\* A request is given up once: in its turn, by the callback of its Tflush, or before.
LEMMA Loses ==
    ASSUME SpcFsysAssumption, Good(fs), NEW r \in Reqs
    PROVE  IF r \in MadeIn(fs) THEN LostReq(fs.req[r], Lost(r)) ELSE Lost(r) = fs.req[r]
  <1>1. fs \in Spcfsys /\ ListInv(fs) /\ FlushInv(fs) /\ FlushedInv(fs) /\ CountInv(fs)
    BY DEF Good
  <1>2. PICK x \in Spcreq : x = fs.req[r]
    BY <1>1, Fields
  <1>3. Listed = ListedIn(fs) /\ Listed \subseteq MadeIn(fs)
    BY <1>1 DEF Listed, ListedIn, ListInv
  <1>4. PICK turn : turn = IF r \in Listed /\ ~TakenOut(r) THEN 1 ELSE 0
    OBVIOUS
  <1>5. PICK called : called = (IF IsFlush(r) THEN 0 ELSE turn)
                               + (IF r \in fs.sent /\ FlushesOf(r) # {} THEN 1 ELSE 0)
    OBVIOUS
  <1>6. PICK flushes : flushes = Cardinality(FlushesOf(r))
    OBVIOUS
  <1>7. Lost(r) = [x EXCEPT !.calls = @ + called, !.freed = @ + turn + flushes,
                            !.rc = IF called = 0 THEN @ ELSE NIL]
    BY <1>2, <1>4, <1>5, <1>6, Zenon DEF Lost
  <1>8. PICK y : y = Lost(r)
    OBVIOUS
  <1>9. ASSUME NEW c \in 0..2, NEW d \in 0..2,
               x.calls + called = c, x.freed + turn + flushes = d
        PROVE  /\ called = 0 => SameReq(x, y, c, d, x.rc) /\ y = Recounted(x, c, d, x.rc)
               /\ called # 0 => SameReq(x, y, c, d, NIL)
    <2>1. PICK rc \in Reqs \cup {NIL} : rc = IF called = 0 THEN x.rc ELSE NIL
      BY ReqFields
    <2>2. y = [x EXCEPT !.calls = c, !.freed = d, !.rc = rc]
      BY <1>7, <1>8, <1>9, <2>1
    <2>3. y = Recounted(x, c, d, rc)
      BY <2>2 DEF Spcreq, Recounted
    <2>4. SameReq(x, y, c, d, rc)
      BY <2>3, Counts
    <2> QED
      BY <2>1, <2>3, <2>4
  <1>10. IsFlush(r) <=> x.old # NIL
    BY <1>2 DEF IsFlush
  <1>11. x.calls \in Nat /\ x.freed \in Nat /\ x.calls \in 0..2 /\ x.freed \in 0..2
    BY ReqFields
  <1>12. r # NIL
    BY Names
  \* Without a Tflush the request is given up in its turn.
  <1>13. ASSUME FlushesOf(r) = {}
         PROVE  /\ flushes = 0 /\ turn = IF r \in Listed THEN 1 ELSE 0
                /\ called = IF IsFlush(r) THEN 0 ELSE turn
    BY <1>4, <1>5, <1>6, <1>13, FS_EmptySet DEF TakenOut
  <1>14. CASE r \notin MadeIn(fs)
    <2>1. FlushesOf(r) = {}
      BY <1>1, <1>3, <1>12, <1>14 DEF FlushesOf, FlushInv, FlushIn
    <2>2. turn = 0 /\ flushes = 0 /\ called = 0
      BY <1>3, <1>13, <1>14, <2>1
    <2>3. y = Recounted(x, x.calls, x.freed, x.rc)
      BY <1>9, <1>11, <2>2
    <2>4. x = Recounted(x, x.calls, x.freed, x.rc)
      BY DEF Spcreq, Recounted
    <2> QED
      BY <1>2, <1>8, <1>14, <2>3, <2>4
  <1>15. CASE r \in MadeIn(fs)
    <2>1. /\ x.old = NIL => x.calls = IF r \in Listed THEN 0 ELSE 1
          /\ x.freed = IF r \in Listed \/ FlushesOf(r) # {} THEN 0 ELSE 1
      <3>1. FlushesOf(r) # {} <=> \E f \in ListedIn(fs) : fs.req[f].old = r
        BY <1>3 DEF FlushesOf
      <3> QED
        BY <1>1, <1>2, <1>3, <1>15, <3>1 DEF CountInv, FlushIn
    <2>2. CASE FlushesOf(r) = {}
      <3>1. x.freed + turn + flushes = 1
        BY <1>13, <2>1, <2>2
      <3>2. CASE x.old = NIL
        <4>1. x.calls + called = 1
          BY <1>10, <1>13, <2>1, <2>2, <3>2
        <4>2. SameReq(x, y, 1, 1, x.rc) \/ SameReq(x, y, 1, 1, NIL)
          BY <1>9, <3>1, <4>1
        <4> QED
          BY <1>2, <1>8, <1>15, <3>2, <4>2 DEF SameReq, LostReq
      <3>3. CASE x.old # NIL
        <4>1. called = 0
          BY <1>10, <1>13, <2>2, <3>3
        <4>2. SameReq(x, y, x.calls, 1, x.rc)
          BY <1>9, <1>11, <3>1, <4>1
        <4> QED
          BY <1>2, <1>8, <1>15, <3>3, <4>2 DEF SameReq, LostReq
      <3> QED
        BY <3>2, <3>3
    <2>3. CASE FlushesOf(r) # {}
      <3>1. PICK f \in Listed : fs.req[f].old = r
        BY <2>3 DEF FlushesOf
      <3>2. /\ r < f /\ fs.req[r].old = NIL /\ fs.req[r].flushed
            /\ \A q \in MadeIn(fs) : fs.req[q].old = r => q = f
        BY <1>1, <1>3, <1>12, <3>1 DEF FlushInv, FlushIn
      <3>3. FlushesOf(r) = {f}
        BY <1>3, <3>1, <3>2 DEF FlushesOf
      <3>4. flushes = 1
        BY <1>6, <3>3, FS_Singleton
      <3>5. r \in Listed => r \in fs.sent
        BY <1>1, <1>3, <3>2 DEF FlushedInv
      <3>6. f > r
        <4>1. f \in Nat /\ r \in Nat
          BY <1>1, <1>3, Fields, Names DEF MadeIn
        <4> QED
          BY <3>2, <4>1
      <3>7. r \in Listed => TakenOut(r)
        BY <3>3, <3>5, <3>6 DEF TakenOut
      <3>8. turn = 0
        BY <1>4, <3>7
      <3>9. x.freed + turn + flushes = 1 /\ x.old = NIL
        BY <1>2, <2>1, <2>3, <3>2, <3>4, <3>8
      <3>10. called = IF r \in Listed THEN 1 ELSE 0
        BY <1>5, <2>3, <3>5, <3>8 DEF Listed
      <3>11. x.calls + called = 1
        BY <2>1, <3>9, <3>10
      <3>12. SameReq(x, y, 1, 1, x.rc) \/ SameReq(x, y, 1, 1, NIL)
        BY <1>9, <3>9, <3>11
      <3> QED
        BY <1>2, <1>8, <1>15, <3>9, <3>12 DEF SameReq, LostReq
    <2> QED
      BY <2>2, <2>3
  <1> QED
    BY <1>14, <1>15

Disconnected(F, G) ==
    /\ G \in Spcfsys /\ ~G.spfd /\ G.n = F.n /\ G.pend = {} /\ G.sent = {}
    /\ G.tags \subseteq F.tags
    /\ \A r \in MadeIn(F) : LostReq(F.req[r], G.req[r])

LEMMA Disconnects ==
    ASSUME SpcFsysAssumption, Good(fs), spc_disconnect_fsys
    PROVE  Disconnected(fs, fs')
  <1>1. fs \in Spcfsys
    BY DEF Good
  <1>2. PICK req : req = [r \in Reqs |-> Lost(r)]
    OBVIOUS
  <1>3. \A r \in Reqs : Lost(r) \in Spcreq
    BY <1>1, Loses, Fields DEF LostReq
  <1>4. req \in [Reqs -> Spcreq] /\ \A r \in Reqs : req[r] = Lost(r)
    BY <1>2, <1>3
  <1>5. PICK tags \in SUBSET (0..NTags - 1) :
             tags = fs.tags \ {fs.req[r].tag : r \in {q \in Reqs : FlushesOf(q) # {}}}
    BY <1>1, Fields
  <1>6. fs' = [fs EXCEPT !.spfd = FALSE, !.pend = {}, !.sent = {}, !.req = req, !.tags = tags]
    BY <1>2, <1>5 DEF spc_disconnect_fsys
  <1>7. /\ fs' \in Spcfsys /\ ~fs'.spfd /\ fs'.n = fs.n /\ fs'.pend = {} /\ fs'.sent = {}
        /\ fs'.req = req /\ fs'.tags = tags
    BY <1>1, <1>4, <1>6 DEF Spcfsys
  <1>8. MadeIn(fs) \subseteq Reqs
    <2>1. fs.n <= MaxReqs /\ fs.n \in Nat
      BY <1>1, Fields, Names
    <2> QED
      BY <2>1, Names DEF MadeIn
  <1> QED
    BY <1>4, <1>5, <1>7, <1>8, Loses DEF Disconnected

LEMMA GoodDisconnected ==
    ASSUME SpcFsysAssumption, NEW F, NEW G, Good(F), Disconnected(F, G)
    PROVE  Good(G)
  <1>1. ListedIn(G) = {} /\ MadeIn(G) = MadeIn(F)
    BY DEF Disconnected, ListedIn, MadeIn
  <1>2. \A r \in MadeIn(F) :
            /\ G.req[r].fid = F.req[r].fid /\ G.req[r].old = F.req[r].old
            /\ G.req[r].flushed = F.req[r].flushed
            /\ G.req[r].calls = (IF F.req[r].old = NIL THEN 1 ELSE F.req[r].calls)
            /\ G.req[r].freed = 1
    BY DEF Disconnected, LostReq
  <1>3. Leaves(F, G)
    BY <1>1, <1>2 DEF Leaves, Disconnected, FlushIn
  <1>4. CountInv(G)
    BY <1>1, <1>2 DEF CountInv, FlushIn
  <1> QED
    BY <1>3, <1>4, GoodLeaves

\* A request made without a connection.
Refusal(fid) == [fid |-> fid, old |-> NIL, tag |-> 0, flushed |-> FALSE, calls |-> 1,
                 freed |-> 1, rc |-> NIL]

Refused(F, G, fid) ==
    /\ G \in Spcfsys /\ G.spfd = F.spfd /\ G.n = F.n + 1 /\ G.pend = F.pend /\ G.sent = F.sent
    /\ G.tags = F.tags
    /\ \A r \in Reqs : r # F.n + 1 => G.req[r] = F.req[r]
    /\ G.req[F.n + 1] = Refusal(fid)

LEMMA Refuses ==
    ASSUME SpcFsysAssumption, NEW F \in Spcfsys, NEW fid \in Fids, F.n < MaxReqs,
           NEW G, G = [F EXCEPT !.n = @ + 1, !.req[F.n + 1] = Refusal(fid)]
    PROVE  Refused(F, G, fid)
  <1>1. PICK n \in Nat : n = F.n /\ n + 1 <= MaxReqs
    BY Fields, Names
  <1>2. PICK r \in Reqs, m \in 0..MaxReqs : r = n + 1 /\ m = n + 1
    BY <1>1, Names
  <1>3. PICK x \in Spcreq : x = Refusal(fid)
    <2>1. 0 \in 0..NTags - 1 /\ 1 \in 0..2
      BY DEF SpcFsysAssumption
    <2> QED
      BY <2>1 DEF Spcreq, Refusal
  <1>4. PICK H : H = [F EXCEPT !.n = m]
    OBVIOUS
  <1>5. /\ H \in Spcfsys /\ H.spfd = F.spfd /\ H.n = m /\ H.pend = F.pend /\ H.sent = F.sent
        /\ H.req = F.req /\ H.tags = F.tags
    BY <1>4 DEF Spcfsys
  <1>6. G = Put(H, r, x)
    BY <1>1, <1>2, <1>3, <1>4, <1>5 DEF Put, Spcfsys
  <1>7. PICK K : K = Put(H, r, x)
    OBVIOUS
  <1>8. Edited(H, K, r) /\ K.req[r] = x /\ K.tags = H.tags
    BY <1>5, <1>7, Edits
  <1>9. G = K
    BY <1>6, <1>7
  <1>10. Refused(F, K, fid)
    BY <1>1, <1>2, <1>3, <1>5, <1>8 DEF Edited, Refused
  <1> QED
    BY <1>9, <1>10

LEMMA GoodRefused ==
    ASSUME SpcFsysAssumption, NEW F, Good(F), ~F.spfd, NEW fid \in Fids, F.n < MaxReqs,
           NEW G, Refused(F, G, fid)
    PROVE  Good(G)
  <1>1. /\ F \in Spcfsys /\ ListInv(F) /\ FlushInv(F) /\ FlushedInv(F) /\ CountInv(F)
        /\ SilentInv(F)
    BY DEF Good
  <1>2. PICK n \in Nat : n = F.n /\ n + 1 <= MaxReqs
    BY <1>1, Fields, Names
  <1>3. /\ G \in Spcfsys /\ ~G.spfd /\ G.n = n + 1 /\ ListedIn(G) = {} /\ ListedIn(F) = {}
        /\ \A r \in Reqs : r # n + 1 => G.req[r] = F.req[r]
        /\ G.req[n + 1].fid = fid /\ G.req[n + 1].old = NIL /\ ~G.req[n + 1].flushed
        /\ G.req[n + 1].calls = 1 /\ G.req[n + 1].freed = 1
    BY <1>1, <1>2 DEF Refused, Refusal, ListInv, ListedIn
  <1>4. /\ MadeIn(G) = 1..n \cup {n + 1} /\ MadeIn(F) = 1..n /\ n + 1 \notin 1..n
        /\ 1..n \subseteq Reqs /\ n + 1 \in Reqs /\ n + 1 # NIL
    BY <1>2, <1>3, Names DEF MadeIn
  <1>5. \A r \in 1..n : G.req[r] = F.req[r]
    BY <1>3, <1>4
  <1>6. ListInv(G)
    BY <1>3 DEF ListInv, ListedIn
  <1>7. FlushInv(G)
    <2>1. ASSUME NEW r \in 1..n, F.req[r].old # NIL
          PROVE  /\ F.req[r].old \in 1..n /\ F.req[r].old < r
                 /\ F.req[F.req[r].old].old = NIL /\ F.req[F.req[r].old].flushed
                 /\ \A q \in 1..n : F.req[q].old = F.req[r].old => q = r
                 /\ F.req[r].fid = NIL /\ ~F.req[r].flushed
      BY <1>1, <1>4, <2>1 DEF FlushInv, FlushIn
    <2>2. ASSUME NEW r \in 1..n, F.req[r].old = NIL
          PROVE  F.req[r].fid \in Fids
      BY <1>1, <1>4, <2>2 DEF FlushInv, FlushIn
    <2> QED
      BY <1>3, <1>4, <1>5, <2>1, <2>2 DEF FlushInv, FlushIn
  <1>8. FlushedInv(G)
    BY <1>3 DEF FlushedInv
  <1>9. CountInv(G)
    BY <1>1, <1>3, <1>4, <1>5 DEF CountInv, FlushIn
  <1>10. SilentInv(G)
    BY <1>1, <1>3, <1>4, <1>5 DEF SilentInv, FlushIn
  <1> QED
    BY <1>3, <1>6, <1>7, <1>8, <1>9, <1>10 DEF Good

-----------------------------------------------------------------------------
(* Steps.                                                                  *)

\* A request of the program that is made with a connection.
LEMMA RpcnbStep ==
    ASSUME SpcFsysAssumption, Good(fs), NEW fid \in Fids, spc_rpcnb(fid)
    PROVE  /\ Good(fs')
           /\ \/ /\ fs.spfd
                 /\ \E F : Extended(fs, F, fid, 1, <<NIL>>) /\ Moved(F, fs')
              \/ ~fs.spfd /\ Refused(fs, fs', fid)
  <1>1. fs \in Spcfsys /\ fs.n < MaxReqs /\ fs.n \in Nat
    BY Fields, Names DEF spc_rpcnb, Good
  <1>2. CASE fs.spfd
    <2>1. PICK F : F = Spcreq_new(fs, fid, <<NIL>>)
      OBVIOUS
    <2>2. fs' \in Started(F)
      BY <1>2, <2>1 DEF spc_rpcnb
    <2>3. Good(F)
      BY <1>1, <1>2, <2>1, GoodNew
    <2>4. Moved(F, fs')
      BY <2>2, <2>3, Starts DEF Good, ListInv
    <2>5. Good(fs')
      BY <2>3, <2>4, GoodMoved
    <2>6. Extended(fs, F, fid, 1, <<NIL>>)
      <3>1. PICK k \in Nat : k = 1
        OBVIOUS
      <3>2. <<NIL>> \in [1..k -> Reqs \cup {NIL}]
        BY <3>1
      <3>3. PICK olds \in [1..k -> Reqs \cup {NIL}] : olds = <<NIL>>
        BY <3>2
      <3>4. fs.n + k <= MaxReqs /\ fid \in Fids \cup {NIL}
        BY <1>1, <3>1, Names
      <3>5. F = Spcreq_new(fs, fid, olds)
        BY <2>1, <3>3
      <3>6. Extended(fs, F, fid, k, olds)
        BY <1>1, <3>4, <3>5, Extends
      <3> QED
        BY <3>1, <3>3, <3>6
    <2> QED
      BY <1>2, <2>4, <2>5, <2>6
  <1>3. CASE ~fs.spfd
    <2>1. fs' = [fs EXCEPT !.n = @ + 1, !.req[fs.n + 1] = Refusal(fid)]
      BY <1>3 DEF spc_rpcnb, Refusal
    <2>2. PICK G : G = fs'
      OBVIOUS
    <2>3. Refused(fs, G, fid)
      BY <1>1, <2>1, <2>2, Refuses
    <2>4. Good(G)
      BY <1>1, <1>3, <2>3, GoodRefused
    <2> QED
      BY <1>3, <2>2, <2>3, <2>4
  <1> QED
    BY <1>2, <1>3

\* Tflushes for the requests of a file: one, and the others when it was put in the list.
Flushing(F, G, r, S) ==
    \E U, H, K : /\ \E T \in SUBSET F.pend : Dropped(F, U, T)
                 /\ TflushesOf(U, H, {r}) /\ Moved(H, K) /\ TflushesOf(K, G, S)
                 /\ Good(U) /\ Good(K)

LEMMA FlushStep ==
    ASSUME SpcFsysAssumption, Good(fs), NEW fid \in Fids, spc_flush_requests(fid)
    PROVE  /\ Good(fs') /\ fs.spfd
           /\ \/ \E T \in SUBSET fs.pend : Dropped(fs, fs', T)
              \/ \E r \in fs.sent, S \in SUBSET fs.sent :
                    r \notin S /\ Flushing(fs, fs', r, S)
  <1>1. PICK waiting \in SUBSET fs.pend : waiting = {r \in fs.pend : fs.req[r].fid = fid}
    OBVIOUS
  <1>2. PICK running \in SUBSET fs.sent :
             running = {r \in fs.sent : fs.req[r].fid = fid /\ ~fs.req[r].flushed}
    OBVIOUS
  <1>3. /\ fs.spfd /\ fs.n + Cardinality(running) <= MaxReqs
        /\ \/ running = {} /\ fs' = Unsent(fs, waiting)
           \/ /\ running # {}
              /\ \E F \in Started(spc_flush_request(Unsent(fs, waiting), {Max(running)})) :
                    fs' = spc_flush_request(F, running \ {Max(running)})
    BY <1>1, <1>2 DEF spc_flush_requests
  <1>4. fs \in Spcfsys /\ ListInv(fs) /\ FlushInv(fs) /\ fs.n \in Nat
    BY Fields, Names DEF Good
  <1>5. \A r \in waiting \cup running : fs.req[r].old = NIL
    BY <1>1, <1>2, <1>4, Names DEF ListInv, FlushInv, FlushIn
  <1>6. PICK U : U = Unsent(fs, waiting)
    OBVIOUS
  <1>7. Good(U) /\ Dropped(fs, U, waiting)
    BY <1>5, <1>6, GoodUnsent, Drops
  <1>8. CASE running = {}
    BY <1>3, <1>6, <1>7, <1>8
  <1>9. CASE running # {}
    <2>1. running \in SUBSET Reqs
      BY <1>4, Fields
    <2>2. PICK r \in running : r = Max(running)
      BY <1>9, <2>1, GreatestMember
    <2>3. PICK S : S = running \ {r}
      OBVIOUS
    <2>4. PICK k \in Nat : k = Cardinality(running) /\ IsFiniteSet(running)
      BY <2>1, AlongAll
    <2>5. Cardinality(S) = k - 1 /\ k > 0
      <3>1. k # 0
        BY <1>9, <2>4, FS_EmptySet
      <3>2. Cardinality(running \ {r}) = k - 1
        BY <2>4, FS_RemoveElement
      <3> QED
        BY <2>3, <3>1, <3>2
    <2>6. Cardinality({r}) = 1
      BY FS_Singleton
    <2>7. PICK H : H = spc_flush_request(U, {r})
      OBVIOUS
    <2>8. PICK K : K \in Started(H) /\ fs' = spc_flush_request(K, S)
      BY <1>3, <1>6, <1>9, <2>2, <2>3, <2>7
    <2>9. PICK G : G = spc_flush_request(K, S)
      OBVIOUS
    <2>10. /\ U \in Spcfsys /\ U.spfd /\ U.n = fs.n /\ U.sent = fs.sent /\ U.pend \subseteq fs.pend
           /\ \A q \in running : U.req[q] = fs.req[q]
      BY <1>3, <1>4, <1>7, <2>1 DEF Dropped, ListInv
    <2>11. \A q \in running : U.req[q].old = NIL /\ ~U.req[q].flushed
      BY <1>2, <1>5, <2>10
    <2>12. Good(H) /\ TflushesOf(U, H, {r})
      <3>1. {r} \in SUBSET U.sent /\ {r} \in SUBSET (1..U.n)
        BY <1>4, <2>10 DEF ListInv, MadeIn
      <3>2. U.n + Cardinality({r}) <= MaxReqs
        BY <1>3, <1>4, <2>4, <2>5, <2>6, <2>10, Names
      <3>3. \A q \in {r} : U.req[q].old = NIL /\ ~U.req[q].flushed
        BY <2>11
      <3>4. PICK X : X = {r}
        OBVIOUS
      <3>5. Good(spc_flush_request(U, X))
        BY <1>7, <2>10, <3>1, <3>2, <3>3, <3>4, GoodFlush
      <3>6. TflushesOf(U, spc_flush_request(U, X), X)
        BY <2>10, <3>1, <3>2, <3>4, MadeTflushes
      <3> QED
        BY <2>7, <3>4, <3>5, <3>6
    <2>13. Moved(H, K)
      BY <2>8, <2>12, Starts DEF Good, ListInv
    <2>14. Good(K)
      BY <2>12, <2>13, GoodMoved
    <2>15. /\ K.spfd /\ K.n = fs.n + 1 /\ fs.sent \subseteq K.sent /\ S \in SUBSET K.sent
           /\ S \in SUBSET (1..fs.n) /\ K.req = H.req
      BY <1>4, <2>3, <2>6, <2>10, <2>12, <2>13 DEF TflushesOf, Moved, ListInv, MadeIn
    <2>16. \A q \in S : K.req[q].old = NIL /\ ~K.req[q].flushed
      <3> TAKE q \in S
      <3>1. q \in 1..U.n /\ q \notin {r} /\ q \in running
        BY <2>3, <2>10, <2>15
      <3>2. H.req[q] = U.req[q]
        BY <2>12, <3>1 DEF TflushesOf
      <3> QED
        BY <2>11, <2>15, <3>1, <3>2
    <2>17. K.n + Cardinality(S) <= MaxReqs /\ S \in SUBSET (1..K.n)
      BY <1>3, <1>4, <2>4, <2>5, <2>15, Names
    <2>18. Good(G) /\ TflushesOf(K, G, S)
      <3>1. Good(G)
        BY <2>9, <2>14, <2>15, <2>16, <2>17, GoodFlush
      <3>2. K \in Spcfsys
        BY <2>14 DEF Good
      <3> QED
        BY <2>9, <2>17, <3>1, <3>2, MadeTflushes
    <2>19. Flushing(fs, G, r, S)
      BY <1>7, <2>12, <2>13, <2>14, <2>18 DEF Flushing
    <2>20. r \notin S /\ r \in fs.sent /\ S \in SUBSET fs.sent
      BY <2>3
    <2> QED
      BY <1>3, <2>8, <2>9, <2>18, <2>19, <2>20
  <1> QED
    BY <1>8, <1>9

\* A reply is for a request that was sent, or for none.
LEMMA ReadStep ==
    ASSUME SpcFsysAssumption, TypeOK, Good(fs), spc_fd_read
    PROVE  /\ Good(fs')
           /\ LET rc == Head(replies)
                  match == {r \in fs.sent : fs.req[r].tag = rc.tag}
              IN  \/ match = {} /\ fs' = fs
                  \/ \E r \in match :
                        IF fs.req[r].old = NIL THEN Answered(fs, fs', r, rc.of)
                        ELSE Rflushed(fs, fs', r, fs.req[r].old)
  <1>1. PICK rc : rc = Head(replies)
    OBVIOUS
  <1>2. PICK match \in SUBSET fs.sent : match = {r \in fs.sent : fs.req[r].tag = rc.tag}
    OBVIOUS
  <1>3. rc.of \in Reqs
    <2>1. PICK T : T = [tag : 0..NTags - 1, of : Reqs]
      OBVIOUS
    <2>2. replies \in Seq(T) /\ replies # <<>>
      BY <2>1 DEF TypeOK, spc_fd_read
    <2>3. rc \in T
      BY <1>1, <2>2
    <2> QED
      BY <2>1, <2>3
  <1>4. fs' = IF match = {} THEN fs
              ELSE Done(cb([fs EXCEPT !.sent = @ \ {Max(match)}], Max(match), rc.of), Max(match))
    BY <1>1, <1>2 DEF spc_fd_read
  <1>5. CASE match = {}
    BY <1>1, <1>2, <1>4, <1>5
  <1>6. CASE match # {}
    <2>1. match \in SUBSET Reqs
      BY Fields DEF Good
    <2>2. PICK r \in match : r = Max(match)
      BY <1>6, <2>1, GreatestMember
    <2>3. PICK of \in Reqs : of = rc.of
      BY <1>3
    <2>4. PICK G : G = Done(cb([fs EXCEPT !.sent = @ \ {r}], r, of), r)
      OBVIOUS
    <2>5. fs' = G
      BY <1>4, <1>6, <2>2, <2>3, <2>4
    <2>6. r \in fs.sent
      OBVIOUS
    <2>7. CASE fs.req[r].old = NIL
      <3>1. Answered(fs, G, r, of)
        BY <2>4, <2>6, <2>7, Answers
      <3>2. Good(G)
        BY <2>6, <2>7, <3>1, GoodAnswered
      <3> QED
        BY <1>1, <1>2, <2>3, <2>5, <2>7, <3>1, <3>2
    <2>8. CASE fs.req[r].old # NIL
      <3>1. PICK o : o = fs.req[r].old
        OBVIOUS
      <3>2. Rflushed(fs, G, r, o)
        BY <2>4, <2>6, <2>8, <3>1, Rflushes
      <3>3. Good(G)
        BY <2>6, <2>8, <3>1, <3>2, GoodRflushed
      <3> QED
        BY <1>1, <1>2, <2>5, <2>8, <3>1, <3>2, <3>3
    <2> QED
      BY <2>7, <2>8
  <1> QED
    BY <1>5, <1>6

LEMMA WriteStep ==
    ASSUME SpcFsysAssumption, Good(fs), spc_notify_write
    PROVE  Good(fs') /\ Moved(fs, fs')
  <1>1. PICK F : F = [fs EXCEPT !.writable = TRUE]
    OBVIOUS
  <1>2. fs \in Spcfsys /\ fs.pend \cap fs.sent = {} /\ fs' \in spc_fd_write(F)
    BY <1>1 DEF Good, ListInv, spc_notify_write
  <1>3. /\ F \in Spcfsys /\ F.spfd = fs.spfd /\ F.n = fs.n /\ F.req = fs.req /\ F.tags = fs.tags
        /\ F.pend = fs.pend /\ F.sent = fs.sent
    BY <1>1, <1>2 DEF Spcfsys
  <1>4. Moved(F, fs')
    BY <1>2, <1>3, Writes
  <1>5. Moved(fs, fs')
    BY <1>3, <1>4 DEF Moved, ListedIn
  <1> QED
    BY <1>5, GoodMoved

-----------------------------------------------------------------------------
(* What is called back and freed.                                          *)

Inv == TypeOK /\ Good(fs)

LEMMA GoodInit ==
    ASSUME SpcFsysAssumption, Init
    PROVE  Inv
  <1>1. PICK x \in Spcreq : x = [fid |-> NIL, old |-> NIL, tag |-> 0, flushed |-> FALSE,
                                 calls |-> 0, freed |-> 0, rc |-> NIL]
    <2>1. 0 \in 0..NTags - 1 /\ 0 \in 0..2
      BY DEF SpcFsysAssumption
    <2> QED
      BY <2>1 DEF Spcreq
  <1>2. PICK req \in [Reqs -> Spcreq] : req = [r \in Reqs |-> x]
    OBVIOUS
  <1>3. fs = [spfd |-> TRUE, writable |-> FALSE, half |-> FALSE, n |-> 0, req |-> req,
              pend |-> {}, sent |-> {}, tags |-> {}]
    BY <1>1, <1>2 DEF Init
  <1>4. 0 \in 0..MaxReqs
    BY Names
  <1>5. fs \in Spcfsys /\ fs.n = 0 /\ fs.pend = {} /\ fs.sent = {}
    BY <1>3, <1>4 DEF Spcfsys
  <1>6. MadeIn(fs) = {} /\ ListedIn(fs) = {}
    BY <1>5 DEF MadeIn, ListedIn
  <1>7. Good(fs)
    BY <1>5, <1>6 DEF Good, ListInv, FlushInv, FlushedInv, CountInv, SilentInv
  <1> QED
    BY <1>5, <1>7 DEF Inv, TypeOK, Init

LEMMA GoodNext ==
    ASSUME SpcFsysAssumption, Inv, [Next]_vars
    PROVE  Inv'
  <1>1. TypeOK /\ Good(fs)
    BY DEF Inv
  <1>2. ASSUME Good(fs'), Arrived, UNCHANGED replies
        PROVE  Inv'
    <2>1. fs' \in Spcfsys
      BY <1>2 DEF Good
    <2>2. fs'.sent \in SUBSET Reqs
      BY <2>1, Fields
    <2>3. srvreqs' \in SUBSET Reqs
      BY <1>1, <1>2, <2>2 DEF TypeOK, Arrived
    <2> QED
      BY <1>1, <1>2, <2>1, <2>3 DEF Inv, TypeOK
  <1>3. CASE \E fid \in Fids : spc_rpcnb(fid)
    <2>1. PICK fid \in Fids : spc_rpcnb(fid)
      BY <1>3
    <2>2. Good(fs')
      BY <1>1, <2>1, RpcnbStep
    <2> QED
      BY <1>2, <2>1, <2>2 DEF spc_rpcnb
  <1>4. CASE \E fid \in Fids : spc_flush_requests(fid)
    <2>1. PICK fid \in Fids : spc_flush_requests(fid)
      BY <1>4
    <2>2. Good(fs')
      BY <1>1, <2>1, FlushStep
    <2>3. Arrived /\ UNCHANGED replies
      BY <2>1 DEF spc_flush_requests
    <2> QED
      BY <1>2, <2>2, <2>3
  <1>5. CASE spc_fd_read
    <2>1. Good(fs')
      BY <1>1, <1>5, ReadStep
    <2>2. fs' \in Spcfsys
      BY <2>1 DEF Good
    <2>3. PICK T : T = [tag : 0..NTags - 1, of : Reqs]
      OBVIOUS
    <2>4. replies \in Seq(T) /\ replies # <<>> /\ replies' = Tail(replies) /\ srvreqs' = srvreqs
      BY <1>1, <1>5, <2>3 DEF TypeOK, spc_fd_read
    <2>5. replies' \in Seq(T)
      BY <2>4
    <2> QED
      BY <1>1, <2>1, <2>2, <2>3, <2>4, <2>5 DEF Inv, TypeOK
  <1>6. CASE spc_notify_write
    <2>1. Good(fs')
      BY <1>1, <1>6, WriteStep
    <2>2. Arrived /\ UNCHANGED replies
      BY <1>6 DEF spc_notify_write
    <2> QED
      BY <1>2, <2>1, <2>2
  <1>7. CASE spc_disconnect_fsys
    <2>1. PICK G : G = fs'
      OBVIOUS
    <2>2. Disconnected(fs, G)
      BY <1>1, <1>7, <2>1, Disconnects
    <2>3. Good(G)
      BY <1>1, <2>2, GoodDisconnected
    <2>4. srvreqs' = {} /\ replies' = <<>>
      BY <1>7 DEF spc_disconnect_fsys
    <2>5. G \in Spcfsys
      BY <2>3 DEF Good
    <2> QED
      BY <2>1, <2>3, <2>4, <2>5 DEF Inv, TypeOK
  <1>8. CASE \E r \in Reqs : Reply(r)
    <2>1. PICK r \in Reqs : Reply(r)
      BY <1>8
    <2>2. srvreqs' \in SUBSET Reqs /\ fs' = fs
      BY <1>1, <2>1 DEF Reply, TypeOK
    <2>3. PICK T : T = [tag : 0..NTags - 1, of : Reqs]
      OBVIOUS
    <2>4. fs.req[r].tag \in 0..NTags - 1
      BY <1>1, Fields, ReqFields DEF Good
    <2>5. PICK e \in T : e = [tag |-> fs.req[r].tag, of |-> r]
      BY <2>3, <2>4
    <2>6. replies \in Seq(T) /\ replies' = Append(replies, e)
      BY <1>1, <2>1, <2>3, <2>5 DEF TypeOK, Reply
    <2>7. replies' \in Seq(T)
      BY <2>6
    <2> QED
      BY <1>1, <2>2, <2>3, <2>7 DEF Inv, TypeOK
  <1>9. CASE UNCHANGED vars
    BY <1>1, <1>9 DEF vars, Inv, TypeOK
  <1> QED
    BY <1>3, <1>4, <1>5, <1>6, <1>7, <1>8, <1>9 DEF Next

LEMMA GoodCompletes ==
    ASSUME SpcFsysAssumption, Inv
    PROVE  CompletedOnce
  BY DEF Inv, Good, CountInv, FlushIn, MadeIn, ListedIn, CompletedOnce, Made, Listed, IsFlush

LEMMA Invariant == Spec => []Inv
  <1>1. Init => Inv
    BY SpcFsysAssumption, GoodInit
  <1>2. Inv /\ [Next]_vars => Inv'
    BY SpcFsysAssumption, GoodNext
  <1> QED
    BY <1>1, <1>2, PTL DEF Spec

\* However replies, Rflushes, flushes of requests that were not sent and the loss of the
\* connection follow one another (spc_fd_read, spc_flush_requests, spc_disconnect_fsys),
\* the callback of each request is called once and the request is freed once.
THEOREM SpcFsysCompletedOnce == Spec => []CompletedOnce
  <1>1. Inv => CompletedOnce
    BY SpcFsysAssumption, GoodCompletes
  <1> QED
    BY <1>1, Invariant, PTL

-----------------------------------------------------------------------------
(* Whose reply the program gets.                                           *)

\* The requests that are not freed: those in the lists, and those a Tflush is for.
Live(F) == {r \in MadeIn(F) : F.req[r].freed = 0}

\* Each has a tag of its own, which is taken from the pool.
TagInv(F) ==
    \A r \in Live(F) :
        /\ F.req[r].tag \in F.tags
        /\ \A q \in Live(F) : F.req[q].tag = F.req[r].tag => q = r

RcInv(F) == \A r \in MadeIn(F) : F.req[r].rc \in {r, NIL}

Own(F) == TagInv(F) /\ RcInv(F)

\* The server has requests that were sent, and answers one once; after an Rflush it does
\* not answer the request that was flushed.
ServerInv(F, reqs, rcs) ==
    /\ reqs \subseteq F.sent
    /\ \A k \in 1..Len(rcs) :
          /\ rcs[k].of \in F.sent /\ rcs[k].tag = F.req[rcs[k].of].tag
          /\ rcs[k].of \notin reqs /\ F.req[rcs[k].of].old \notin reqs
    /\ \A k, l \in 1..Len(rcs) :
          k < l => rcs[l].of # rcs[k].of /\ rcs[l].of # F.req[rcs[k].of].old

OwnInv == Own(fs) /\ ServerInv(fs, srvreqs, replies)

\* The pool is not found empty: there are as many free tags as requests are made.
TagsLast == fs.spfd => fs'.n - fs.n <= Cardinality((0..NTags - 1) \ fs.tags)

LEMMA MadeReqs ==
    ASSUME SpcFsysAssumption, NEW F \in Spcfsys
    PROVE  MadeIn(F) \subseteq Reqs /\ F.n \in Nat
  BY Fields, Names DEF MadeIn

LEMMA LiveListed ==
    ASSUME SpcFsysAssumption, NEW F, Good(F)
    PROVE  /\ ListedIn(F) \subseteq Live(F) /\ ListedIn(F) \subseteq MadeIn(F)
           /\ \A f \in ListedIn(F) : F.req[f].old # NIL => F.req[f].old \in Live(F)
           /\ ~F.spfd => Live(F) = {}
  <1>1. ListInv(F) /\ FlushInv(F) /\ CountInv(F)
    BY DEF Good
  <1>2. ListedIn(F) \subseteq MadeIn(F)
    BY <1>1 DEF ListInv, ListedIn
  <1>3. \A r \in MadeIn(F) :
            r \in Live(F) <=> r \in ListedIn(F) \/ \E f \in ListedIn(F) : F.req[f].old = r
    BY <1>1 DEF CountInv, Live
  <1>4. \A f \in ListedIn(F) : F.req[f].old # NIL => F.req[f].old \in MadeIn(F)
    BY <1>1, <1>2 DEF FlushInv, FlushIn
  <1>5. ~F.spfd => ListedIn(F) = {}
    BY <1>1 DEF ListInv
  <1> QED
    BY <1>2, <1>3, <1>4, <1>5 DEF Live

\* Requests are freed, and the tags of others are kept.
LEMMA OwnLeft ==
    ASSUME NEW F, NEW G, Own(F), G.n = F.n,
           \A r \in Live(G) : /\ r \in Live(F) /\ G.req[r].tag = F.req[r].tag
                              /\ F.req[r].tag \in G.tags,
           \A r \in MadeIn(F) : G.req[r].rc \in {F.req[r].rc, r, NIL}
    PROVE  Own(G)
  <1>1. MadeIn(G) = MadeIn(F)
    BY DEF MadeIn
  <1>2. TagInv(G)
    BY DEF Own, TagInv
  <1>3. RcInv(G)
    BY <1>1 DEF Own, RcInv
  <1> QED
    BY <1>2, <1>3 DEF Own

LEMMA OwnMoved ==
    ASSUME NEW F, NEW G, Own(F), Moved(F, G)
    PROVE  Own(G)
  BY DEF Moved, Own, TagInv, RcInv, Live, MadeIn

LEMMA OwnDropped ==
    ASSUME SpcFsysAssumption, NEW F, Good(F), Own(F), NEW S \in SUBSET F.pend, NEW G,
           Dropped(F, G, S)
    PROVE  Own(G)
  <1>1. MadeIn(F) \subseteq Reqs
    BY MadeReqs DEF Good
  <1>2. /\ G.n = F.n /\ G.tags = F.tags
        /\ \A r \in Reqs : r \notin S => G.req[r] = F.req[r]
        /\ \A r \in S : G.req[r].freed = 1 /\ G.req[r].rc = NIL
    BY DEF Dropped
  <1>3. \A r \in Live(G) : /\ r \in Live(F) /\ G.req[r].tag = F.req[r].tag
                           /\ F.req[r].tag \in G.tags
    BY <1>1, <1>2 DEF Live, MadeIn, Own, TagInv
  <1>4. \A r \in MadeIn(F) : G.req[r].rc \in {F.req[r].rc, r, NIL}
    BY <1>1, <1>2
  <1> QED
    BY <1>2, <1>3, <1>4, OwnLeft

LEMMA OwnAnswered ==
    ASSUME SpcFsysAssumption, NEW F, Good(F), Own(F), NEW r \in F.sent, NEW G,
           Answered(F, G, r, r)
    PROVE  Own(G)
  <1>1. MadeIn(F) \subseteq Reqs /\ r \in Live(F)
    BY MadeReqs, LiveListed DEF Good, ListedIn
  <1>2. /\ G.n = F.n
        /\ G.tags = F.tags \ (IF F.req[r].flushed THEN {} ELSE {F.req[r].tag})
        /\ \A q \in Reqs : q # r => G.req[q] = F.req[q]
        /\ G.req[r].tag = F.req[r].tag /\ G.req[r].rc = r
        /\ G.req[r].freed = IF F.req[r].flushed THEN 0 ELSE 1
    BY DEF Answered, SameReq
  <1>3. \A q \in Live(G) : /\ q \in Live(F) /\ G.req[q].tag = F.req[q].tag
                           /\ F.req[q].tag \in G.tags
    <2> TAKE q \in Live(G)
    <2>1. q \in MadeIn(F) /\ G.req[q].freed = 0
      BY <1>2 DEF Live, MadeIn
    <2>2. q \in Live(F) /\ G.req[q].tag = F.req[q].tag
      BY <1>1, <1>2, <2>1 DEF Live
    <2>3. F.req[q].tag \in F.tags /\ (F.req[q].tag = F.req[r].tag => q = r)
      BY <1>1, <2>2 DEF Own, TagInv
    <2>4. q = r => F.req[r].flushed
      BY <1>2, <2>1
    <2> QED
      BY <1>2, <2>2, <2>3, <2>4
  <1>4. \A q \in MadeIn(F) : G.req[q].rc \in {F.req[q].rc, q, NIL}
    BY <1>1, <1>2
  <1> QED
    BY <1>2, <1>3, <1>4, OwnLeft

LEMMA OwnRflushed ==
    ASSUME SpcFsysAssumption, NEW F, Good(F), Own(F), NEW r \in F.sent, NEW o, F.req[r].old = o,
           o # NIL, NEW G, Rflushed(F, G, r, o)
    PROVE  Own(G)
  <1>1. MadeIn(F) \subseteq Reqs /\ r \in Live(F) /\ o \in Live(F)
    BY MadeReqs, LiveListed DEF Good, ListedIn
  <1>2. /\ G.n = F.n /\ G.tags = F.tags \ {F.req[r].tag, F.req[o].tag}
        /\ \A q \in Reqs : q \notin {r, o} => G.req[q] = F.req[q]
        /\ G.req[r].rc = F.req[r].rc /\ G.req[o].rc \in {F.req[o].rc, NIL}
        /\ G.req[r].freed = 1 /\ G.req[o].freed = 1
    BY DEF Rflushed, SameReq
  <1>3. \A q \in Live(G) : /\ q \in Live(F) /\ G.req[q].tag = F.req[q].tag
                           /\ F.req[q].tag \in G.tags
    <2> TAKE q \in Live(G)
    <2>1. q \in MadeIn(F) /\ G.req[q].freed = 0
      BY <1>2 DEF Live, MadeIn
    <2>2. q \notin {r, o}
      BY <1>2, <2>1
    <2>3. q \in Live(F) /\ G.req[q].tag = F.req[q].tag
      BY <1>1, <1>2, <2>1, <2>2 DEF Live
    <2>4. /\ F.req[q].tag \in F.tags
          /\ F.req[q].tag # F.req[r].tag /\ F.req[q].tag # F.req[o].tag
      BY <1>1, <2>2, <2>3 DEF Own, TagInv
    <2> QED
      BY <1>2, <2>3, <2>4
  <1>4. \A q \in MadeIn(F) : G.req[q].rc \in {F.req[q].rc, q, NIL}
    BY <1>1, <1>2
  <1> QED
    BY <1>2, <1>3, <1>4, OwnLeft

LEMMA OwnDisconnected ==
    ASSUME NEW F, Own(F), NEW G, Disconnected(F, G)
    PROVE  Own(G)
  <1>1. /\ G.n = F.n /\ \A r \in MadeIn(F) : G.req[r].freed = 1 /\ G.req[r].rc \in {F.req[r].rc, NIL}
    BY DEF Disconnected, LostReq
  <1>2. Live(G) = {}
    BY <1>1 DEF Live, MadeIn
  <1> QED
    BY <1>1, <1>2, OwnLeft

LEMMA OwnRefused ==
    ASSUME SpcFsysAssumption, NEW F, Good(F), Own(F), ~F.spfd, NEW fid, NEW G,
           Refused(F, G, fid)
    PROVE  Own(G)
  <1>1. MadeIn(F) \subseteq Reqs /\ F.n \in Nat
    BY MadeReqs DEF Good
  <1>2. Live(F) = {}
    BY LiveListed
  <1>3. PICK n \in Nat : n = F.n
    BY <1>1
  <1>4. /\ MadeIn(F) = 1..n /\ MadeIn(G) = 1..n \cup {n + 1} /\ n + 1 \notin 1..n
        /\ G.req[n + 1].freed = 1 /\ G.req[n + 1].rc = NIL
        /\ \A r \in 1..n : G.req[r] = F.req[r]
    BY <1>1, <1>3 DEF Refused, Refusal, MadeIn
  <1>5. Live(G) = {}
    BY <1>2, <1>4 DEF Live
  <1>6. RcInv(G)
    BY <1>4 DEF RcInv, Own
  <1> QED
    BY <1>5, <1>6 DEF Own, TagInv

\* New requests with the next tags.
Tagged(F, G, k) ==
    /\ G.n = F.n + k
    /\ G.tags = F.tags \cup {spc_get_id(F.tags, i) : i \in 1..k}
    /\ \A r \in MadeIn(F) : /\ G.req[r].tag = F.req[r].tag /\ G.req[r].freed = F.req[r].freed
                            /\ G.req[r].rc = F.req[r].rc
    /\ \A i \in 1..k : G.req[F.n + i].tag = spc_get_id(F.tags, i) /\ G.req[F.n + i].rc = NIL

LEMMA OwnTagged ==
    ASSUME SpcFsysAssumption, NEW F \in Spcfsys, Own(F), NEW k \in Nat, NEW G, Tagged(F, G, k),
           k <= Cardinality((0..NTags - 1) \ F.tags)
    PROVE  Own(G)
  <1>1. F.tags \in SUBSET (0..NTags - 1)
    BY Fields
  <1>2. PICK c \in Nat : c = Cardinality((0..NTags - 1) \ F.tags)
    BY <1>1, Tags
  <1>3. /\ \A i \in 1..k : spc_get_id(F.tags, i) \notin F.tags
        /\ \A i, j \in 1..k : spc_get_id(F.tags, i) = spc_get_id(F.tags, j) => i = j
    <2>1. 1..k \subseteq 1..c
      BY <1>2
    <2> QED
      BY <1>1, <1>2, <2>1, Tags
  <1>4. PICK n \in Nat : n = F.n
    BY MadeReqs
  <1>5. /\ MadeIn(F) = 1..n /\ MadeIn(G) = 1..n + k
        /\ \A r \in 1..n + k : r \in 1..n \/ \E i \in 1..k : r = n + i
    <2>1. ASSUME NEW r \in 1..n + k, r \notin 1..n
          PROVE  \E i \in 1..k : r = n + i
      <3>1. r - n \in 1..k /\ r = n + (r - n)
        BY <2>1
      <3> QED
        BY <3>1
    <2> QED
      BY <1>4, <2>1 DEF MadeIn, Tagged
  <1>6. ASSUME NEW r \in Live(G)
        PROVE  /\ G.req[r].tag \in G.tags
               /\ \/ r \in Live(F) /\ G.req[r].tag = F.req[r].tag /\ G.req[r].tag \in F.tags
                  \/ \E i \in 1..k : r = n + i /\ G.req[r].tag = spc_get_id(F.tags, i)
    <2>1. r \in 1..n + k /\ G.req[r].freed = 0
      BY <1>5 DEF Live
    <2>2. CASE r \in 1..n
      BY <1>5, <2>1, <2>2 DEF Live, Tagged, Own, TagInv
    <2>3. CASE \E i \in 1..k : r = n + i
      BY <1>4, <2>3 DEF Tagged
    <2> QED
      BY <1>5, <2>1, <2>2, <2>3
  <1>7. ASSUME NEW r \in Live(G), NEW q \in Live(G), G.req[q].tag = G.req[r].tag
        PROVE  q = r
    <2>1. CASE r \in Live(F) /\ G.req[r].tag = F.req[r].tag /\ G.req[r].tag \in F.tags
      <3>1. ~\E i \in 1..k : q = n + i /\ G.req[q].tag = spc_get_id(F.tags, i)
        BY <1>3, <1>7, <2>1
      <3>2. q \in Live(F) /\ G.req[q].tag = F.req[q].tag
        BY <1>6, <3>1
      <3> QED
        BY <1>7, <2>1, <3>2 DEF Own, TagInv
    <2>2. CASE \E i \in 1..k : r = n + i /\ G.req[r].tag = spc_get_id(F.tags, i)
      <3>1. PICK i \in 1..k : r = n + i /\ G.req[r].tag = spc_get_id(F.tags, i)
        BY <2>2
      <3>2. G.req[q].tag \notin F.tags
        BY <1>3, <1>7, <3>1
      <3>3. PICK j \in 1..k : q = n + j /\ G.req[q].tag = spc_get_id(F.tags, j)
        BY <1>6, <3>2
      <3>4. i = j
        BY <1>3, <1>7, <3>1, <3>3
      <3> QED
        BY <3>1, <3>3, <3>4
    <2> QED
      BY <1>6, <2>1, <2>2
  <1>8. RcInv(G)
    <2> SUFFICES ASSUME NEW r \in MadeIn(G)
                 PROVE  G.req[r].rc \in {r, NIL}
      BY DEF RcInv
    <2>1. CASE r \in 1..n
      BY <1>5, <2>1 DEF Tagged, Own, RcInv
    <2>2. CASE \E i \in 1..k : r = n + i
      BY <1>4, <2>2 DEF Tagged
    <2> QED
      BY <1>5, <2>1, <2>2
  <1> QED
    BY <1>6, <1>7, <1>8 DEF Own, TagInv

LEMMA ExtendedTagged ==
    ASSUME SpcFsysAssumption, NEW F \in Spcfsys, NEW fid, NEW k \in Nat, NEW olds, NEW G,
           Extended(F, G, fid, k, olds)
    PROVE  Tagged(F, G, k)
  <1>1. \A r \in MadeIn(F) : r \in Reqs /\ r \notin F.n + 1..F.n + k
    BY MadeReqs DEF MadeIn
  <1>2. \A i \in 1..k : G.req[F.n + i].tag = spc_get_id(F.tags, i) /\ G.req[F.n + i].rc = NIL
    <2> TAKE i \in 1..k
    <2>1. PICK o, t : o = olds[i] /\ t = spc_get_id(F.tags, i)
      OBVIOUS
    <2>2. PICK x : x = G.req[F.n + i]
      OBVIOUS
    <2>3. x = [fid |-> fid, old |-> o, tag |-> t, flushed |-> FALSE, calls |-> 0, freed |-> 0,
               rc |-> NIL]
      BY <2>1, <2>2 DEF Extended
    <2>4. x.tag = t /\ x.rc = NIL
      BY <2>3
    <2> QED
      BY <2>1, <2>2, <2>4
  <1> QED
    BY <1>1, <1>2 DEF Extended, Tagged

\* A Tflush leaves the other requests what they were.
LEMMA TflushesTagged ==
    ASSUME SpcFsysAssumption, NEW F \in Spcfsys, NEW S, NEW G, Cardinality(S) \in Nat,
           TflushesOf(F, G, S)
    PROVE  /\ Tagged(F, G, Cardinality(S))
           /\ \A r \in MadeIn(F) : G.req[r].old = F.req[r].old
  <1>1. PICK k \in Nat, n \in Nat : k = Cardinality(S) /\ n = F.n
    BY MadeReqs
  <1>2. \A r \in MadeIn(F) : /\ G.req[r].tag = F.req[r].tag /\ G.req[r].freed = F.req[r].freed
                             /\ G.req[r].rc = F.req[r].rc /\ G.req[r].old = F.req[r].old
    <2> TAKE r \in MadeIn(F)
    <2>1. PICK x \in Spcreq : x = F.req[r]
      BY MadeReqs, Fields
    <2>2. G.req[r] = IF r \in S THEN [x EXCEPT !.flushed = TRUE] ELSE x
      BY <2>1 DEF TflushesOf, MadeIn
    <2>3. PICK y : y = [x EXCEPT !.flushed = TRUE]
      OBVIOUS
    <2>4. y.tag = x.tag /\ y.freed = x.freed /\ y.rc = x.rc /\ y.old = x.old
      BY <2>3 DEF Spcreq
    <2> QED
      BY <2>1, <2>2, <2>3, <2>4
  <1>3. \A i \in 1..k : n + i \in n + 1..G.n /\ (n + i) - n = i
    BY <1>1 DEF TflushesOf
  <1>4. \A i \in 1..k : G.req[n + i].tag = spc_get_id(F.tags, i) /\ G.req[n + i].rc = NIL
    BY <1>1, <1>3 DEF TflushesOf
  <1> QED
    BY <1>1, <1>2, <1>4 DEF TflushesOf, Tagged

\* What the server and the replies on their way depend on is kept.
Kept(F, G) ==
    /\ MadeIn(F) \subseteq MadeIn(G) /\ F.sent \subseteq G.sent
    /\ \A r \in MadeIn(F) : r \in ListedIn(G) => r \in ListedIn(F)
    /\ \A r \in MadeIn(F) : G.req[r].old = F.req[r].old
    /\ \A r \in F.sent : G.req[r].tag = F.req[r].tag

LEMMA KeptAgain ==
    ASSUME NEW F, NEW G, NEW H, Kept(F, G), Kept(G, H)
    PROVE  Kept(F, H)
  <1>1. MadeIn(F) \subseteq MadeIn(G) /\ MadeIn(G) \subseteq MadeIn(H)
        /\ F.sent \subseteq G.sent /\ G.sent \subseteq H.sent
    BY DEF Kept
  <1> QED
    BY <1>1 DEF Kept

LEMMA KeptMoved ==
    ASSUME NEW F, NEW G, Moved(F, G)
    PROVE  Kept(F, G)
  BY DEF Moved, Kept, MadeIn

LEMMA KeptDropped ==
    ASSUME SpcFsysAssumption, NEW F, Good(F), NEW S \in SUBSET F.pend, NEW G, Dropped(F, G, S)
    PROVE  Kept(F, G)
  <1>1. MadeIn(F) \subseteq Reqs /\ F.sent \subseteq MadeIn(F) /\ S \cap F.sent = {}
    BY MadeReqs DEF Good, ListInv
  <1> QED
    BY <1>1 DEF Dropped, Kept, MadeIn, ListedIn

LEMMA KeptExtended ==
    ASSUME SpcFsysAssumption, NEW F, Good(F), NEW fid, NEW k \in Nat, NEW olds, NEW G,
           Extended(F, G, fid, k, olds)
    PROVE  Kept(F, G)
  <1>1. /\ MadeIn(F) \subseteq Reqs /\ F.n \in Nat /\ F.sent \subseteq MadeIn(F)
    BY MadeReqs DEF Good, ListInv
  <1>2. \A r \in MadeIn(F) : r \in MadeIn(G) /\ r \notin F.n + 1..F.n + k
    BY <1>1 DEF Extended, MadeIn
  <1> QED
    BY <1>1, <1>2 DEF Extended, Kept, ListedIn

LEMMA KeptTflushes ==
    ASSUME SpcFsysAssumption, NEW F, Good(F), NEW S, NEW G, Cardinality(S) \in Nat,
           TflushesOf(F, G, S)
    PROVE  Kept(F, G)
  <1>1. /\ F \in Spcfsys /\ F.n \in Nat /\ F.sent \subseteq MadeIn(F)
    BY MadeReqs DEF Good, ListInv
  <1>2. /\ Tagged(F, G, Cardinality(S))
        /\ \A r \in MadeIn(F) : G.req[r].old = F.req[r].old
    BY <1>1, TflushesTagged
  <1>3. /\ G.pend = F.pend \cup F.n + 1..G.n /\ G.sent = F.sent
        /\ G.n = F.n + Cardinality(S)
    BY DEF TflushesOf
  <1>4. \A r \in MadeIn(F) : r \in MadeIn(G) /\ r \notin F.n + 1..G.n
    BY <1>1, <1>3 DEF MadeIn
  <1> QED
    BY <1>1, <1>2, <1>3, <1>4 DEF Tagged, Kept, ListedIn

LEMMA KeptRefused ==
    ASSUME SpcFsysAssumption, NEW F, Good(F), NEW fid, NEW G, Refused(F, G, fid)
    PROVE  Kept(F, G)
  <1>1. MadeIn(F) \subseteq Reqs /\ F.n \in Nat /\ F.sent \subseteq MadeIn(F)
    BY MadeReqs DEF Good, ListInv
  <1>2. \A r \in MadeIn(F) : r \in MadeIn(G) /\ r # F.n + 1
    BY <1>1 DEF Refused, MadeIn
  <1> QED
    BY <1>1, <1>2 DEF Refused, Kept, ListedIn

\* The server gets requests that were still to be sent, or new ones.
LEMMA ServerKept ==
    ASSUME SpcFsysAssumption, Inv, ServerInv(fs, srvreqs, replies), Kept(fs, fs'), Good(fs'),
           Arrived, UNCHANGED replies
    PROVE  ServerInv(fs', srvreqs', replies')
  <1>1. PICK G, new : G = fs' /\ new = G.sent \ fs.sent
    OBVIOUS
  <1>2. srvreqs' = srvreqs \cup new
    BY <1>1 DEF Arrived
  <1>3. fs \in Spcfsys /\ ListInv(fs) /\ FlushInv(fs) /\ FlushedInv(fs) /\ fs.sent \subseteq MadeIn(fs)
    BY DEF Inv, Good, ListInv
  <1>4. Kept(fs, G)
    BY <1>1
  <1>5. srvreqs \cup new \subseteq G.sent
    BY <1>1, <1>4 DEF Kept, ServerInv
  <1>6. \A r \in fs.sent : /\ r \in G.sent /\ r \notin new
                           /\ G.req[r].tag = fs.req[r].tag /\ G.req[r].old = fs.req[r].old
    BY <1>1, <1>3, <1>4 DEF Kept
  \* What a Tflush is for is not still to be sent.
  <1>7. ASSUME NEW r \in fs.sent, fs.req[r].old \in new
        PROVE  FALSE
    <2>1. PICK o : o = fs.req[r].old
      OBVIOUS
    <2>2. NIL \notin G.sent
      <3>1. G.sent \subseteq Reqs
        BY <1>1, Fields DEF Good
      <3> QED
        BY <3>1, Names
    <2>3. FlushIn(fs, r)
      BY <1>1, <1>7, <2>2 DEF FlushIn
    <2>4. o \in MadeIn(fs) /\ fs.req[o].flushed
      BY <1>3, <2>1, <2>3 DEF FlushInv
    <2>5. o \in ListedIn(fs)
      BY <1>1, <1>4, <1>7, <2>1, <2>4 DEF Kept, ListedIn
    <2>6. o \in fs.sent
      BY <1>3, <2>4, <2>5 DEF FlushedInv
    <2> QED
      BY <1>1, <1>7, <2>1, <2>6
  <1> QED
    BY <1>1, <1>2, <1>5, <1>6, <1>7 DEF ServerInv

\* The reply at the head is for the request that is taken for it.
LEMMA OwnRead ==
    ASSUME SpcFsysAssumption, Inv, OwnInv, spc_fd_read
    PROVE  OwnInv'
  <1>1. PICK T : T = [tag : 0..NTags - 1, of : Reqs]
    OBVIOUS
  <1>2. /\ replies \in Seq(T) /\ replies # <<>> /\ replies' = Tail(replies) /\ srvreqs' = srvreqs
    BY <1>1 DEF Inv, TypeOK, spc_fd_read
  <1>3. PICK N \in Nat : N = Len(replies) /\ N > 0
    BY <1>2
  <1>4. PICK rc : rc = Head(replies) /\ rc = replies[1]
    BY <1>2
  <1>5. /\ replies' \in Seq(T) /\ Len(replies') = N - 1
        /\ \A k \in 1..N - 1 : replies'[k] = replies[k + 1]
    BY <1>2, <1>3
  <1>6. /\ srvreqs \subseteq fs.sent
        /\ \A k \in 1..N :
              /\ replies[k].of \in fs.sent /\ replies[k].tag = fs.req[replies[k].of].tag
              /\ replies[k].of \notin srvreqs /\ fs.req[replies[k].of].old \notin srvreqs
        /\ \A k, l \in 1..N :
              k < l => /\ replies[l].of # replies[k].of
                       /\ replies[l].of # fs.req[replies[k].of].old
    BY <1>3 DEF OwnInv, ServerInv
  <1>7. PICK r : r = rc.of
    OBVIOUS
  <1>8. /\ r \in fs.sent /\ rc.tag = fs.req[r].tag /\ r \notin srvreqs
        /\ fs.req[r].old \notin srvreqs
        /\ \A l \in 2..N : replies[l].of # r /\ replies[l].of # fs.req[r].old
    <2>1. 1 \in 1..N /\ \A l \in 2..N : l \in 1..N /\ 1 < l
      BY <1>3
    <2> QED
      BY <1>4, <1>6, <1>7, <2>1
  <1>9. Good(fs) /\ fs \in Spcfsys /\ Own(fs) /\ TagInv(fs)
    BY DEF Inv, Good, OwnInv, Own
  <1>10. PICK match : match = {q \in fs.sent : fs.req[q].tag = rc.tag}
    OBVIOUS
  <1>11. match = {r}
    <2>1. fs.sent \subseteq Live(fs)
      BY <1>9, LiveListed DEF ListedIn
    <2> QED
      BY <1>8, <1>9, <1>10, <2>1 DEF TagInv
  <1>12. PICK G : G = fs'
    OBVIOUS
  <1>13. IF fs.req[r].old = NIL THEN Answered(fs, G, r, r)
         ELSE Rflushed(fs, G, r, fs.req[r].old)
    <2>1. TypeOK
      BY DEF Inv
    <2>2. \/ match = {} /\ fs' = fs
          \/ \E q \in match : IF fs.req[q].old = NIL THEN Answered(fs, fs', q, rc.of)
                              ELSE Rflushed(fs, fs', q, fs.req[q].old)
      BY <1>4, <1>9, <1>10, <2>1, ReadStep
    <2> QED
      BY <1>7, <1>11, <1>12, <2>2
  \* The others on their way are for other requests, which stay in the list.
  <1>14. ASSUME NEW gone, srvreqs \cap gone = {}, \A l \in 2..N : replies[l].of \notin gone,
                G.sent = fs.sent \ gone,
                \A q \in G.sent : G.req[q] = fs.req[q]
         PROVE  ServerInv(G, srvreqs', replies')
    <2>1. srvreqs' \subseteq G.sent
      BY <1>2, <1>6, <1>14
    <2>2. \A k \in 1..N - 1 : k + 1 \in 1..N /\ k + 1 \in 2..N
      BY <1>3
    <2>3. ASSUME NEW k \in 1..N - 1
          PROVE  LET e == replies'[k]
                 IN  /\ e.of \in G.sent /\ e.tag = G.req[e.of].tag
                     /\ e.of \notin srvreqs /\ G.req[e.of].old \notin srvreqs
                     /\ G.req[e.of].old = fs.req[e.of].old
      <3>1. PICK e : e = replies'[k] /\ e = replies[k + 1]
        BY <1>5
      <3>2. /\ e.of \in fs.sent /\ e.tag = fs.req[e.of].tag
            /\ e.of \notin srvreqs /\ fs.req[e.of].old \notin srvreqs /\ e.of \notin gone
        BY <1>6, <1>14, <2>2, <3>1
      <3> QED
        BY <1>14, <3>1, <3>2
    <2>4. ASSUME NEW k \in 1..N - 1, NEW l \in 1..N - 1, k < l
          PROVE  /\ replies'[l].of # replies'[k].of
                 /\ replies'[l].of # fs.req[replies'[k].of].old
      <3>1. PICK i \in 1..N, j \in 1..N : i = k + 1 /\ j = l + 1 /\ i < j
        BY <1>3, <2>4
      <3>2. replies'[k] = replies[i] /\ replies'[l] = replies[j]
        BY <1>5, <3>1
      <3>3. replies[j].of # replies[i].of /\ replies[j].of # fs.req[replies[i].of].old
        BY <1>6, <3>1
      <3> QED
        BY <3>2, <3>3
    <2> QED
      BY <1>2, <1>5, <2>1, <2>3, <2>4 DEF ServerInv
  <1>15. fs.sent \subseteq Reqs
    BY <1>9, Fields
  <1>16. CASE fs.req[r].old = NIL
    <2>1. Answered(fs, G, r, r)
      BY <1>13, <1>16
    <2>2. Own(G)
      BY <1>8, <1>9, <2>1, OwnAnswered
    <2>3. G.sent = fs.sent \ {r} /\ \A q \in G.sent : G.req[q] = fs.req[q]
      BY <1>15, <2>1 DEF Answered
    <2>4. ServerInv(G, srvreqs', replies')
      BY <1>8, <1>14, <2>3
    <2> QED
      BY <1>12, <2>2, <2>4 DEF OwnInv
  <1>17. CASE fs.req[r].old # NIL
    <2>1. PICK o : o = fs.req[r].old
      OBVIOUS
    <2>2. Rflushed(fs, G, r, o)
      BY <1>13, <1>17, <2>1
    <2>3. Own(G)
      BY <1>8, <1>9, <1>17, <2>1, <2>2, OwnRflushed
    <2>4. G.sent = fs.sent \ {r, o} /\ \A q \in G.sent : G.req[q] = fs.req[q]
      BY <1>15, <2>2 DEF Rflushed
    <2>5. srvreqs \cap {r, o} = {} /\ \A l \in 2..N : replies[l].of \notin {r, o}
      BY <1>8, <2>1
    <2>6. ServerInv(G, srvreqs', replies')
      BY <1>14, <2>4, <2>5
    <2> QED
      BY <1>12, <2>3, <2>6 DEF OwnInv
  <1> QED
    BY <1>16, <1>17

\* The server answers what it has, and with an Rflush forgets the request it is for.
LEMMA OwnReplied ==
    ASSUME SpcFsysAssumption, Inv, OwnInv, NEW r \in Reqs, Reply(r)
    PROVE  OwnInv'
  <1>1. PICK T : T = [tag : 0..NTags - 1, of : Reqs]
    OBVIOUS
  <1>2. PICK e : e = [tag |-> fs.req[r].tag, of |-> r]
    OBVIOUS
  <1>3. e.tag = fs.req[r].tag /\ e.of = r
    BY <1>2
  <1>4. replies \in Seq(T) /\ replies' = Append(replies, e) /\ fs' = fs /\ r \in srvreqs
    BY <1>1, <1>2 DEF Inv, TypeOK, Reply
  <1>5. PICK N \in Nat : N = Len(replies)
    BY <1>4
  <1>6. /\ Len(replies') = N + 1 /\ replies'[N + 1] = e
        /\ \A k \in 1..N : replies'[k] = replies[k]
    <2>1. e \in T
      <3>1. fs.req[r].tag \in 0..NTags - 1
        BY Fields, ReqFields DEF Inv, Good
      <3> QED
        BY <1>1, <1>2, <3>1
    <2> QED
      BY <1>4, <1>5, <2>1
  <1>7. /\ srvreqs' \subseteq srvreqs /\ r \notin srvreqs' /\ fs.req[r].old \notin srvreqs'
    <2>1. srvreqs' = srvreqs \ ({r} \cup
              (IF IsFlush(r) THEN {q \in srvreqs : fs.req[q].tag = fs.req[fs.req[r].old].tag}
                             ELSE {}))
      BY DEF Reply
    <2>2. fs.req[r].old \notin srvreqs'
      <3>1. CASE IsFlush(r)
        BY <2>1, <3>1
      <3>2. CASE ~IsFlush(r)
        <4>1. fs.req[r].old = NIL /\ srvreqs \subseteq Reqs
          BY <3>2 DEF IsFlush, Inv, TypeOK
        <4> QED
          BY <2>1, <4>1, Names
      <3> QED
        BY <3>1, <3>2
    <2> QED
      BY <2>1, <2>2
  <1>8. /\ srvreqs \subseteq fs.sent
        /\ \A k \in 1..N :
              /\ replies[k].of \in fs.sent /\ replies[k].tag = fs.req[replies[k].of].tag
              /\ replies[k].of \notin srvreqs /\ fs.req[replies[k].of].old \notin srvreqs
        /\ \A k, l \in 1..N :
              k < l => /\ replies[l].of # replies[k].of
                       /\ replies[l].of # fs.req[replies[k].of].old
    BY <1>5 DEF OwnInv, ServerInv
  <1>9. \A k \in 1..N + 1 : k \in 1..N \/ k = N + 1
    BY <1>5
  <1>10. ASSUME NEW k \in 1..N + 1
         PROVE  /\ replies'[k].of \in fs.sent /\ replies'[k].tag = fs.req[replies'[k].of].tag
                /\ replies'[k].of \notin srvreqs' /\ fs.req[replies'[k].of].old \notin srvreqs'
    <2>1. CASE k \in 1..N
      BY <1>6, <1>7, <1>8, <2>1
    <2>2. CASE k = N + 1
      BY <1>3, <1>4, <1>6, <1>7, <1>8, <2>2
    <2> QED
      BY <1>9, <2>1, <2>2
  <1>11. ASSUME NEW k \in 1..N + 1, NEW l \in 1..N + 1, k < l
         PROVE  /\ replies'[l].of # replies'[k].of
                /\ replies'[l].of # fs.req[replies'[k].of].old
    <2>1. k \in 1..N
      BY <1>5, <1>11
    <2>2. CASE l \in 1..N
      BY <1>6, <1>8, <1>11, <2>1, <2>2
    <2>3. CASE l = N + 1
      BY <1>3, <1>4, <1>6, <1>8, <2>1, <2>3
    <2> QED
      BY <1>9, <2>2, <2>3
  <1>12. ServerInv(fs, srvreqs', replies')
    BY <1>6, <1>7, <1>8, <1>10, <1>11 DEF ServerInv
  <1> QED
    BY <1>4, <1>12 DEF OwnInv

LEMMA OwnRpcnb ==
    ASSUME SpcFsysAssumption, Inv, OwnInv, NEW fid \in Fids, spc_rpcnb(fid), TagsLast
    PROVE  OwnInv'
  <1>1. Good(fs) /\ fs \in Spcfsys /\ Own(fs) /\ ServerInv(fs, srvreqs, replies)
    BY DEF Inv, Good, OwnInv
  <1>2. Good(fs')
    BY <1>1, RpcnbStep
  <1>3. Own(fs') /\ Kept(fs, fs')
    <2>1. CASE fs.spfd
      <3>1. PICK F : Extended(fs, F, fid, 1, <<NIL>>) /\ Moved(F, fs')
        BY <1>1, <2>1, RpcnbStep
      <3>2. PICK k \in Nat : k = 1
        OBVIOUS
      <3>3. Extended(fs, F, fid, k, <<NIL>>)
        BY <3>1, <3>2
      <3>4. k <= Cardinality((0..NTags - 1) \ fs.tags)
        <4>1. fs.n \in Nat /\ F.n = fs.n + k /\ fs'.n = F.n
          BY <1>1, <3>1, <3>3, MadeReqs DEF Extended, Moved
        <4>2. fs'.n - fs.n = k
          BY <4>1
        <4> QED
          BY <2>1, <4>2 DEF TagsLast
      <3>5. Own(F)
        BY <1>1, <3>3, <3>4, ExtendedTagged, OwnTagged
      <3>6. Own(fs')
        BY <3>1, <3>5, OwnMoved
      <3>7. Kept(fs, F) /\ Kept(F, fs')
        BY <1>1, <3>1, <3>3, KeptExtended, KeptMoved
      <3> QED
        BY <3>6, <3>7, KeptAgain
    <2>2. CASE ~fs.spfd
      <3>1. Refused(fs, fs', fid)
        BY <1>1, <2>2, RpcnbStep
      <3>2. PICK G : G = fs'
        OBVIOUS
      <3>3. Own(G) /\ Kept(fs, G)
        BY <1>1, <2>2, <3>1, <3>2, OwnRefused, KeptRefused
      <3> QED
        BY <3>2, <3>3
    <2> QED
      BY <2>1, <2>2
  <1>4. Arrived /\ UNCHANGED replies
    BY DEF spc_rpcnb
  <1>5. ServerInv(fs', srvreqs', replies')
    BY <1>1, <1>2, <1>3, <1>4, ServerKept
  <1> QED
    BY <1>3, <1>5 DEF OwnInv

\* The first Tflush takes one of the tags that are free, and the others find one less.
LEMMA OwnFlushing ==
    ASSUME SpcFsysAssumption, NEW F, Good(F), Own(F), NEW G, NEW r \in F.sent,
           NEW S \in SUBSET F.sent, Flushing(F, G, r, S),
           G.n - F.n <= Cardinality((0..NTags - 1) \ F.tags)
    PROVE  Own(G) /\ Kept(F, G)
  <1>1. PICK U, H, K : /\ \E T \in SUBSET F.pend : Dropped(F, U, T)
                       /\ TflushesOf(U, H, {r}) /\ Moved(H, K)
                       /\ TflushesOf(K, G, S) /\ Good(U) /\ Good(K)
    BY Zenon DEF Flushing
  <1>2. F \in Spcfsys /\ U \in Spcfsys /\ K \in Spcfsys /\ H \in Spcfsys
    BY <1>1 DEF Good, TflushesOf
  <1>3. PICK k \in Nat : k = Cardinality(S)
    <2>1. S \in SUBSET Reqs
      BY <1>2, Fields
    <2> QED
      BY <2>1, AlongAll
  <1>4. PICK n \in Nat : n = F.n
    BY <1>2, MadeReqs
  <1>5. PICK c \in Nat : c = Cardinality((0..NTags - 1) \ F.tags)
    BY <1>2, Fields, Tags
  <1>6. PICK R : R = {r}
    OBVIOUS
  <1>7. Cardinality(R) = 1
    BY <1>6, FS_Singleton
  <1>8. Tagged(U, H, 1) /\ Kept(U, H)
    <2>1. TflushesOf(U, H, R) /\ Cardinality(R) \in Nat
      BY <1>1, <1>6, <1>7
    <2>2. Tagged(U, H, Cardinality(R))
      BY <1>2, <2>1, TflushesTagged
    <2>3. Kept(U, H)
      BY <1>1, <2>1, KeptTflushes
    <2> QED
      BY <1>7, <2>2, <2>3
  <1>9. Tagged(K, G, k) /\ Kept(K, G)
    <2>1. Cardinality(S) \in Nat
      BY <1>3
    <2>2. Tagged(K, G, Cardinality(S)) /\ Kept(K, G)
      BY <1>1, <1>2, <2>1, TflushesTagged, KeptTflushes
    <2> QED
      BY <1>3, <2>2
  <1>10. /\ U.n = n /\ U.tags = F.tags /\ H.n = n + 1 /\ K.n = n + 1 /\ K.tags = H.tags
         /\ G.n = (n + 1) + k
    BY <1>1, <1>4, <1>8, <1>9 DEF Dropped, Tagged, Moved
  <1>11. k + 1 <= c
    <2>1. G.n - F.n = k + 1
      BY <1>4, <1>10
    <2> QED
      BY <1>5, <2>1
  <1>12. Own(U)
    BY <1>1, OwnDropped
  <1>13. Own(H)
    <2>1. PICK m \in Nat : m = 1
      OBVIOUS
    <2>2. m <= Cardinality((0..NTags - 1) \ U.tags) /\ Tagged(U, H, m)
      BY <1>5, <1>8, <1>10, <1>11, <2>1
    <2> QED
      BY <1>2, <1>12, <2>2, OwnTagged
  <1>14. Own(K)
    BY <1>1, <1>13, OwnMoved
  <1>15. k <= Cardinality((0..NTags - 1) \ K.tags)
    <2>1. PICK t : t = spc_get_id(F.tags, 1)
      OBVIOUS
    <2>2. PICK free : free = (0..NTags - 1) \ F.tags
      OBVIOUS
    <2>3. t \in free /\ IsFiniteSet(free) /\ Cardinality(free) = c
      <3>1. 1 \in 1..c /\ F.tags \in SUBSET (0..NTags - 1)
        BY <1>2, <1>11, Fields
      <3> QED
        BY <1>5, <2>1, <2>2, <3>1, Tags
    <2>4. K.tags = F.tags \cup {t}
      <3>1. H.tags = F.tags \cup {spc_get_id(F.tags, i) : i \in 1..1}
        BY <1>8, <1>10 DEF Tagged
      <3>2. 1..1 = {1}
        OBVIOUS
      <3> QED
        BY <1>10, <2>1, <3>1, <3>2
    <2>5. (0..NTags - 1) \ K.tags = free \ {t}
      BY <2>2, <2>4
    <2>6. Cardinality(free \ {t}) = c - 1
      BY <2>3, FS_RemoveElement
    <2>7. Cardinality((0..NTags - 1) \ K.tags) = c - 1
      BY <2>5, <2>6
    <2> QED
      BY <1>11, <2>7
  <1>16. Own(G)
    BY <1>2, <1>9, <1>14, <1>15, OwnTagged
  <1>17. Kept(F, U) /\ Kept(H, K)
    BY <1>1, KeptDropped, KeptMoved
  <1>18. Kept(F, H)
    BY <1>8, <1>17, KeptAgain
  <1>19. Kept(F, K)
    BY <1>17, <1>18, KeptAgain
  <1>20. Kept(F, G)
    BY <1>9, <1>19, KeptAgain
  <1> QED
    BY <1>16, <1>20

LEMMA OwnFlush ==
    ASSUME SpcFsysAssumption, Inv, OwnInv, NEW fid \in Fids, spc_flush_requests(fid), TagsLast
    PROVE  OwnInv'
  <1>1. Good(fs) /\ Own(fs) /\ ServerInv(fs, srvreqs, replies)
    BY DEF Inv, OwnInv
  <1>2. PICK G : G = fs'
    OBVIOUS
  <1>3. /\ Good(G) /\ fs.spfd
        /\ \/ \E T \in SUBSET fs.pend : Dropped(fs, G, T)
           \/ \E r \in fs.sent, S \in SUBSET fs.sent : r \notin S /\ Flushing(fs, G, r, S)
    BY <1>1, <1>2, FlushStep
  <1>4. Own(G) /\ Kept(fs, G)
    <2>1. CASE \E T \in SUBSET fs.pend : Dropped(fs, G, T)
      <3>1. PICK T \in SUBSET fs.pend : Dropped(fs, G, T)
        BY <2>1
      <3> QED
        BY <1>1, <3>1, OwnDropped, KeptDropped
    <2>2. CASE \E r \in fs.sent, S \in SUBSET fs.sent : r \notin S /\ Flushing(fs, G, r, S)
      <3>1. PICK r \in fs.sent, S \in SUBSET fs.sent : Flushing(fs, G, r, S)
        BY <2>2
      <3>2. G.n - fs.n <= Cardinality((0..NTags - 1) \ fs.tags)
        BY <1>2, <1>3 DEF TagsLast
      <3> QED
        BY <1>1, <3>1, <3>2, OwnFlushing
    <2> QED
      BY <1>3, <2>1, <2>2
  <1>5. Arrived /\ UNCHANGED replies
    BY DEF spc_flush_requests
  <1>6. ServerInv(fs', srvreqs', replies')
    BY <1>1, <1>2, <1>3, <1>4, <1>5, ServerKept
  <1> QED
    BY <1>2, <1>4, <1>6 DEF OwnInv

LEMMA OwnNext ==
    ASSUME SpcFsysAssumption, Inv, OwnInv, [Next]_vars, [TagsLast]_vars
    PROVE  OwnInv'
  <1>1. Good(fs) /\ Own(fs) /\ ServerInv(fs, srvreqs, replies)
    BY DEF Inv, OwnInv
  <1>2. CASE UNCHANGED vars
    BY <1>2 DEF vars, OwnInv
  <1>3. CASE ~UNCHANGED vars
    <2>1. Next /\ TagsLast
      BY <1>3
    <2>2. CASE \E fid \in Fids : spc_rpcnb(fid)
      BY <2>1, <2>2, OwnRpcnb
    <2>3. CASE \E fid \in Fids : spc_flush_requests(fid)
      BY <2>1, <2>3, OwnFlush
    <2>4. CASE spc_fd_read
      BY <2>4, OwnRead
    <2>5. CASE spc_notify_write
      <3>1. Good(fs') /\ Moved(fs, fs')
        BY <1>1, <2>5, WriteStep
      <3>2. PICK G : G = fs'
        OBVIOUS
      <3>3. Own(G) /\ Kept(fs, G)
        BY <1>1, <3>1, <3>2, OwnMoved, KeptMoved
      <3>4. Arrived /\ UNCHANGED replies
        BY <2>5 DEF spc_notify_write
      <3>5. ServerInv(fs', srvreqs', replies')
        BY <1>1, <3>1, <3>2, <3>3, <3>4, ServerKept
      <3> QED
        BY <3>2, <3>3, <3>5 DEF OwnInv
    <2>6. CASE spc_disconnect_fsys
      <3>1. PICK G : G = fs'
        OBVIOUS
      <3>2. Disconnected(fs, G)
        BY <1>1, <2>6, <3>1, Disconnects
      <3>3. Own(G)
        BY <1>1, <3>2, OwnDisconnected
      <3>4. srvreqs' = {} /\ replies' = <<>>
        BY <2>6 DEF spc_disconnect_fsys
      <3>5. ServerInv(G, srvreqs', replies')
        BY <3>4 DEF ServerInv
      <3> QED
        BY <3>1, <3>3, <3>5 DEF OwnInv
    <2>7. CASE \E r \in Reqs : Reply(r)
      BY <2>7, OwnReplied
    <2> QED
      BY <2>1, <2>2, <2>3, <2>4, <2>5, <2>6, <2>7 DEF Next
  <1> QED
    BY <1>2, <1>3

LEMMA OwnInit ==
    ASSUME SpcFsysAssumption, Init
    PROVE  OwnInv
  <1>1. fs.n = 0 /\ srvreqs = {} /\ replies = <<>>
    BY DEF Init
  <1>2. MadeIn(fs) = {}
    BY <1>1 DEF MadeIn
  <1> QED
    BY <1>1, <1>2 DEF OwnInv, Own, TagInv, RcInv, Live, ServerInv

\* While the tags of the pool last (spc_get_id), the callback of a request gets the reply
\* to that request, or none, in whatever order the server answers and however the Tflushes
\* overtake the replies: no tag that the server, or a reply on its way, may still use is
\* given to a second request.
THEOREM SpcFsysOwnReply == Spec /\ [][TagsLast]_vars => []OwnReply
  <1>1. Init => OwnInv
    BY SpcFsysAssumption, OwnInit
  <1>2. Inv /\ OwnInv /\ [Next]_vars /\ [TagsLast]_vars => OwnInv'
    BY SpcFsysAssumption, OwnNext
  <1>3. OwnInv => OwnReply
    BY DEF OwnInv, Own, RcInv, OwnReply, Made, MadeIn
  <1> QED
    BY <1>1, <1>2, <1>3, Invariant, PTL DEF Spec

\* There are no more tags taken than requests made, so when the pool has a tag for every
\* request it lasts.
FewTags(F) == Cardinality(F.tags) <= F.n

LEMMA TagsFinite ==
    ASSUME SpcFsysAssumption, NEW F \in Spcfsys
    PROVE  IsFiniteSet(F.tags) /\ Cardinality(F.tags) \in Nat
  <1>1. IsFiniteSet(0..NTags - 1)
    BY FS_Interval DEF SpcFsysAssumption
  <1> QED
    BY <1>1, Fields, FS_Subset, FS_CardinalityType

LEMMA FewLeft ==
    ASSUME SpcFsysAssumption, NEW F \in Spcfsys, FewTags(F), NEW G,
           G.n \in Nat, F.n <= G.n, G.tags \subseteq F.tags
    PROVE  FewTags(G)
  <1>1. PICK c \in Nat : c = Cardinality(F.tags) /\ IsFiniteSet(F.tags)
    BY TagsFinite
  <1>2. IsFiniteSet(G.tags) /\ Cardinality(G.tags) <= c
    BY <1>1, FS_Subset
  <1>3. Cardinality(G.tags) \in Nat /\ F.n \in Nat
    BY <1>2, FS_CardinalityType, MadeReqs
  <1> QED
    BY <1>1, <1>2, <1>3 DEF FewTags

LEMMA FewTagged ==
    ASSUME SpcFsysAssumption, NEW F \in Spcfsys, FewTags(F), NEW k \in Nat, NEW G, Tagged(F, G, k)
    PROVE  FewTags(G)
  <1> DEFINE ids == {spc_get_id(F.tags, i) : i \in 1..k}
             f == [i \in 1..k |-> spc_get_id(F.tags, i)]
  <1>1. PICK c \in Nat, n \in Nat : c = Cardinality(F.tags) /\ n = F.n /\ IsFiniteSet(F.tags)
    BY TagsFinite, MadeReqs
  <1>2. f \in Surjection(1..k, ids)
    BY DEF Surjection
  <1>3. IsFiniteSet(1..k) /\ Cardinality(1..k) = k
    BY FS_Interval
  <1> HIDE DEF f, ids
  <1>4. IsFiniteSet(ids) /\ Cardinality(ids) <= k
    BY <1>2, <1>3, FS_Surjection
  <1>5. PICK both : both = F.tags \cap ids
    OBVIOUS
  <1>6. IsFiniteSet(both) /\ Cardinality(both) \in Nat /\ Cardinality(ids) \in Nat
    BY <1>4, <1>5, FS_Subset, FS_CardinalityType
  <1>7. Cardinality(F.tags \cup ids) = c + Cardinality(ids) - Cardinality(both)
    BY <1>1, <1>4, <1>5, FS_Union
  <1>8. c + Cardinality(ids) - Cardinality(both) <= n + k
    BY <1>1, <1>4, <1>6 DEF FewTags
  <1> QED
    BY <1>1, <1>7, <1>8 DEF FewTags, Tagged, ids

LEMMA FewNext ==
    ASSUME SpcFsysAssumption, Inv, FewTags(fs), [Next]_vars
    PROVE  FewTags(fs')
  <1>1. Good(fs) /\ fs \in Spcfsys /\ fs.n \in Nat
    BY MadeReqs DEF Inv, Good
  <1>2. ASSUME fs'.n = fs.n \/ fs'.n = fs.n + 1, fs'.tags \subseteq fs.tags
        PROVE  FewTags(fs')
    <2>1. PICK G : G = fs'
      OBVIOUS
    <2>2. G.n \in Nat /\ fs.n <= G.n /\ G.tags \subseteq fs.tags
      BY <1>1, <1>2, <2>1
    <2>3. FewTags(G)
      BY <1>1, <2>2, FewLeft
    <2> QED
      BY <2>1, <2>3
  <1>3. CASE \E fid \in Fids : spc_rpcnb(fid)
    <2>1. PICK fid \in Fids : spc_rpcnb(fid)
      BY <1>3
    <2>2. CASE fs.spfd
      <3>1. PICK F : Extended(fs, F, fid, 1, <<NIL>>) /\ Moved(F, fs')
        BY <1>1, <2>1, <2>2, RpcnbStep
      <3>2. PICK k \in Nat : k = 1
        OBVIOUS
      <3>3. Extended(fs, F, fid, k, <<NIL>>)
        BY <3>1, <3>2
      <3>4. FewTags(F)
        BY <1>1, <3>3, ExtendedTagged, FewTagged
      <3> QED
        BY <3>1, <3>4 DEF Moved, FewTags
    <2>3. CASE ~fs.spfd
      <3>1. Refused(fs, fs', fid)
        BY <1>1, <2>1, <2>3, RpcnbStep
      <3> QED
        BY <1>2, <3>1 DEF Refused
    <2> QED
      BY <2>2, <2>3
  <1>4. CASE \E fid \in Fids : spc_flush_requests(fid)
    <2>1. PICK fid \in Fids : spc_flush_requests(fid)
      BY <1>4
    <2>2. \/ \E T \in SUBSET fs.pend : Dropped(fs, fs', T)
          \/ \E r \in fs.sent, S \in SUBSET fs.sent : Flushing(fs, fs', r, S)
      BY <1>1, <2>1, FlushStep
    <2>3. CASE \E T \in SUBSET fs.pend : Dropped(fs, fs', T)
      BY <1>2, <2>3 DEF Dropped
    <2>4. CASE \E r \in fs.sent, S \in SUBSET fs.sent : Flushing(fs, fs', r, S)
      <3>1. PICK r \in fs.sent, S \in SUBSET fs.sent : Flushing(fs, fs', r, S)
        BY <2>4
      <3>2. PICK G : G = fs'
        OBVIOUS
      <3>3. PICK U, H, K : /\ \E T \in SUBSET fs.pend : Dropped(fs, U, T)
                           /\ TflushesOf(U, H, {r}) /\ Moved(H, K)
                           /\ TflushesOf(K, G, S) /\ Good(U) /\ Good(K)
        BY <3>1, <3>2, Zenon DEF Flushing
      <3>4. U \in Spcfsys /\ H \in Spcfsys /\ K \in Spcfsys
        BY <3>3 DEF Good, TflushesOf
      <3>5. PICK k \in Nat : k = Cardinality(S)
        <4>1. S \in SUBSET Reqs
          BY <1>1, Fields
        <4> QED
          BY <4>1, AlongAll
      <3>6. FewTags(U)
        BY <3>3 DEF Dropped, FewTags
      <3>7. PICK R : R = {r}
        OBVIOUS
      <3>8. Tagged(U, H, 1)
        <4>1. Cardinality(R) = 1
          BY <3>7, FS_Singleton
        <4>2. TflushesOf(U, H, R) /\ Cardinality(R) \in Nat
          BY <3>3, <3>7, <4>1
        <4>3. Tagged(U, H, Cardinality(R))
          BY <3>4, <4>2, TflushesTagged
        <4> QED
          BY <4>1, <4>3
      <3>9. Tagged(K, G, k)
        <4>1. Cardinality(S) \in Nat
          BY <3>5
        <4>2. Tagged(K, G, Cardinality(S))
          BY <3>3, <3>4, <4>1, TflushesTagged
        <4> QED
          BY <3>5, <4>2
      <3>10. FewTags(H)
        BY <3>4, <3>6, <3>8, FewTagged
      <3>11. FewTags(K)
        BY <3>3, <3>10 DEF Moved, FewTags
      <3>12. FewTags(G)
        BY <3>4, <3>9, <3>11, FewTagged
      <3> QED
        BY <3>2, <3>12
    <2> QED
      BY <2>2, <2>3, <2>4
  <1>5. CASE spc_fd_read
    <2>1. TypeOK
      BY DEF Inv
    <2>2. fs' = fs \/ \E r \in fs.sent : \/ Answered(fs, fs', r, Head(replies).of)
                                         \/ Rflushed(fs, fs', r, fs.req[r].old)
      BY <1>1, <1>5, <2>1, ReadStep
    <2> QED
      BY <1>2, <2>2 DEF Answered, Rflushed
  <1>6. CASE spc_notify_write
    <2>1. Moved(fs, fs')
      BY <1>1, <1>6, WriteStep
    <2> QED
      BY <1>2, <2>1 DEF Moved
  <1>7. CASE spc_disconnect_fsys
    <2>1. Disconnected(fs, fs')
      BY <1>1, <1>7, Disconnects
    <2> QED
      BY <1>2, <2>1 DEF Disconnected
  <1>8. CASE (\E r \in Reqs : Reply(r)) \/ UNCHANGED vars
    BY <1>2, <1>8 DEF Reply, vars
  <1> QED
    BY <1>3, <1>4, <1>5, <1>6, <1>7, <1>8 DEF Next

LEMMA FewLast ==
    ASSUME SpcFsysAssumption, MaxReqs <= NTags, Inv, Inv', FewTags(fs)
    PROVE  TagsLast
  <1>1. fs \in Spcfsys /\ fs' \in Spcfsys
    BY DEF Inv, Good
  <1>2. PICK n \in Nat, c \in Nat, t \in Nat :
             n = fs.n /\ c = Cardinality(fs.tags) /\ t = NTags /\ IsFiniteSet(fs.tags)
    BY <1>1, TagsFinite, MadeReqs DEF SpcFsysAssumption
  <1>3. PICK all, free : all = 0..NTags - 1 /\ free = all \ fs.tags
    OBVIOUS
  <1>4. IsFiniteSet(all) /\ Cardinality(all) = t
    <2>1. IsFiniteSet(0..t - 1) /\ Cardinality(0..t - 1) = t
      BY FS_Interval
    <2> QED
      BY <1>2, <1>3, <2>1
  <1>5. all \cap fs.tags = fs.tags
    BY <1>1, <1>3, Fields
  <1>6. Cardinality(free) = t - c
    <2>1. Cardinality(all \ fs.tags) = Cardinality(all) - Cardinality(all \cap fs.tags)
      BY <1>4, FS_Difference
    <2> QED
      BY <1>2, <1>3, <1>4, <1>5, <2>1
  <1>7. fs'.n <= t /\ fs'.n \in Nat
    <2>1. PICK G \in Spcfsys : G = fs'
      BY <1>1
    <2>2. G.n \in 0..MaxReqs
      BY Fields
    <2> QED
      BY <1>2, <2>1, <2>2, Names
  <1>8. fs'.n - fs.n <= Cardinality(free)
    BY <1>2, <1>6, <1>7 DEF FewTags
  <1> QED
    BY <1>3, <1>8 DEF TagsLast

\* A mount that makes no more requests than there are tags gives its own reply to each,
\* with no other hypothesis: the tags that are put back (spc_put_id) are taken again.
COROLLARY SpcFsysOwnReplyOnce ==
    ASSUME MaxReqs <= NTags
    PROVE  Spec => []OwnReply
  <1>1. Init => FewTags(fs)
    <2>1. Cardinality({}) = 0
      BY FS_EmptySet
    <2> QED
      BY <2>1 DEF Init, FewTags
  <1>2. Inv /\ FewTags(fs) /\ [Next]_vars => FewTags(fs)'
    BY SpcFsysAssumption, FewNext
  <1>3. Inv /\ Inv' /\ FewTags(fs) => TagsLast
    BY SpcFsysAssumption, FewLast
  <1>4. Spec => [](Inv /\ FewTags(fs))
    BY <1>1, <1>2, Invariant, PTL DEF Spec
  <1>5. Spec => [][TagsLast]_vars
    BY <1>3, <1>4, PTL
  <1> QED
    BY <1>5, SpcFsysOwnReply, PTL
=============================================================================
