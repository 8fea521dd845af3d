-------------------------- MODULE XSession_proofs --------------------------
(***************************************************************************)
(* Proofs about the sessions of xcpufs, for any number of sessions, fids   *)
(* and processes.  The SIGCHLD pipe loses no child; and as long as no      *)
(* session is made persistent and none starts a second process, the two    *)
(* reference counts of a session are exact, it goes with what refers to    *)
(* it, and a read of "wait" ends with it.                                  *)
(***************************************************************************)
EXTENDS XSession, FiniteSetTheorems, TLAPS

-----------------------------------------------------------------------------
(* The inductive invariant.                                                *)

\* No session is made persistent and none starts a second process.
PlainUses == Uses \cap {"persistent", "reexec"} = {}

DirFids(s) == {f \in FidsOf(s) : fid[f].at = "dir"}

\* A free slot, or a session with n references, d of them fids of its directory.
Counted(x, n, d) ==
    /\ x \in Xsession
    /\ x.mode = "Normal"
    /\ \/ x = NoSession /\ n = 0 /\ d = 0
       \/ /\ x.state \in {"Initializing", "Running", "Finished", "Wiped"}
          /\ n # 0 /\ x.refcount = n
          /\ (x.listed <=> x.state # "Wiped")
          /\ x.sref = 1 + (IF x.listed THEN NFiles ELSE 0) + d

\* The number of processes of a session
NProcs(x) == IF x.pid = NOPID THEN 0 ELSE 1

CountInv(s) ==
    Counted(sess[s], Cardinality(FidsOf(s)) + NProcs(sess[s]), Cardinality(DirFids(s)))

\* A process and its session refer to each other; a session that runs has one.
ProcInv ==
    /\ \A p \in Pids : proc[p] = "none" <=> owner[p] = NOSESSION
    /\ \A s \in Sessions, p \in Pids : sess[s].pid = p <=> owner[p] = s
    /\ \A s \in Sessions :
          /\ sess[s].state = "Running" => sess[s].pid # NOPID
          /\ sess[s].state \in {"Initializing", "Finished"} => sess[s].pid = NOPID

\* Where a fid is, and what it waits for.
FidOK(g) ==
    /\ g \in Xfid
    /\ g.s = NOSESSION <=> g.at \in {"none", "root"}
    /\ g.at = "none" => g = NoFid
    /\ g.req = "wait" => g.at = "wait"
    /\ g.req = "ctl" => g.at = "ctl"
    /\ g.clunked => g.req = "wait"

WaitInv(s) ==
    /\ sess[s].waitreqs = {f \in FidsOf(s) : fid[f].req = "wait"}
    /\ sess[s].waitreqs # {} => sess[s].state \in {"Initializing", "Running"}

IInv ==
    /\ TypeOK
    /\ \A s \in Sessions : CountInv(s) /\ WaitInv(s)
    /\ \A f \in Fids : FidOK(fid[f])
    /\ ProcInv

-----------------------------------------------------------------------------
(* What the operations on a session do to its counts.                      *)

One(b) == IF b THEN 1 ELSE 0

\* A new session has one reference, of the fid of "clone".
LEMMA CreateCounted ==
    XSessionAssumption => /\ Counted(session_create, 1, 0)
                          /\ session_create.state = "Initializing"
                          /\ session_create.pid = NOPID /\ session_create.waitreqs = {}
  <1> SUFFICES ASSUME XSessionAssumption
               PROVE  /\ Counted(session_create, 1, 0)
                      /\ session_create.state = "Initializing"
                      /\ session_create.pid = NOPID /\ session_create.waitreqs = {}
    OBVIOUS
  <1> DEFINE x == session_create
  <1>1. /\ x.state = "Initializing" /\ x.mode = "Normal" /\ x.refcount = 1
        /\ x.sref = 1 + NFiles /\ x.listed = TRUE /\ x.pid = NOPID
        /\ x.waitreqs = {} /\ x.ctlreq = NOFID
    BY DEF session_create, NoSession
  <1>2. NFiles \in Nat /\ 1 + NFiles \in Int
    BY DEF XSessionAssumption
  <1>3. NoSession \in Xsession
    BY DEF NoSession, Xsession
  <1>4. x \in Xsession
    <2> DEFINE u == [NoSession EXCEPT !.state = "Initializing"]
               v == [u EXCEPT !.refcount = 1]
               w == [v EXCEPT !.sref = 1 + NFiles]
    <2>1. x = [w EXCEPT !.listed = TRUE]
      BY DEF session_create
    <2>2. u \in Xsession
      BY <1>3 DEF Xsession
    <2> HIDE DEF u
    <2>3. v \in Xsession
      BY <2>2 DEF Xsession
    <2> HIDE DEF v
    <2>4. w \in Xsession
      BY <1>2, <2>3 DEF Xsession
    <2> HIDE DEF w, x
    <2> QED
      BY <2>1, <2>4 DEF Xsession
  <1> HIDE DEF x
  <1>5. Counted(x, 1, 0)
    BY <1>1, <1>2, <1>4 DEF Counted
  <1> QED
    BY <1>1, <1>5 DEF x

\* A session with a reference
LEMMA CountedFields ==
    ASSUME XSessionAssumption, NEW x, NEW n \in Nat, NEW d \in Nat, Counted(x, n, d), n # 0
    PROVE  /\ x \in Xsession /\ x # NoSession
           /\ x.state \in {"Initializing", "Running", "Finished", "Wiped"}
           /\ x.mode = "Normal" /\ x.refcount = n /\ (x.listed <=> x.state # "Wiped")
           /\ x.sref = 1 + (IF x.listed THEN NFiles ELSE 0) + d
           /\ x.refcount \in Int /\ x.sref \in Int
  <1>1. x.state \in {"Initializing", "Running", "Finished", "Wiped"} /\ x \in Xsession
    BY DEF Counted
  <1>2. x # NoSession
    BY <1>1 DEF NoSession
  <1>3. x.refcount \in Int /\ x.sref \in Int
    BY <1>1 DEF Xsession
  <1> QED
    BY <1>1, <1>2, <1>3 DEF Counted

\* A session with a reference gets another.
LEMMA RefCounted ==
    ASSUME XSessionAssumption, NEW x, NEW n \in Nat, NEW d \in Nat, NEW at,
           Counted(x, n, d), n # 0
    PROVE  /\ Counted(Ref(x, at), n + 1, d + One(at = "dir"))
           /\ Ref(x, at).state = x.state /\ Ref(x, at).pid = x.pid
           /\ Ref(x, at).waitreqs = x.waitreqs /\ Ref(x, at).ctlreq = x.ctlreq
  <1>0. /\ x \in Xsession /\ x.state \in {"Initializing", "Running", "Finished", "Wiped"}
        /\ x.mode = "Normal" /\ x.refcount = n /\ (x.listed <=> x.state # "Wiped")
        /\ x.sref = 1 + (IF x.listed THEN NFiles ELSE 0) + d
        /\ x.refcount \in Int /\ x.sref \in Int
    BY CountedFields
  <1> DEFINE y == session_incref(x)
             z == [y EXCEPT !.sref = @ + 1]
  <1>1. /\ y \in Xsession /\ y.refcount = n + 1 /\ y.sref = x.sref /\ y.mode = x.mode
        /\ y.listed = x.listed /\ y.state = x.state /\ y.pid = x.pid
        /\ y.waitreqs = x.waitreqs /\ y.ctlreq = x.ctlreq
    BY <1>0 DEF Xsession, session_incref
  <1> HIDE DEF y
  <1>2. /\ z \in Xsession /\ z.refcount = y.refcount /\ z.sref = y.sref + 1 /\ z.mode = y.mode
        /\ z.listed = y.listed /\ z.state = y.state /\ z.pid = y.pid
        /\ z.waitreqs = y.waitreqs /\ z.ctlreq = y.ctlreq
    BY <1>0, <1>1 DEF Xsession
  <1> HIDE DEF z
  <1>3. Ref(x, at) = IF at = "dir" THEN z ELSE y
    BY DEF Ref, y, z
  <1>4. Counted(y, n + 1, d) /\ Counted(z, n + 1, d + 1)
    BY <1>0, <1>1, <1>2 DEF Counted, XSessionAssumption
  <1> QED
    BY <1>1, <1>2, <1>3, <1>4 DEF One

\* A session that loses a reference and keeps another
LEMMA UnrefCounted ==
    ASSUME XSessionAssumption, NEW x, NEW n \in Nat, NEW d \in Nat, NEW at,
           Counted(x, n, d), n > 1, One(at = "dir") <= d
    PROVE  /\ Counted(Unref(x, at), n - 1, d - One(at = "dir"))
           /\ Unref(x, at).state = x.state /\ Unref(x, at).pid = x.pid
           /\ Unref(x, at).waitreqs = x.waitreqs /\ Unref(x, at).ctlreq = x.ctlreq
  <1>0. /\ x \in Xsession /\ x.state \in {"Initializing", "Running", "Finished", "Wiped"}
        /\ x.mode = "Normal" /\ x.refcount = n /\ (x.listed <=> x.state # "Wiped")
        /\ x.sref = 1 + (IF x.listed THEN NFiles ELSE 0) + d
        /\ x.refcount \in Int /\ x.sref \in Int
    BY CountedFields
  <1> DEFINE y == [x EXCEPT !.refcount = @ - 1]
             z == [y EXCEPT !.sref = @ - 1]
  <1>1. /\ y \in Xsession /\ y.refcount = n - 1 /\ y.sref = x.sref /\ y.mode = x.mode
        /\ y.listed = x.listed /\ y.state = x.state /\ y.pid = x.pid
        /\ y.waitreqs = x.waitreqs /\ y.ctlreq = x.ctlreq
    BY <1>0 DEF Xsession
  <1>2. session_decref(x) = y
    BY <1>1 DEF session_decref
  <1> HIDE DEF y
  <1>3. /\ z \in Xsession /\ z.refcount = y.refcount /\ z.sref = y.sref - 1 /\ z.mode = y.mode
        /\ z.listed = y.listed /\ z.state = y.state /\ z.pid = y.pid
        /\ z.waitreqs = y.waitreqs /\ z.ctlreq = y.ctlreq
    BY <1>0, <1>1 DEF Xsession
  <1> HIDE DEF z
  <1>4. Unref(x, at) = IF at = "dir" THEN z ELSE y
    BY <1>2 DEF Unref, z
  <1>5. Counted(y, n - 1, d) /\ Counted(z, n - 1, d - 1)
    BY <1>0, <1>1, <1>3 DEF Counted, XSessionAssumption
  <1> QED
    BY <1>1, <1>3, <1>4, <1>5 DEF One

\* A session that loses its last reference is wiped and goes.
LEMMA LastUnref ==
    ASSUME XSessionAssumption, NEW x, NEW at,
           Counted(x, 1, One(at = "dir")), x.state # "Running"
    PROVE  Settled(Unref(x, at)) = NoSession
  <1>1. /\ x \in Xsession /\ x.refcount = 1 /\ x.mode = "Normal"
        /\ (x.listed <=> x.state # "Wiped")
        /\ x.sref = 1 + (IF x.listed THEN NFiles ELSE 0) + One(at = "dir")
    BY CountedFields DEF One
  <1> DEFINE y == [x EXCEPT !.refcount = @ - 1]
             z == session_wipe(y)
  <1>2. y.refcount = 0 /\ Wipes(y)
    BY <1>1 DEF Counted, Xsession, Wipes
  <1>3. session_decref(x) = [z EXCEPT !.sref = @ - 1]
    BY <1>2 DEF session_decref
  <1>4. /\ z \in Xsession /\ z.sref = 1 + One(at = "dir") /\ z.state = "Wiped"
        /\ z.listed = FALSE /\ z.mode = "Normal"
    <2>1. CASE x.state = "Wiped"
      BY <1>1, <2>1 DEF Counted, Xsession, session_wipe
    <2>2. CASE x.state # "Wiped"
      <3> DEFINE v == [y EXCEPT !.state = "Wiped", !.waitreqs = {}]
      <3>1. y \in Xsession /\ y.sref = x.sref /\ y.mode = "Normal" /\ y.state = x.state
        BY <1>1 DEF Xsession
      <3> HIDE DEF y
      <3>2. v \in Xsession /\ v.sref = x.sref /\ v.mode = "Normal" /\ v.state = "Wiped"
        BY <3>1 DEF Xsession
      <3>3. z = session_remove_dir(v)
        BY <2>2, <3>1 DEF session_wipe
      <3> HIDE DEF v, z
      <3>4. x.sref = 1 + NFiles + One(at = "dir") /\ NFiles \in Nat /\ One(at = "dir") \in Nat
        BY <1>1, <2>2 DEF XSessionAssumption, One
      <3>5. z = [v EXCEPT !.listed = FALSE, !.sref = x.sref - NFiles]
        BY <3>2, <3>3 DEF session_remove_dir
      <3>6. x.sref - NFiles = 1 + One(at = "dir") /\ x.sref - NFiles \in Int
        BY <3>4
      <3> QED
        BY <3>2, <3>5, <3>6 DEF Xsession
    <2> QED
      BY <2>1, <2>2
  <1> HIDE DEF y, z
  <1>5. /\ Unref(x, at).sref = 0 /\ Unref(x, at).state = "Wiped"
        /\ Unref(x, at).listed = FALSE /\ Unref(x, at).mode = "Normal"
    <2>1. CASE at = "dir"
      BY <1>3, <1>4, <2>1 DEF Unref, Xsession, One
    <2>2. CASE at # "dir"
      BY <1>3, <1>4, <2>2 DEF Unref, Xsession, One
    <2> QED
      BY <2>1, <2>2
  <1> QED
    BY <1>5 DEF Settled, NoSession

\* A session with a reference is not freed.
LEMMA CountedSettled ==
    ASSUME XSessionAssumption, NEW x, NEW n \in Nat, NEW d \in Nat, Counted(x, n, d)
    PROVE  Settled(x) = x
  <1>1. CASE x = NoSession
    BY <1>1 DEF Settled, NoSession
  <1>2. CASE x # NoSession
    BY <1>2 DEF XSessionAssumption, Settled, Counted
  <1> QED
    BY <1>1, <1>2

\* A walk from the directory of a session to a place in it
LEMMA WalkCounted ==
    ASSUME XSessionAssumption, NEW x, NEW n \in Nat, NEW d \in Nat, NEW at,
           Counted(x, n, d), n # 0
    PROVE  /\ Counted(WalkTo(Ref(x, "dir"), at), n + 1, d + One(at = "dir"))
           /\ WalkTo(Ref(x, "dir"), at).state = x.state /\ WalkTo(Ref(x, "dir"), at).pid = x.pid
           /\ WalkTo(Ref(x, "dir"), at).waitreqs = x.waitreqs /\ WalkTo(Ref(x, "dir"), at).ctlreq = x.ctlreq
  <1> DEFINE y == Ref(x, "dir")
             z == Unref(y, "dir")
  <1>1. Counted(y, n + 1, d + 1) /\ y.state = x.state /\ y.pid = x.pid
        /\ y.waitreqs = x.waitreqs /\ y.ctlreq = x.ctlreq
    BY RefCounted DEF One
  <1>2. CASE at = "dir"
    BY <1>1, <1>2 DEF WalkTo, One
  <1>3. CASE at # "dir"
    <2>1. n + 1 \in Nat /\ d + 1 \in Nat /\ n + 1 > 1 /\ One("dir" = "dir") = 1 /\ 1 <= d + 1
          /\ n + 1 - 1 = n /\ d + 1 - 1 = d
      BY DEF One
    <2> HIDE DEF y
    <2>2. Counted(z, n, d) /\ z.state = x.state /\ z.pid = x.pid
          /\ z.waitreqs = x.waitreqs /\ z.ctlreq = x.ctlreq
      BY <1>1, <2>1, UnrefCounted
    <2> HIDE DEF z
    <2>3. Counted(Ref(z, at), n + 1, d + One(at = "dir"))
          /\ Ref(z, at).state = x.state /\ Ref(z, at).pid = x.pid
          /\ Ref(z, at).waitreqs = x.waitreqs /\ Ref(z, at).ctlreq = x.ctlreq
      BY <2>2, RefCounted
    <2>4. WalkTo(y, at) = Ref(z, at)
      BY <1>3 DEF WalkTo, z
    <2> QED
      BY <2>3, <2>4 DEF y
  <1> QED
    BY <1>2, <1>3

\* A session is wiped by hand, with c clunked reads of "wait" that are answered.
LEMMA WipeCounted ==
    ASSUME XSessionAssumption, NEW x, NEW n \in Nat, NEW d \in Nat, NEW c \in Nat,
           Counted(x, n, d), n - c > 0, x.state # "Wiped",
           NEW r, r = session_wipe([x EXCEPT !.refcount = @ - c])
    PROVE  /\ Counted(r, n - c, d)
           /\ r.state = "Wiped" /\ r.pid = x.pid /\ r.waitreqs = {}
  <1>0. /\ x \in Xsession /\ x.mode = "Normal" /\ x.refcount = n /\ x.listed
        /\ x.sref = 1 + NFiles + d /\ x.refcount \in Int /\ x.sref \in Int
    BY CountedFields
  <1> DEFINE v == [x EXCEPT !.refcount = @ - c]
             w == [v EXCEPT !.state = "Wiped"]
             u == [w EXCEPT !.waitreqs = {}]
             t == [u EXCEPT !.listed = FALSE]
             y == [t EXCEPT !.sref = @ - NFiles]
  <1>1. /\ v \in Xsession /\ v.mode = "Normal" /\ v.refcount = n - c /\ v.sref = x.sref
        /\ v.state = x.state /\ v.pid = x.pid
    BY <1>0 DEF Xsession
  <1>2. session_wipe(v) = y
    BY <1>1 DEF session_wipe, session_remove_dir
  <1> HIDE DEF v
  <1>3. /\ w \in Xsession /\ w.mode = "Normal" /\ w.refcount = n - c /\ w.sref = x.sref
        /\ w.state = "Wiped" /\ w.pid = x.pid
    BY <1>1 DEF Xsession
  <1> HIDE DEF w
  <1>4. /\ u \in Xsession /\ u.mode = "Normal" /\ u.refcount = n - c /\ u.sref = x.sref
        /\ u.state = "Wiped" /\ u.pid = x.pid /\ u.waitreqs = {}
    BY <1>3 DEF Xsession
  <1> HIDE DEF u
  <1>5. /\ t \in Xsession /\ t.mode = "Normal" /\ t.refcount = n - c /\ t.sref = x.sref
        /\ t.state = "Wiped" /\ t.pid = x.pid /\ t.waitreqs = {} /\ t.listed = FALSE
    BY <1>4 DEF Xsession
  <1> HIDE DEF t
  <1>6. x.sref - NFiles = 1 + d /\ x.sref - NFiles \in Int
    BY <1>0 DEF XSessionAssumption
  <1>7. /\ y \in Xsession /\ y.mode = "Normal" /\ y.refcount = n - c /\ y.sref = 1 + d
        /\ y.state = "Wiped" /\ y.pid = x.pid /\ y.waitreqs = {} /\ y.listed = FALSE
    BY <1>5, <1>6 DEF Xsession
  <1> HIDE DEF y
  <1>8. Counted(y, n - c, d)
    BY <1>7 DEF Counted
  <1> QED
    BY <1>2, <1>7, <1>8 DEF v

\* The session whose process ends, with c clunked reads of "wait" that are answered.
EndedWith(x, c) == [Ended(x) EXCEPT !.refcount = @ - c]

\* The process of a session ends, with c clunked reads of "wait" that are answered.
LEMMA EndCounted ==
    ASSUME XSessionAssumption, NEW x, NEW n \in Nat, NEW d \in Nat, NEW c \in Nat,
           Counted(x, n, d), n - c > 0
    PROVE  /\ Counted(EndedWith(x, c), n - c, d)
           /\ EndedWith(x, c).state \in {"Finished", "Wiped"}
           /\ EndedWith(x, c).pid = NOPID /\ EndedWith(x, c).waitreqs = {}
  <1>0. /\ x \in Xsession /\ x.state \in {"Initializing", "Running", "Finished", "Wiped"}
        /\ x.mode = "Normal" /\ x.refcount = n /\ (x.listed <=> x.state # "Wiped")
        /\ x.sref = 1 + (IF x.listed THEN NFiles ELSE 0) + d
    BY CountedFields
  <1> DEFINE st == IF x.state = "Wiped" THEN "Wiped" ELSE "Finished"
             v == [x EXCEPT !.state = st]
             w == [v EXCEPT !.pid = NOPID]
             u == [w EXCEPT !.waitreqs = {}]
             y == [u EXCEPT !.refcount = @ - c]
  <1>1. Ended(x) = u
    BY <1>0 DEF Ended
  <1>2. st \in {"Finished", "Wiped"} /\ (st = "Wiped" <=> x.state = "Wiped")
    OBVIOUS
  <1> HIDE DEF st
  <1>3. /\ v \in Xsession /\ v.mode = "Normal" /\ v.refcount = n /\ v.sref = x.sref
        /\ v.state = st /\ v.listed = x.listed
    BY <1>0, <1>2 DEF Xsession
  <1> HIDE DEF v
  <1>4. /\ w \in Xsession /\ w.mode = "Normal" /\ w.refcount = n /\ w.sref = x.sref
        /\ w.state = st /\ w.listed = x.listed /\ w.pid = NOPID
    BY <1>3 DEF Xsession
  <1> HIDE DEF w
  <1>5. /\ u \in Xsession /\ u.mode = "Normal" /\ u.refcount = n /\ u.sref = x.sref
        /\ u.state = st /\ u.listed = x.listed /\ u.pid = NOPID /\ u.waitreqs = {}
    BY <1>4 DEF Xsession
  <1> HIDE DEF u
  <1>6. /\ y \in Xsession /\ y.mode = "Normal" /\ y.refcount = n - c /\ y.sref = x.sref
        /\ y.state = st /\ y.listed = x.listed /\ y.pid = NOPID /\ y.waitreqs = {}
    BY <1>5 DEF Xsession
  <1> HIDE DEF y
  <1>7. Counted(y, n - c, d)
    BY <1>0, <1>2, <1>6 DEF Counted
  <1> QED
    BY <1>1, <1>2, <1>6, <1>7 DEF y, EndedWith

-----------------------------------------------------------------------------
(* The fids of a session.                                                  *)

\* Sets of fids are finite.
LEMMA FidsFinite ==
    ASSUME XSessionAssumption, NEW S \in SUBSET Fids
    PROVE  IsFiniteSet(S) /\ Cardinality(S) \in Nat
  BY FS_Subset, FS_CardinalityType DEF XSessionAssumption

\* A set of fids that gains or loses one.
LEMMA OneFid ==
    ASSUME XSessionAssumption, NEW S \in SUBSET Fids, NEW g \in Fids
    PROVE  /\ g \notin S => Cardinality(S \cup {g}) = Cardinality(S) + 1
           /\ g \in S => Cardinality(S \ {g}) = Cardinality(S) - 1 /\ Cardinality(S) >= 1
  <1>1. IsFiniteSet(S) /\ Cardinality(S) \in Nat /\ Cardinality(S \ {g}) \in Nat
    BY FidsFinite, S \ {g} \in SUBSET Fids
  <1>2. Cardinality(S \cup {g}) = IF g \in S THEN Cardinality(S) ELSE Cardinality(S) + 1
    BY <1>1, FS_AddElement, Zenon
  <1>3. Cardinality(S \ {g}) = IF g \in S THEN Cardinality(S) - 1 ELSE Cardinality(S)
    BY <1>1, FS_RemoveElement, Zenon
  <1> QED
    BY <1>1, <1>2, <1>3

\* Fid g comes to session s.
LEMMA FidComes ==
    ASSUME XSessionAssumption, TypeOK, NEW g \in Fids, NEW s \in Sessions, NEW at,
           fid[g].s = NOSESSION, fid' = [fid EXCEPT ![g] = FidAt(at, s)]
    PROVE  /\ Cardinality(FidsOf(s)') = Cardinality(FidsOf(s)) + 1
           /\ Cardinality(DirFids(s)') = Cardinality(DirFids(s)) + One(at = "dir")
           /\ Cardinality(FidsOf(s)) \in Nat /\ Cardinality(DirFids(s)) \in Nat
  <1>0. PICK y : y = FidAt(at, s) /\ y.s = s /\ y.at = at
    <2>1. FidAt(at, s).s = s /\ FidAt(at, s).at = at
      BY DEF FidAt, NoFid
    <2> QED
      BY <2>1
  <1>1. FidsOf(s) \in SUBSET Fids /\ DirFids(s) \in SUBSET Fids
    BY DEF FidsOf, DirFids
  <1>2. g \notin FidsOf(s) /\ g \notin DirFids(s)
    BY DEF FidsOf, DirFids, XSessionAssumption
  <1>3. FidsOf(s)' = FidsOf(s) \cup {g}
    BY <1>0 DEF FidsOf, TypeOK
  <1>4. DirFids(s)' = IF at = "dir" THEN DirFids(s) \cup {g} ELSE DirFids(s)
    <2>1. CASE at = "dir"
      BY <1>0, <2>1 DEF FidsOf, DirFids, TypeOK
    <2>2. CASE at # "dir"
      BY <1>0, <1>2, <2>2 DEF FidsOf, DirFids, TypeOK, XSessionAssumption
    <2> QED
      BY <2>1, <2>2
  <1> QED
    BY <1>1, <1>2, <1>3, <1>4, OneFid, FidsFinite DEF One

\* Fid f leaves session s.
LEMMA FidLeaves ==
    ASSUME XSessionAssumption, TypeOK, NEW f \in Fids, NEW s \in Sessions,
           fid[f].s = s, fid' = [fid EXCEPT ![f] = NoFid]
    PROVE  /\ Cardinality(FidsOf(s)') = Cardinality(FidsOf(s)) - 1
           /\ Cardinality(DirFids(s)') = Cardinality(DirFids(s)) - One(fid[f].at = "dir")
           /\ Cardinality(FidsOf(s)) \in Nat /\ Cardinality(DirFids(s)) \in Nat
           /\ One(fid[f].at = "dir") <= Cardinality(DirFids(s)) /\ Cardinality(FidsOf(s)) >= 1
           /\ Cardinality(FidsOf(s)) = 1 =>
                 FidsOf(s)' = {} /\ Cardinality(DirFids(s)) = One(fid[f].at = "dir")
  <1>1. FidsOf(s) \in SUBSET Fids /\ DirFids(s) \in SUBSET Fids /\ FidsOf(s)' \in SUBSET Fids
    BY DEF FidsOf, DirFids
  <1>2. f \in FidsOf(s) /\ (f \in DirFids(s) <=> fid[f].at = "dir")
    BY DEF FidsOf, DirFids
  <1>3. FidsOf(s)' = FidsOf(s) \ {f}
    BY DEF FidsOf, TypeOK, NoFid, XSessionAssumption
  <1>4. DirFids(s)' = DirFids(s) \ {f}
    BY <1>3 DEF FidsOf, DirFids, TypeOK
  <1>5. /\ Cardinality(FidsOf(s)') = Cardinality(FidsOf(s)) - 1
        /\ Cardinality(FidsOf(s)) >= 1 /\ Cardinality(FidsOf(s)) \in Nat
        /\ Cardinality(DirFids(s)) \in Nat
    BY <1>1, <1>2, <1>3, OneFid, FidsFinite
  <1>6. /\ Cardinality(DirFids(s)') = Cardinality(DirFids(s)) - One(fid[f].at = "dir")
        /\ One(fid[f].at = "dir") <= Cardinality(DirFids(s))
    <2>1. CASE fid[f].at = "dir"
      BY <1>1, <1>2, <1>4, <1>5, <2>1, OneFid DEF One
    <2>2. CASE fid[f].at # "dir"
      <3>1. DirFids(s)' = DirFids(s)
        BY <1>2, <1>4, <2>2
      <3> QED
        BY <1>5, <2>2, <3>1 DEF One
    <2> QED
      BY <2>1, <2>2
  <1>7. ASSUME Cardinality(FidsOf(s)) = 1
        PROVE  FidsOf(s)' = {} /\ Cardinality(DirFids(s)) = One(fid[f].at = "dir")
    <2>1. Cardinality(FidsOf(s)') = 0
      BY <1>5, <1>7
    <2>2. IsFiniteSet(FidsOf(s)')
      BY <1>1, FidsFinite
    <2>3. FidsOf(s)' = {}
      BY <2>1, <2>2, FS_EmptySet, Zenon
    <2>4. DirFids(s)' = {}
      BY <2>3 DEF DirFids
    <2>5. Cardinality(DirFids(s)') = 0
      BY <2>4, FS_EmptySet
    <2> QED
      BY <1>5, <1>6, <2>3, <2>5 DEF One
  <1> QED
    BY <1>5, <1>6, <1>7

\* The fids of set C, which are not in the directory, leave session s.
LEMMA FidsLeave ==
    ASSUME XSessionAssumption, NEW s \in Sessions, NEW C \in SUBSET FidsOf(s),
           FidsOf(s)' = FidsOf(s) \ C, DirFids(s)' = DirFids(s)
    PROVE  /\ Cardinality(FidsOf(s)') = Cardinality(FidsOf(s)) - Cardinality(C)
           /\ Cardinality(FidsOf(s)) \in Nat /\ Cardinality(FidsOf(s)') \in Nat
           /\ Cardinality(DirFids(s)) \in Nat /\ Cardinality(C) \in Nat
           /\ Cardinality(FidsOf(s)') = 0 => FidsOf(s)' = {} /\ Cardinality(DirFids(s)) = 0
  <1>1. /\ FidsOf(s) \in SUBSET Fids /\ DirFids(s) \in SUBSET Fids
        /\ FidsOf(s)' \in SUBSET Fids /\ C \in SUBSET Fids /\ FidsOf(s) \cap C = C
    BY DEF FidsOf, DirFids
  <1>2. /\ IsFiniteSet(FidsOf(s)) /\ IsFiniteSet(FidsOf(s)') /\ Cardinality(FidsOf(s)) \in Nat
        /\ Cardinality(FidsOf(s)') \in Nat /\ Cardinality(DirFids(s)) \in Nat
        /\ Cardinality(C) \in Nat
    BY <1>1, FidsFinite
  <1>3. Cardinality(FidsOf(s) \ C) = Cardinality(FidsOf(s)) - Cardinality(FidsOf(s) \cap C)
    BY <1>2, FS_Difference
  <1>4. ASSUME Cardinality(FidsOf(s)') = 0
        PROVE  FidsOf(s)' = {} /\ Cardinality(DirFids(s)) = 0
    <2>1. FidsOf(s)' = {}
      BY <1>2, <1>4, FS_EmptySet, Zenon
    <2>2. DirFids(s)' = {}
      BY <2>1 DEF DirFids
    <2> QED
      BY <2>1, <2>2, FS_EmptySet
  <1> QED
    BY <1>1, <1>2, <1>3, <1>4

\* Only session s and its fids change, or fids that are in none.
Touches(s) ==
    \A f \in Fids :
        fid'[f] = fid[f] \/ {fid[f].s, fid'[f].s} \subseteq {s, NOSESSION}

\* What a step that touches one session has to keep for the invariant of the sessions.
LEMMA OneSession ==
    ASSUME XSessionAssumption, IInv, NEW s \in Sessions, NEW y, sess' = [sess EXCEPT ![s] = y],
           Touches(s), CountInv(s)', WaitInv(s)'
    PROVE  /\ sess' \in [Sessions -> Xsession]
           /\ \A t \in Sessions : CountInv(t)' /\ WaitInv(t)'
           /\ sess'[s] = y /\ \A t \in Sessions \ {s} : sess'[t] = sess[t]
  <1>1. /\ sess'[s] = y /\ \A t \in Sessions \ {s} : sess'[t] = sess[t]
    BY DEF IInv, TypeOK
  <1>2. y \in Xsession
    BY <1>1 DEF CountInv, Counted
  <1>3. sess' \in [Sessions -> Xsession]
    BY <1>2 DEF IInv, TypeOK
  <1>4. ASSUME NEW t \in Sessions, t # s
        PROVE  CountInv(t)' /\ WaitInv(t)'
    <2>1. \A f \in Fids : fid[f].s = t \/ fid'[f].s = t => fid'[f] = fid[f]
      BY <1>4 DEF Touches, XSessionAssumption
    <2>2. FidsOf(t)' = FidsOf(t)
      BY <2>1 DEF FidsOf
    <2>3. DirFids(t)' = DirFids(t)
      BY <2>1 DEF FidsOf, DirFids
    <2>4. {f \in FidsOf(t) : fid[f].req = "wait"}' = {f \in FidsOf(t) : fid[f].req = "wait"}
      BY <2>1 DEF FidsOf
    <2>5. sess'[t] = sess[t] /\ CountInv(t) /\ WaitInv(t)
      BY <1>1, <1>4 DEF IInv
    <2> QED
      BY <2>2, <2>3, <2>4, <2>5 DEF CountInv, WaitInv, NProcs
  <1> QED
    BY <1>1, <1>3, <1>4

\* A step of one session that leaves the processes alone.
LEMMA OneSessionStep ==
    ASSUME XSessionAssumption, IInv, NEW s \in Sessions, NEW y, sess' = [sess EXCEPT ![s] = y],
           Touches(s), CountInv(s)', WaitInv(s)',
           fid' \in [Fids -> Xfid], \A f \in Fids : FidOK(fid'[f]),
           y.pid = sess[s].pid, y.state \in {sess[s].state, "Wiped", "none"},
           termed' \subseteq Pids, UNCHANGED <<proc, owner, chld_fd, notify>>
    PROVE  IInv'
  <1>1. /\ sess' \in [Sessions -> Xsession]
        /\ \A t \in Sessions : CountInv(t)' /\ WaitInv(t)'
        /\ sess'[s] = y /\ \A t \in Sessions \ {s} : sess'[t] = sess[t]
    BY OneSession
  <1>2. TypeOK'
    BY <1>1 DEF IInv, TypeOK
  <1>3. \A t \in Sessions : /\ sess'[t].pid = sess[t].pid
                            /\ sess'[t].state \in {sess[t].state, "Wiped", "none"}
    BY <1>1
  <1>4. ProcInv'
    BY <1>3 DEF IInv, ProcInv
  <1> QED
    BY <1>1, <1>2, <1>4 DEF IInv

\* The values fids take.
LEMMA FidValues ==
    ASSUME XSessionAssumption
    PROVE  /\ FidOK(NoFid) /\ NoFid.s = NOSESSION /\ NoFid.req = "none"
           /\ FidOK(FidAt("root", NOSESSION)) /\ FidAt("root", NOSESSION).s = NOSESSION
           /\ \A s \in Sessions, at \in Places \cup {"clone"} :
                 /\ FidOK(FidAt(at, s)) /\ FidAt(at, s).s = s
                 /\ FidAt(at, s).req = "none" /\ FidAt(at, s).at = at
  <1>1. NoFid \in Xfid
    BY DEF NoFid, Xfid
  <1>2. FidOK(NoFid) /\ NoFid.s = NOSESSION /\ NoFid.req = "none"
    BY <1>1 DEF FidOK, NoFid
  <1>3. ASSUME NEW s \in Sessions \cup {NOSESSION}, NEW at \in Places \cup {"clone", "root"}
        PROVE  FidAt(at, s) = [at |-> at, s |-> s, req |-> "none", clunked |-> FALSE]
    <2>1. NoFid = [at |-> "none", s |-> NOSESSION, req |-> "none", clunked |-> FALSE]
      BY DEF NoFid
    <2>2. FidAt(at, s) = [NoFid EXCEPT !.at = at, !.s = s]
      BY DEF FidAt
    <2> QED
      BY <2>1, <2>2
  <1>4. FidOK(FidAt("root", NOSESSION)) /\ FidAt("root", NOSESSION).s = NOSESSION
    <2>1. PICK g : g = [at |-> "root", s |-> NOSESSION, req |-> "none", clunked |-> FALSE]
      OBVIOUS
    <2>2. g \in Xfid
      BY <2>1 DEF Xfid
    <2>3. FidOK(g) /\ g.s = NOSESSION
      BY <2>1, <2>2 DEF FidOK
    <2>4. FidAt("root", NOSESSION) = g
      BY <1>3, <2>1
    <2> QED
      BY <2>3, <2>4
  <1>5. ASSUME NEW s \in Sessions, NEW at \in Places \cup {"clone"}
        PROVE  /\ FidOK(FidAt(at, s)) /\ FidAt(at, s).s = s
               /\ FidAt(at, s).req = "none" /\ FidAt(at, s).at = at
    <2>1. PICK g : g = [at |-> at, s |-> s, req |-> "none", clunked |-> FALSE]
      OBVIOUS
    <2>2. g \in Xfid
      BY <2>1 DEF Xfid
    <2>3. s # NOSESSION /\ at \notin {"none", "root"}
      BY XSessionAssumption DEF Places
    <2>4. FidOK(g) /\ g.s = s /\ g.req = "none" /\ g.at = at
      BY <2>1, <2>2, <2>3 DEF FidOK
    <2>5. FidAt(at, s) = g
      BY <1>3, <2>1
    <2> QED
      BY <2>4, <2>5
  <1> QED
    BY <1>2, <1>4, <1>5

-----------------------------------------------------------------------------
(* The steps.                                                              *)

\* What the invariant says of session s.
LEMMA SessionFacts ==
    ASSUME XSessionAssumption, IInv, NEW s \in Sessions
    PROVE  /\ Cardinality(FidsOf(s)) \in Nat /\ Cardinality(DirFids(s)) \in Nat
           /\ NProcs(sess[s]) \in {0, 1}
           /\ Counted(sess[s], Cardinality(FidsOf(s)) + NProcs(sess[s]), Cardinality(DirFids(s)))
           /\ Exists(s) => Cardinality(FidsOf(s)) + NProcs(sess[s]) # 0
           /\ FidsOf(s) # {} => Cardinality(FidsOf(s)) # 0
           /\ sess[s].state = "Running" => NProcs(sess[s]) = 1
  <1>1. FidsOf(s) \in SUBSET Fids /\ DirFids(s) \in SUBSET Fids
    BY DEF FidsOf, DirFids
  <1>2. /\ IsFiniteSet(FidsOf(s)) /\ Cardinality(FidsOf(s)) \in Nat
        /\ Cardinality(DirFids(s)) \in Nat
    BY <1>1, FidsFinite
  <1>3. Counted(sess[s], Cardinality(FidsOf(s)) + NProcs(sess[s]), Cardinality(DirFids(s)))
    BY DEF IInv, CountInv
  <1>4. Exists(s) => Cardinality(FidsOf(s)) + NProcs(sess[s]) # 0
    BY <1>3 DEF Counted, Exists, NoSession
  <1>5. FidsOf(s) # {} => Cardinality(FidsOf(s)) # 0
    BY <1>2, FS_EmptySet, Zenon
  <1>6. NProcs(sess[s]) \in {0, 1} /\ (sess[s].state = "Running" => NProcs(sess[s]) = 1)
    BY DEF NProcs, IInv, ProcInv
  <1> QED
    BY <1>2, <1>3, <1>4, <1>5, <1>6

\* Fid f of the root directory comes or goes.
LEMMA RootStep ==
    ASSUME XSessionAssumption, IInv, NEW f \in Fids, NEW y, FidOK(y), y.s = NOSESSION,
           fid[f].s = NOSESSION, fid' = [fid EXCEPT ![f] = y],
           UNCHANGED <<sess, proc, owner, termed, chld_fd, notify>>
    PROVE  IInv'
  <1>1. y \in Xfid /\ fid' \in [Fids -> Xfid] /\ \A g \in Fids : FidOK(fid'[g])
    BY DEF IInv, TypeOK, FidOK
  <1>2. TypeOK'
    BY <1>1 DEF IInv, TypeOK
  <1>3. ProcInv'
    BY DEF IInv, ProcInv
  <1>4. ASSUME NEW t \in Sessions
        PROVE  CountInv(t)' /\ WaitInv(t)'
    <2>1. \A g \in Fids : fid[g].s = t \/ fid'[g].s = t => fid'[g] = fid[g]
      BY DEF XSessionAssumption, IInv, TypeOK
    <2>2. FidsOf(t)' = FidsOf(t)
      BY <2>1 DEF FidsOf
    <2>3. DirFids(t)' = DirFids(t)
      BY <2>1 DEF FidsOf, DirFids
    <2>4. {g \in FidsOf(t) : fid[g].req = "wait"}' = {g \in FidsOf(t) : fid[g].req = "wait"}
      BY <2>1 DEF FidsOf
    <2> QED
      BY <2>2, <2>3, <2>4 DEF IInv, CountInv, WaitInv, NProcs
  <1> QED
    BY <1>1, <1>2, <1>3, <1>4 DEF IInv

\* A new fid g comes to a place of session s, whose count goes up.
LEMMA ComeStep ==
    ASSUME XSessionAssumption, IInv, NEW g \in Fids, NEW s \in Sessions, NEW x,
           NEW at \in Places \cup {"clone"},
           fid[g].s = NOSESSION, fid' = [fid EXCEPT ![g] = FidAt(at, s)],
           sess' = [sess EXCEPT ![s] = x],
           Counted(x, Cardinality(FidsOf(s)) + NProcs(sess[s]) + 1,
                   Cardinality(DirFids(s)) + One(at = "dir")),
           x.pid = sess[s].pid, x.waitreqs = sess[s].waitreqs, x.state # "none",
           x.state = sess[s].state \/ x.waitreqs = {},
           termed' \subseteq Pids, UNCHANGED <<proc, owner, chld_fd, notify>>
    PROVE  /\ CountInv(s)' /\ WaitInv(s)' /\ Touches(s)
           /\ fid' \in [Fids -> Xfid] /\ \A f \in Fids : FidOK(fid'[f])
  <1>0. PICK y : y = FidAt(at, s)
    OBVIOUS
  <1>1. FidOK(y) /\ y.s = s /\ y.req = "none" /\ y.at = at /\ y \in Xfid
    BY <1>0, FidValues DEF FidOK
  <1>2. fid' = [fid EXCEPT ![g] = y]
    BY <1>0
  <1>3. /\ Cardinality(FidsOf(s)') = Cardinality(FidsOf(s)) + 1
        /\ Cardinality(DirFids(s)') = Cardinality(DirFids(s)) + One(at = "dir")
        /\ Cardinality(FidsOf(s)) \in Nat
    <2>1. TypeOK
      BY DEF IInv
    <2> QED
      BY <2>1, FidComes
  <1>4. sess'[s] = x /\ NProcs(x) = NProcs(sess[s]) /\ NProcs(x) \in {0, 1}
    BY DEF IInv, TypeOK, NProcs
  <1>5. CountInv(s)'
    BY <1>3, <1>4 DEF CountInv, NProcs
  <1>6. {f \in FidsOf(s) : fid[f].req = "wait"}' = {f \in FidsOf(s) : fid[f].req = "wait"}
    BY <1>1, <1>2 DEF FidsOf, IInv, TypeOK, XSessionAssumption
  <1>7. WaitInv(s)'
    BY <1>4, <1>6 DEF WaitInv, IInv
  <1>8. Touches(s)
    BY <1>1, <1>2 DEF Touches, IInv, TypeOK
  <1>9. fid' \in [Fids -> Xfid] /\ \A f \in Fids : FidOK(fid'[f])
    BY <1>1, <1>2 DEF IInv, TypeOK
  <1> QED
    BY <1>5, <1>7, <1>8, <1>9

\* A fid that is not used, or is at the root, is in no session.
LEMMA Outside ==
    ASSUME XSessionAssumption, IInv, NEW f \in Fids
    PROVE  /\ fid[f] = NoFid \/ fid[f].at = "root" => fid[f].s = NOSESSION
           /\ fid[f].at \in Places \cup {"clone"} => fid[f].s \in Sessions
           /\ fid[f].s = NOSESSION => fid[f].at \in {"none", "root"}
  <1>1. FidOK(fid[f])
    BY DEF IInv
  <1> QED
    BY <1>1 DEF FidOK, Xfid, Places, NoFid

\* A client attaches: its fid is at the root.
LEMMA Step_attach ==
    ASSUME XSessionAssumption, IInv, NEW f \in Fids, attach(f)
    PROVE  IInv'
  BY RootStep, FidValues, Outside DEF attach

\* A session is created, and its first reference is the fid of "clone".
LEMMA Step_clone_openfid ==
    ASSUME XSessionAssumption, IInv, NEW f \in Fids, NEW s \in Sessions, clone_openfid(f, s)
    PROVE  IInv'
  <1>1. fid[f].s = NOSESSION
    BY Outside DEF clone_openfid
  <1>2. sess[s] = NoSession /\ sess[s].pid = NOPID /\ sess[s].waitreqs = {}
    BY DEF clone_openfid, NoSession
  <1>3. Cardinality(FidsOf(s)) + NProcs(sess[s]) = 0 /\ Cardinality(DirFids(s)) = 0
    <2>1. Counted(NoSession, Cardinality(FidsOf(s)) + NProcs(sess[s]), Cardinality(DirFids(s)))
      BY <1>2, SessionFacts
    <2> QED
      BY <2>1 DEF Counted, NoSession
  <1> DEFINE x == session_create
  <1>4. /\ Counted(x, 1, 0) /\ x.state = "Initializing"
        /\ x.pid = NOPID /\ x.waitreqs = {}
    BY CreateCounted
  <1>5. sess' = [sess EXCEPT ![s] = x] /\ fid' = [fid EXCEPT ![f] = FidAt("clone", s)]
        /\ UNCHANGED <<proc, owner, termed, chld_fd, notify>>
    BY DEF clone_openfid
  <1> HIDE DEF x
  <1>6. /\ CountInv(s)' /\ WaitInv(s)' /\ Touches(s)
        /\ fid' \in [Fids -> Xfid] /\ \A g \in Fids : FidOK(fid'[g])
    <2>1. Cardinality(FidsOf(s)) + NProcs(sess[s]) + 1 = 1
          /\ Cardinality(DirFids(s)) + One("clone" = "dir") = 0
      BY <1>3 DEF One
    <2>2. termed' \subseteq Pids
      BY <1>5 DEF IInv, TypeOK
    <2> QED
      BY <1>1, <1>2, <1>4, <1>5, <2>1, <2>2, ComeStep
  <1>7. /\ sess' \in [Sessions -> Xsession]
        /\ \A t \in Sessions : CountInv(t)' /\ WaitInv(t)'
        /\ sess'[s] = x /\ \A t \in Sessions \ {s} : sess'[t] = sess[t]
    BY <1>5, <1>6, OneSession
  <1>8. TypeOK'
    BY <1>5, <1>6, <1>7 DEF IInv, TypeOK
  <1>9. ProcInv'
    BY <1>2, <1>4, <1>5, <1>7 DEF IInv, ProcInv
  <1> QED
    BY <1>6, <1>7, <1>8, <1>9 DEF IInv

\* A walk from the root adds a fid to a session.
LEMMA Step_WalkFromRoot ==
    ASSUME XSessionAssumption, IInv, NEW f \in Fids, NEW g \in Fids, NEW s \in Sessions,
           NEW at \in Places, WalkFromRoot(f, g, s, at)
    PROVE  IInv'
  <1> DEFINE n == Cardinality(FidsOf(s)) + NProcs(sess[s])
             d == Cardinality(DirFids(s))
             x == WalkTo(Ref(sess[s], "dir"), at)
  <1>1. /\ fid[g].s = NOSESSION /\ Exists(s) /\ fid' = [fid EXCEPT ![g] = FidAt(at, s)]
        /\ sess' = [sess EXCEPT ![s] = Settled(x)]
        /\ UNCHANGED <<proc, owner, termed, chld_fd, notify>>
    BY Outside DEF WalkFromRoot, SetSession
  <1>2. n \in Nat /\ d \in Nat /\ Counted(sess[s], n, d) /\ n # 0
    BY <1>1, SessionFacts
  <1>3. /\ Counted(x, n + 1, d + One(at = "dir"))
        /\ x.state = sess[s].state /\ x.pid = sess[s].pid /\ x.waitreqs = sess[s].waitreqs
    <2> HIDE DEF n, d
    <2> QED
      BY <1>2, WalkCounted
  <1>4. Settled(x) = x /\ x.state # "none"
    <2>1. n + 1 \in Nat /\ d + One(at = "dir") \in Nat
      BY <1>2 DEF One
    <2>2. sess[s].state # "none"
      BY <1>1 DEF Exists
    <2> HIDE DEF x, n, d
    <2> QED
      BY <1>3, <2>1, <2>2, CountedSettled
  <1>5. termed' \subseteq Pids
    BY <1>1 DEF IInv, TypeOK
  <1> HIDE DEF x
  <1>6. /\ CountInv(s)' /\ WaitInv(s)' /\ Touches(s)
        /\ fid' \in [Fids -> Xfid] /\ \A h \in Fids : FidOK(fid'[h])
    BY <1>1, <1>3, <1>4, <1>5, ComeStep
  <1> QED
    BY <1>1, <1>3, <1>4, <1>5, <1>6, OneSessionStep

\* A walk from a fid of a session adds a fid to it.
LEMMA Step_WalkFromSession ==
    ASSUME XSessionAssumption, IInv, NEW f \in Fids, NEW g \in Fids,
           NEW at \in Places, WalkFromSession(f, g, at)
    PROVE  IInv'
  <1>s. PICK s \in Sessions : s = fid[f].s
    BY Outside DEF WalkFromSession
  <1> DEFINE n == Cardinality(FidsOf(s)) + NProcs(sess[s])
             d == Cardinality(DirFids(s))
             x == IF at = fid[f].at THEN Ref(sess[s], fid[f].at)
                  ELSE WalkTo(Ref(sess[s], fid[f].at), at)
  <1>0. f \in FidsOf(s)
    BY <1>s DEF FidsOf
  <1>1. /\ fid[g].s = NOSESSION /\ fid' = [fid EXCEPT ![g] = FidAt(at, s)]
        /\ sess' = [sess EXCEPT ![s] = Settled(x)]
        /\ at = fid[f].at \/ fid[f].at = "dir"
        /\ UNCHANGED <<proc, owner, termed, chld_fd, notify>>
    BY <1>s, Outside DEF WalkFromSession, SetSession
  <1>2. n \in Nat /\ d \in Nat /\ Counted(sess[s], n, d) /\ n # 0
    BY <1>0, SessionFacts
  <1>3. /\ Counted(x, n + 1, d + One(at = "dir"))
        /\ x.state = sess[s].state /\ x.pid = sess[s].pid /\ x.waitreqs = sess[s].waitreqs
    <2> HIDE DEF n, d
    <2>1. CASE at = fid[f].at
      BY <1>2, <2>1, RefCounted
    <2>2. CASE at # fid[f].at
      <3>1. x = WalkTo(Ref(sess[s], "dir"), at)
        BY <1>1, <2>2
      <3> QED
        BY <1>2, <3>1, WalkCounted
    <2> QED
      BY <2>1, <2>2
  <1>4. Settled(x) = x /\ x.state # "none"
    <2>1. n + 1 \in Nat /\ d + One(at = "dir") \in Nat
      BY <1>2 DEF One
    <2>2. sess[s].state # "none"
      BY <1>2, CountedFields
    <2> HIDE DEF x, n, d
    <2> QED
      BY <1>3, <2>1, <2>2, CountedSettled
  <1>5. termed' \subseteq Pids
    BY <1>1 DEF IInv, TypeOK
  <1> HIDE DEF x
  <1>6. /\ CountInv(s)' /\ WaitInv(s)' /\ Touches(s)
        /\ fid' \in [Fids -> Xfid] /\ \A h \in Fids : FidOK(fid'[h])
    BY <1>0, <1>1, <1>3, <1>4, <1>5, ComeStep
  <1> QED
    BY <1>0, <1>1, <1>3, <1>4, <1>5, <1>6, OneSessionStep

\* Fid f leaves session s, with a read of "wait" if it has one.
LEMMA LeaveStep ==
    ASSUME XSessionAssumption, IInv, NEW f \in Fids, NEW s \in Sessions, NEW x,
           fid[f].s = s, fid' = [fid EXCEPT ![f] = NoFid],
           Counted(x, Cardinality(FidsOf(s)) + NProcs(sess[s]), Cardinality(DirFids(s))),
           x.state = sess[s].state, x.pid = sess[s].pid,
           x.waitreqs = sess[s].waitreqs \ {f},
           sess' = [sess EXCEPT ![s] = Settled(Unref(x, fid[f].at))],
           termed' \subseteq Pids, UNCHANGED <<proc, owner, chld_fd, notify>>
    PROVE  IInv'
  <1>0. PICK at : at = fid[f].at
    OBVIOUS
  <1> DEFINE n == Cardinality(FidsOf(s)) + NProcs(sess[s])
             d == Cardinality(DirFids(s))
  <1>1. /\ Cardinality(FidsOf(s)') = Cardinality(FidsOf(s)) - 1
        /\ Cardinality(DirFids(s)') = d - One(at = "dir")
        /\ Cardinality(FidsOf(s)) \in Nat /\ d \in Nat
        /\ One(at = "dir") <= d /\ Cardinality(FidsOf(s)) >= 1
        /\ Cardinality(FidsOf(s)) = 1 => FidsOf(s)' = {} /\ d = One(at = "dir")
    BY <1>0, FidLeaves DEF IInv
  <1>2. NProcs(sess[s]) \in {0, 1} /\ (sess[s].state = "Running" => NProcs(sess[s]) = 1)
    BY SessionFacts
  <1>3. Touches(s) /\ fid' \in [Fids -> Xfid] /\ \A g \in Fids : FidOK(fid'[g])
    <2>1. FidOK(NoFid) /\ NoFid.s = NOSESSION /\ NoFid \in Xfid
      BY FidValues DEF FidOK
    <2> QED
      BY <2>1 DEF Touches, IInv, TypeOK
  <1>4. {g \in FidsOf(s) : fid[g].req = "wait"}' = x.waitreqs
    <2>1. NoFid.req = "none"
      BY FidValues
    <2>2. sess[s].waitreqs = {g \in FidsOf(s) : fid[g].req = "wait"}
      BY DEF IInv, WaitInv
    <2>3. FidsOf(s)' = FidsOf(s) \ {f}
      BY DEF FidsOf, IInv, TypeOK, NoFid, XSessionAssumption
    <2> QED
      BY <2>1, <2>2, <2>3 DEF IInv, TypeOK, FidsOf
  <1>5. PICK y : y = Settled(Unref(x, at))
    OBVIOUS
  <1>6. sess' = [sess EXCEPT ![s] = y] /\ sess'[s] = y
    BY <1>0, <1>5 DEF IInv, TypeOK
  <1>7. CASE n > 1
    <2>1. n \in Nat
      BY <1>1, <1>2
    <2>2. /\ Counted(Unref(x, at), n - 1, d - One(at = "dir"))
          /\ Unref(x, at).state = x.state /\ Unref(x, at).pid = x.pid
          /\ Unref(x, at).waitreqs = x.waitreqs
      <3>1. Counted(x, n, d) /\ d \in Nat /\ One(at = "dir") <= d
        BY <1>1
      <3> HIDE DEF n, d
      <3> QED
        BY <1>7, <2>1, <3>1, UnrefCounted
    <2>3. n - 1 \in Nat /\ d - One(at = "dir") \in Nat
      BY <1>1, <1>7, <2>1 DEF One
    <2>4. y = Unref(x, at)
      BY <1>5, <2>2, <2>3, CountedSettled
    <2>5. NProcs(y) = NProcs(sess[s])
      BY <2>2, <2>4 DEF NProcs
    <2>6. CountInv(s)'
      BY <1>1, <1>2, <1>6, <2>2, <2>4, <2>5 DEF CountInv, NProcs
    <2>7. WaitInv(s)'
      BY <1>4, <1>6, <2>2, <2>4 DEF WaitInv, IInv
    <2> QED
      BY <1>3, <1>6, <2>2, <2>4, <2>6, <2>7, OneSessionStep
  <1>8. CASE ~(n > 1)
    <2>1. /\ n = 1 /\ Cardinality(FidsOf(s)) = 1 /\ NProcs(sess[s]) = 0
          /\ x.state # "Running" /\ x.pid = NOPID /\ d = One(at = "dir")
      BY <1>1, <1>2, <1>8 DEF NProcs
    <2>2. y = NoSession
      BY <1>5, <2>1, LastUnref
    <2>3. /\ NoSession.pid = NOPID /\ NoSession.waitreqs = {} /\ NoSession.state = "none"
          /\ NoSession.mode = "Normal" /\ NoSession \in Xsession
      BY DEF NoSession, Xsession
    <2>4. FidsOf(s)' = {} /\ Cardinality(FidsOf(s)') = 0 /\ Cardinality(DirFids(s)') = 0
      BY <1>1, <2>1 DEF One
    <2>5. CountInv(s)'
      BY <1>6, <2>2, <2>3, <2>4 DEF CountInv, Counted, NProcs
    <2>6. WaitInv(s)'
      BY <1>6, <2>2, <2>3, <2>4 DEF WaitInv
    <2>7. y.pid = sess[s].pid /\ y.state = "none"
      BY <2>1, <2>2, <2>3
    <2> QED
      BY <1>3, <1>6, <2>5, <2>6, <2>7, OneSessionStep
  <1> QED
    BY <1>7, <1>8

\* SIGTERM is sent to processes.
LEMMA KillsType ==
    ASSUME IInv, NEW s \in Sessions, NEW x, Kills(s, x)
    PROVE  termed' \subseteq Pids
  BY DEF IInv, TypeOK, Xsession, Kills

\* Only a fid of session s changes, and stays where it is.
LEMMA StayStep ==
    ASSUME XSessionAssumption, IInv, NEW f \in Fids, NEW s \in Sessions, NEW x, NEW g,
           fid[f].s = s, FidOK(g), g.s = s, g.at = fid[f].at, fid' = [fid EXCEPT ![f] = g],
           sess' = [sess EXCEPT ![s] = x],
           Counted(x, Cardinality(FidsOf(s)) + NProcs(sess[s]), Cardinality(DirFids(s))),
           x.pid = sess[s].pid, x.state = sess[s].state,
           g.req = "wait" => x.waitreqs = sess[s].waitreqs \cup {f},
           g.req # "wait" => x.waitreqs = sess[s].waitreqs \ {f},
           g.req = "wait" => x.state \in {"Initializing", "Running"},
           termed' \subseteq Pids, UNCHANGED <<proc, owner, chld_fd, notify>>
    PROVE  IInv'
  <1>1. \A h \in Fids : fid'[h].s = fid[h].s /\ fid'[h].at = fid[h].at
    BY DEF IInv, TypeOK
  <1>2. FidsOf(s)' = FidsOf(s) /\ DirFids(s)' = DirFids(s)
    BY <1>1 DEF FidsOf, DirFids
  <1>3. sess'[s] = x
    BY DEF IInv, TypeOK
  <1>4. CountInv(s)'
    BY <1>2, <1>3 DEF CountInv, NProcs
  <1>5. {h \in FidsOf(s) : fid[h].req = "wait"}' = x.waitreqs
    <2>1. sess[s].waitreqs = {h \in FidsOf(s) : fid[h].req = "wait"} /\ f \in FidsOf(s)
      BY DEF IInv, WaitInv, FidsOf
    <2>2. FidsOf(s) \subseteq Fids
      BY DEF FidsOf
    <2> QED
      BY <1>2, <2>1, <2>2 DEF IInv, TypeOK
  <1>6. WaitInv(s)'
    BY <1>3, <1>5 DEF WaitInv, IInv
  <1>7. Touches(s) /\ fid' \in [Fids -> Xfid] /\ \A h \in Fids : FidOK(fid'[h])
    BY DEF Touches, IInv, TypeOK, FidOK
  <1> QED
    BY <1>3, <1>4, <1>6, <1>7, OneSessionStep

\* A fid of session s: what the invariant says of both.
LEMMA FidFacts ==
    ASSUME XSessionAssumption, IInv, NEW f \in Fids, NEW s \in Sessions, fid[f].s = s
    PROVE  /\ FidOK(fid[f]) /\ f \in FidsOf(s)
           /\ f \in sess[s].waitreqs <=> fid[f].req = "wait"
           /\ fid[f].req = "wait" => sess[s].state \in {"Initializing", "Running"}
           /\ sess[s].state \in {"Initializing", "Running", "Finished", "Wiped"}
           /\ sess[s] \in Xsession
           /\ Cardinality(FidsOf(s)) + NProcs(sess[s]) \in Nat
           /\ Cardinality(FidsOf(s)) + NProcs(sess[s]) # 0
           /\ Cardinality(DirFids(s)) \in Nat
           /\ Counted(sess[s], Cardinality(FidsOf(s)) + NProcs(sess[s]), Cardinality(DirFids(s)))
  <1>1. FidOK(fid[f]) /\ f \in FidsOf(s) /\ WaitInv(s)
    BY DEF IInv, FidsOf
  <1> DEFINE n == Cardinality(FidsOf(s)) + NProcs(sess[s])
  <1>2. /\ n \in Nat /\ n # 0 /\ Cardinality(DirFids(s)) \in Nat
        /\ Counted(sess[s], n, Cardinality(DirFids(s)))
    BY <1>1, SessionFacts
  <1>3. /\ sess[s].state \in {"Initializing", "Running", "Finished", "Wiped"}
        /\ sess[s] \in Xsession
    <2> HIDE DEF n
    <2> QED
      BY <1>2, CountedFields
  <1> QED
    BY <1>1, <1>2, <1>3 DEF WaitInv

\* What a session is asked for does not count.
LEMMA SameCounts ==
    ASSUME XSessionAssumption, IInv, NEW s \in Sessions, NEW x \in Xsession,
           sess[s].state # "none", x.mode = "Normal", x.state = sess[s].state,
           x.refcount = sess[s].refcount, x.sref = sess[s].sref, x.listed = sess[s].listed
    PROVE  Counted(x, Cardinality(FidsOf(s)) + NProcs(sess[s]), Cardinality(DirFids(s)))
  <1>1. Counted(sess[s], Cardinality(FidsOf(s)) + NProcs(sess[s]), Cardinality(DirFids(s)))
    BY SessionFacts
  <1>2. sess[s] # NoSession
    BY DEF NoSession
  <1> QED
    BY <1>1, <1>2 DEF Counted

\* A fid is clunked: it leaves its session, or waits for the answer to its read.
LEMMA Step_clunk ==
    ASSUME XSessionAssumption, IInv, NEW f \in Fids, clunk(f)
    PROVE  IInv'
  <1>0. UNCHANGED <<proc, owner, chld_fd, notify>>
    BY DEF clunk
  <1>1. CASE /\ fid[f].at = "root" /\ fid' = [fid EXCEPT ![f] = NoFid]
             /\ UNCHANGED <<sess, termed>>
    BY <1>0, <1>1, RootStep, FidValues, Outside
  <1>2. ASSUME fid[f].at \notin {"none", "root"}
        PROVE  fid[f].s \in Sessions
    BY <1>2 DEF IInv, TypeOK, Xfid, FidOK
  <1>3. CASE fid[f].at \notin {"none", "root"} /\ fid[f].req = "none" /\ Leave(f)
    <2>1. PICK s \in Sessions : s = fid[f].s
      BY <1>2, <1>3
    <2>2. /\ sess' = [sess EXCEPT ![s] = Settled(Unref(sess[s], fid[f].at))]
          /\ fid' = [fid EXCEPT ![f] = NoFid]
          /\ Kills(s, Settled(Unref(sess[s], fid[f].at)))
      BY <1>3, <2>1 DEF Leave, SetSession
    <2>3. termed' \subseteq Pids
      BY <2>2, KillsType
    <2>4. PICK x : x = sess[s]
      OBVIOUS
    <2>5. /\ Counted(x, Cardinality(FidsOf(s)) + NProcs(sess[s]), Cardinality(DirFids(s)))
          /\ x.waitreqs = sess[s].waitreqs \ {f}
      BY <1>3, <2>1, <2>4, FidFacts
    <2>6. sess' = [sess EXCEPT ![s] = Settled(Unref(x, fid[f].at))]
      BY <2>2, <2>4
    <2> QED
      BY <1>0, <2>1, <2>2, <2>3, <2>4, <2>5, <2>6, LeaveStep
  <1>4. CASE /\ fid[f].at # "none" /\ fid[f].req = "wait"
             /\ fid' = [fid EXCEPT ![f].clunked = TRUE] /\ UNCHANGED <<sess, termed>>
    <2>0. FidOK(fid[f]) /\ fid[f].at = "wait"
      BY <1>4 DEF IInv, FidOK
    <2>1. PICK s \in Sessions : s = fid[f].s
      BY <1>2, <2>0
    <2>2. PICK g : g = [fid[f] EXCEPT !.clunked = TRUE]
      OBVIOUS
    <2>3. FidOK(g) /\ g.s = s /\ g.at = fid[f].at /\ g.req = "wait"
      BY <1>4, <2>0, <2>1, <2>2 DEF FidOK, Xfid
    <2>4. fid' = [fid EXCEPT ![f] = g]
      BY <1>4, <2>2
    <2>5. PICK x : x = sess[s]
      OBVIOUS
    <2>6. sess' = [sess EXCEPT ![s] = x]
      BY <1>4, <2>5 DEF IInv, TypeOK
    <2>7. /\ Counted(x, Cardinality(FidsOf(s)) + NProcs(sess[s]), Cardinality(DirFids(s)))
          /\ x.waitreqs = sess[s].waitreqs \cup {f} /\ x.state \in {"Initializing", "Running"}
      BY <1>4, <2>1, <2>5, FidFacts
    <2>8. termed' \subseteq Pids
      BY <1>4 DEF IInv, TypeOK
    <2> QED
      BY <1>0, <2>1, <2>3, <2>4, <2>5, <2>6, <2>7, <2>8, StayStep
  <1> QED
    BY <1>1, <1>3, <1>4 DEF clunk

\* A read of "wait" is queued.
LEMMA Step_wait_read ==
    ASSUME XSessionAssumption, IInv, NEW f \in Fids, wait_read(f)
    PROVE  IInv'
  <1>0. fid[f].at = "wait" /\ FidOK(fid[f])
    BY DEF wait_read, IInv
  <1>1. PICK s \in Sessions : s = fid[f].s
    BY <1>0, Outside DEF Places
  <1>2. PICK g : g = [fid[f] EXCEPT !.req = "wait"]
    OBVIOUS
  <1>3. PICK x : x = [sess[s] EXCEPT !.waitreqs = @ \cup {f}]
    OBVIOUS
  <1>4. /\ sess' = [sess EXCEPT ![s] = x] /\ fid' = [fid EXCEPT ![f] = g]
        /\ sess[s].state \notin {"Finished", "Wiped"}
        /\ UNCHANGED <<proc, owner, termed, chld_fd, notify>>
    BY <1>1, <1>2, <1>3 DEF wait_read, Waits
  <1>5. FidOK(g) /\ g.s = s /\ g.at = fid[f].at /\ g.req = "wait"
    BY <1>0, <1>1, <1>2 DEF FidOK, Xfid, NoFid
  <1>6. sess[s] \in Xsession /\ sess[s].mode = "Normal"
        /\ sess[s].state \in {"Initializing", "Running"}
    BY <1>1, <1>4, FidFacts DEF Counted
  <1>7. /\ x \in Xsession /\ x.mode = "Normal" /\ x.state = sess[s].state
        /\ x.refcount = sess[s].refcount /\ x.sref = sess[s].sref
        /\ x.listed = sess[s].listed /\ x.pid = sess[s].pid
        /\ x.waitreqs = sess[s].waitreqs \cup {f}
    BY <1>3, <1>6 DEF Xsession
  <1>8. Counted(x, Cardinality(FidsOf(s)) + NProcs(sess[s]), Cardinality(DirFids(s)))
    BY <1>6, <1>7, SameCounts
  <1>9. x.state \in {"Initializing", "Running"} /\ termed' \subseteq Pids
    BY <1>4, <1>6, <1>7 DEF IInv, TypeOK
  <1> QED
    BY <1>1, <1>4, <1>5, <1>7, <1>8, <1>9, StayStep

\* A read of "wait" is flushed; a fid that was clunked leaves with it.
LEMMA Step_wait_flush ==
    ASSUME XSessionAssumption, IInv, NEW f \in Fids, wait_flush(f)
    PROVE  IInv'
  <1>0. FidOK(fid[f]) /\ fid[f].at = "wait" /\ fid[f].req = "wait"
    BY DEF wait_flush, IInv, FidOK
  <1>1. PICK s \in Sessions : s = fid[f].s
    BY <1>0, Outside DEF Places
  <1>2. PICK x : x = [sess[s] EXCEPT !.waitreqs = @ \ {f}]
    OBVIOUS
  <1>3. PICK y : y = IF fid[f].clunked THEN Unref(x, "wait") ELSE x
    OBVIOUS
  <1>4. /\ sess' = [sess EXCEPT ![s] = Settled(y)] /\ Kills(s, Settled(y))
        /\ fid' = [fid EXCEPT ![f] = FidAnswered(fid[f])]
        /\ UNCHANGED <<proc, owner, chld_fd, notify>>
    BY <1>1, <1>2, <1>3 DEF wait_flush, SetSession
  <1>5. termed' \subseteq Pids /\ UNCHANGED <<proc, owner, chld_fd, notify>>
    BY <1>4, KillsType
  <1>6. sess[s] \in Xsession /\ sess[s].mode = "Normal"
        /\ sess[s].state \in {"Initializing", "Running"}
    BY <1>0, <1>1, FidFacts DEF Counted
  <1>7. /\ x \in Xsession /\ x.mode = "Normal" /\ x.state = sess[s].state
        /\ x.refcount = sess[s].refcount /\ x.sref = sess[s].sref
        /\ x.listed = sess[s].listed /\ x.pid = sess[s].pid
        /\ x.waitreqs = sess[s].waitreqs \ {f}
    BY <1>2, <1>6 DEF Xsession
  <1>8. Counted(x, Cardinality(FidsOf(s)) + NProcs(sess[s]), Cardinality(DirFids(s)))
    BY <1>6, <1>7, SameCounts
  <1>9. CASE fid[f].clunked
    <2>1. /\ fid' = [fid EXCEPT ![f] = NoFid]
          /\ sess' = [sess EXCEPT ![s] = Settled(Unref(x, fid[f].at))]
      BY <1>0, <1>3, <1>4, <1>9 DEF FidAnswered
    <2>2. x.state = sess[s].state /\ x.pid = sess[s].pid /\ x.waitreqs = sess[s].waitreqs \ {f}
      BY <1>7
    <2>3. fid[f].s = s
      BY <1>1
    <2> QED
      BY <1>5, <1>8, <2>1, <2>2, <2>3, LeaveStep, Zenon
  <1>10. CASE ~fid[f].clunked
    <2>1. PICK g : g = [fid[f] EXCEPT !.req = "none"]
      OBVIOUS
    <2>2. FidOK(g) /\ g.s = s /\ g.at = fid[f].at /\ g.req = "none"
      BY <1>0, <1>1, <1>10, <2>1 DEF FidOK, Xfid, NoFid
    <2>3. fid' = [fid EXCEPT ![f] = g]
      BY <1>4, <1>10, <2>1 DEF FidAnswered
    <2>4. Settled(y) = x
      BY <1>1, <1>3, <1>8, <1>10, FidFacts, CountedSettled
    <2>5. sess' = [sess EXCEPT ![s] = x]
      BY <1>4, <2>4
    <2> QED
      BY <1>1, <1>5, <1>7, <1>8, <2>2, <2>3, <2>5, StayStep
  <1> QED
    BY <1>9, <1>10

\* A write to "ctl" is flushed.
LEMMA Step_sctl_flush ==
    ASSUME XSessionAssumption, IInv, NEW f \in Fids, sctl_flush(f)
    PROVE  IInv'
  <1>0. FidOK(fid[f]) /\ fid[f].at = "ctl" /\ fid[f].req = "ctl" /\ ~fid[f].clunked
    BY DEF sctl_flush, IInv, FidOK
  <1>1. PICK s \in Sessions : s = fid[f].s
    BY <1>0, Outside DEF Places
  <1>2. PICK g : g = [fid[f] EXCEPT !.req = "none"]
    OBVIOUS
  <1>3. FidOK(g) /\ g.s = s /\ g.at = fid[f].at /\ g.req = "none"
    BY <1>0, <1>1, <1>2 DEF FidOK, Xfid, NoFid
  <1>4. PICK x : x = sess[s]
    OBVIOUS
  <1>5. /\ sess' = [sess EXCEPT ![s] = x] /\ fid' = [fid EXCEPT ![f] = g]
        /\ termed' \subseteq Pids /\ UNCHANGED <<proc, owner, chld_fd, notify>>
    BY <1>2, <1>4 DEF sctl_flush, IInv, TypeOK
  <1>6. /\ Counted(x, Cardinality(FidsOf(s)) + NProcs(sess[s]), Cardinality(DirFids(s)))
        /\ x.waitreqs = sess[s].waitreqs \ {f}
    BY <1>0, <1>1, <1>4, FidFacts
  <1> QED
    BY <1>1, <1>3, <1>4, <1>5, <1>6, StayStep

\* A fid that may write to "ctl"
LEMMA CtlFacts ==
    ASSUME XSessionAssumption, IInv, NEW f \in Fids, sctl_write(f)
    PROVE  /\ FidOK(fid[f]) /\ fid[f].at = "ctl" /\ fid[f].req = "none" /\ ~fid[f].clunked
           /\ \A s \in Sessions : s = fid[f].s =>
                 /\ sess[s] \in Xsession /\ sess[s].mode = "Normal" /\ f \in FidsOf(s)
                 /\ sess[s].state \in {"Initializing", "Running", "Finished", "Wiped"}
                 /\ sess[s].waitreqs = sess[s].waitreqs \ {f}
           /\ \E s \in Sessions : s = fid[f].s
  <1>1. FidOK(fid[f]) /\ fid[f].at = "ctl" /\ fid[f].req = "none" /\ ~fid[f].clunked
    BY DEF sctl_write, IInv, FidOK
  <1>2. fid[f].s \in Sessions
    BY <1>1, Outside DEF Places
  <1>3. ASSUME NEW s \in Sessions, s = fid[f].s
        PROVE  /\ sess[s] \in Xsession /\ sess[s].mode = "Normal" /\ f \in FidsOf(s)
               /\ sess[s].state \in {"Initializing", "Running", "Finished", "Wiped"}
               /\ sess[s].waitreqs = sess[s].waitreqs \ {f}
    BY <1>1, <1>3, FidFacts DEF Counted
  <1> QED
    BY <1>1, <1>2, <1>3

\* The type of a session is set, to what it is.
LEMMA Step_type ==
    ASSUME XSessionAssumption, PlainUses, IInv, NEW f \in Fids, NEW mode, type(f, mode),
           mode \in {"Normal", "Persistent"}
    PROVE  IInv'
  <1>0. sctl_write(f) /\ mode = "Normal"
    BY DEF type, PlainUses
  <1>1. PICK s \in Sessions : s = fid[f].s
    BY <1>0, CtlFacts
  <1>2. /\ sess[s] \in Xsession /\ sess[s].mode = "Normal"
        /\ FidOK(fid[f]) /\ fid[f].req = "none"
        /\ sess[s].state \in {"Initializing", "Running", "Finished", "Wiped"}
        /\ sess[s].waitreqs = sess[s].waitreqs \ {f}
    BY <1>0, <1>1, CtlFacts
  <1>3. PICK x : x = [sess[s] EXCEPT !.mode = "Normal"]
    OBVIOUS
  <1>4. /\ x \in Xsession /\ x.mode = "Normal" /\ x.state = sess[s].state
        /\ x.refcount = sess[s].refcount /\ x.sref = sess[s].sref
        /\ x.listed = sess[s].listed /\ x.pid = sess[s].pid
        /\ x.waitreqs = sess[s].waitreqs \ {f}
    BY <1>2, <1>3 DEF Xsession
  <1>5. PICK g : g = fid[f]
    OBVIOUS
  <1>6. /\ sess' = [sess EXCEPT ![s] = x] /\ fid' = [fid EXCEPT ![f] = g]
        /\ termed' \subseteq Pids /\ UNCHANGED <<proc, owner, chld_fd, notify>>
    BY <1>0, <1>1, <1>3, <1>5 DEF type, IInv, TypeOK
  <1>7. Counted(x, Cardinality(FidsOf(s)) + NProcs(sess[s]), Cardinality(DirFids(s)))
    BY <1>2, <1>4, SameCounts
  <1> QED
    BY <1>1, <1>2, <1>4, <1>5, <1>6, <1>7, StayStep

\* The cloning of a session starts.
LEMMA Step_tspawn ==
    ASSUME XSessionAssumption, IInv, NEW f \in Fids, tspawn(f)
    PROVE  IInv'
  <1>0. sctl_write(f)
    BY DEF tspawn
  <1>1. PICK s \in Sessions : s = fid[f].s
    BY <1>0, CtlFacts
  <1>2. /\ sess[s] \in Xsession /\ sess[s].mode = "Normal"
        /\ FidOK(fid[f]) /\ fid[f].req = "none" /\ fid[f].at = "ctl" /\ ~fid[f].clunked
        /\ sess[s].state \in {"Initializing", "Running", "Finished", "Wiped"}
        /\ sess[s].waitreqs = sess[s].waitreqs \ {f}
    BY <1>0, <1>1, CtlFacts
  <1>3. PICK x : x = [sess[s] EXCEPT !.ctlreq = f]
    OBVIOUS
  <1>4. /\ x \in Xsession /\ x.mode = "Normal" /\ x.state = sess[s].state
        /\ x.refcount = sess[s].refcount /\ x.sref = sess[s].sref
        /\ x.listed = sess[s].listed /\ x.pid = sess[s].pid
        /\ x.waitreqs = sess[s].waitreqs \ {f}
    BY <1>2, <1>3 DEF Xsession
  <1>5. PICK g : g = [fid[f] EXCEPT !.req = "ctl"]
    OBVIOUS
  <1>6. FidOK(g) /\ g.s = s /\ g.at = fid[f].at /\ g.req = "ctl"
    BY <1>1, <1>2, <1>5 DEF FidOK, Xfid, NoFid
  <1>7. /\ sess' = [sess EXCEPT ![s] = x] /\ fid' = [fid EXCEPT ![f] = g]
        /\ termed' \subseteq Pids /\ UNCHANGED <<proc, owner, chld_fd, notify>>
    BY <1>1, <1>3, <1>5 DEF tspawn, IInv, TypeOK
  <1>8. Counted(x, Cardinality(FidsOf(s)) + NProcs(sess[s]), Cardinality(DirFids(s)))
    BY <1>2, <1>4, SameCounts
  <1> QED
    BY <1>1, <1>4, <1>6, <1>7, <1>8, StayStep

\* The cloning of a session ends, and the write that started it is answered.
LEMMA Step_tspawn_done ==
    ASSUME XSessionAssumption, IInv, NEW s \in Sessions, tspawn_done(s)
    PROVE  IInv'
  <1>1. /\ sess[s] \in Xsession /\ sess[s].mode = "Normal"
        /\ sess[s].state \in {"Initializing", "Running", "Finished", "Wiped"}
    <2>1. sess[s] # NoSession
      BY DEF tspawn_done, NoSession
    <2> QED
      BY <2>1, SessionFacts DEF Counted
  <1>2. PICK x : x = [sess[s] EXCEPT !.ctlreq = NOFID]
    OBVIOUS
  <1>3. /\ x \in Xsession /\ x.mode = "Normal" /\ x.state = sess[s].state
        /\ x.refcount = sess[s].refcount /\ x.sref = sess[s].sref
        /\ x.listed = sess[s].listed /\ x.pid = sess[s].pid
        /\ x.waitreqs = sess[s].waitreqs
    BY <1>1, <1>2 DEF Xsession
  <1>4. Counted(x, Cardinality(FidsOf(s)) + NProcs(sess[s]), Cardinality(DirFids(s)))
    BY <1>1, <1>3, SameCounts
  <1>5. /\ sess' = [sess EXCEPT ![s] = x] /\ termed' \subseteq Pids
        /\ UNCHANGED <<proc, owner, chld_fd, notify>>
    BY <1>2 DEF tspawn_done, IInv, TypeOK
  <1>6. CASE \E f \in Fids : f = sess[s].ctlreq /\ fid[f].s = s /\ fid[f].req = "ctl"
    <2>1. PICK f \in Fids : f = sess[s].ctlreq /\ fid[f].s = s /\ fid[f].req = "ctl"
      BY <1>6
    <2>2. FidOK(fid[f]) /\ ~fid[f].clunked
      BY <2>1 DEF IInv, FidOK
    <2>3. PICK g : g = [fid[f] EXCEPT !.req = "none"]
      OBVIOUS
    <2>4. FidOK(g) /\ g.s = s /\ g.at = fid[f].at /\ g.req = "none"
      BY <2>1, <2>2, <2>3 DEF FidOK, Xfid, NoFid
    <2>5. FidAnswered(fid[f]) = g
      BY <2>2, <2>3 DEF FidAnswered
    <2>6. fid' = [fid EXCEPT ![f] = g]
      BY <2>1, <2>5 DEF tspawn_done, IInv, TypeOK
    <2>7. x.waitreqs = sess[s].waitreqs \ {f}
      BY <1>3, <2>1, FidFacts
    <2> QED
      BY <1>3, <1>4, <1>5, <2>1, <2>4, <2>6, <2>7, StayStep
  <1>7. CASE ~\E f \in Fids : f = sess[s].ctlreq /\ fid[f].s = s /\ fid[f].req = "ctl"
    <2>1. fid' = fid
      BY <1>7 DEF tspawn_done, IInv, TypeOK
    <2>2. sess'[s] = x
      BY <1>5 DEF IInv, TypeOK
    <2>3. CountInv(s)'
      BY <1>3, <1>4, <2>1, <2>2 DEF CountInv, FidsOf, DirFids, NProcs
    <2>4. WaitInv(s)'
      BY <1>3, <2>1, <2>2 DEF WaitInv, FidsOf, IInv
    <2>5. Touches(s) /\ fid' \in [Fids -> Xfid] /\ \A f \in Fids : FidOK(fid'[f])
      BY <2>1 DEF Touches, IInv, TypeOK
    <2> QED
      BY <1>3, <1>5, <2>3, <2>4, <2>5, OneSessionStep
  <1> QED
    BY <1>6, <1>7

\* A process is started: the session did not have one.
LEMMA Step_xexec ==
    ASSUME XSessionAssumption, PlainUses, IInv, NEW f \in Fids, NEW p \in Pids, xexec(f, p)
    PROVE  IInv'
  <1>0. sctl_write(f)
    BY DEF xexec
  <1>1. PICK s \in Sessions : s = fid[f].s
    BY <1>0, CtlFacts
  <1>2. PICK x : x = [session_incref(sess[s]) EXCEPT !.state = "Running", !.pid = p]
    OBVIOUS
  <1>3. /\ sess[s].state # "Wiped" /\ sess[s].pid = NOPID /\ proc[p] = "none"
        /\ sess' = [sess EXCEPT ![s] = x]
        /\ owner' = [owner EXCEPT ![p] = s] /\ proc' = [proc EXCEPT ![p] = "running"]
        /\ UNCHANGED <<fid, termed, chld_fd, notify>>
    BY <1>1, <1>2 DEF xexec, PlainUses
  <1> DEFINE n == Cardinality(FidsOf(s))
             d == Cardinality(DirFids(s))
  <1>4. NProcs(sess[s]) = 0
    BY <1>3 DEF NProcs
  <1>5. n \in Nat /\ d \in Nat /\ Counted(sess[s], n, d) /\ n # 0
    <2>1. FidsOf(s) # {}
      BY <1>0, <1>1, CtlFacts
    <2>2. n \in Nat /\ d \in Nat /\ Counted(sess[s], n + 0, d) /\ n # 0
      BY <1>4, <2>1, SessionFacts
    <2> QED
      BY <2>2
  <1> HIDE DEF n, d
  <1>6. /\ sess[s] \in Xsession /\ sess[s].mode = "Normal" /\ sess[s].refcount = n
        /\ sess[s].listed /\ sess[s].sref = 1 + NFiles + d
        /\ sess[s].state \in {"Initializing", "Running", "Finished", "Wiped"}
    BY <1>3, <1>5, CountedFields
  <1>7. /\ x \in Xsession /\ x.mode = "Normal" /\ x.refcount = n + 1 /\ x.listed
        /\ x.sref = 1 + NFiles + d /\ x.state = "Running" /\ x.pid = p
        /\ x.waitreqs = sess[s].waitreqs
    <2>1. PICK y : y = session_incref(sess[s])
      OBVIOUS
    <2>2. /\ y \in Xsession /\ y.mode = "Normal" /\ y.refcount = n + 1 /\ y.listed
          /\ y.sref = 1 + NFiles + d /\ y.waitreqs = sess[s].waitreqs
      BY <1>5, <1>6, <2>1 DEF session_incref, Xsession
    <2>3. PICK z : z = [y EXCEPT !.state = "Running"]
      OBVIOUS
    <2>4. /\ z \in Xsession /\ z.mode = "Normal" /\ z.refcount = n + 1 /\ z.listed
          /\ z.sref = 1 + NFiles + d /\ z.waitreqs = sess[s].waitreqs /\ z.state = "Running"
      BY <2>2, <2>3 DEF Xsession
    <2>5. x = [z EXCEPT !.pid = p]
      BY <1>2, <2>1, <2>3
    <2> QED
      BY <2>4, <2>5 DEF Xsession
  <1>8. Counted(x, n + 1, d) /\ NProcs(x) = 1
    <2>1. NProcs(x) = 1
      BY <1>7 DEF NProcs, XSessionAssumption
    <2> QED
      BY <1>5, <1>7, <2>1 DEF Counted
  <1>9. sess'[s] = x
    BY <1>3 DEF IInv, TypeOK
  <1>10. CountInv(s)'
    BY <1>3, <1>8, <1>9 DEF CountInv, FidsOf, DirFids, NProcs, n, d
  <1>11. WaitInv(s)'
    BY <1>3, <1>7, <1>9 DEF WaitInv, FidsOf, IInv
  <1>12. Touches(s)
    BY <1>3 DEF Touches
  <1>13. /\ sess' \in [Sessions -> Xsession]
         /\ \A t \in Sessions : CountInv(t)' /\ WaitInv(t)'
         /\ \A t \in Sessions \ {s} : sess'[t] = sess[t]
    BY <1>3, <1>10, <1>11, <1>12, OneSession
  <1>14. TypeOK'
    BY <1>3, <1>13 DEF IInv, TypeOK
  <1>15. ProcInv'
    <2>1. owner[p] = NOSESSION
      BY <1>3 DEF IInv, ProcInv
    <2>2. \A q \in Pids : /\ proc'[q] = (IF q = p THEN "running" ELSE proc[q])
                          /\ owner'[q] = (IF q = p THEN s ELSE owner[q])
      BY <1>3 DEF IInv, TypeOK
    <2>3. \A q \in Pids : proc'[q] = "none" <=> owner'[q] = NOSESSION
      BY <2>2 DEF IInv, ProcInv, XSessionAssumption
    <2>4. \A t \in Sessions, q \in Pids : sess'[t].pid = q <=> owner'[q] = t
      <3>1. \A q \in Pids : sess'[s].pid = q <=> owner'[q] = s
        BY <1>3, <1>7, <1>9, <2>2 DEF IInv, ProcInv, XSessionAssumption
      <3>2. \A t \in Sessions \ {s}, q \in Pids : sess'[t].pid = q <=> owner'[q] = t
        BY <1>13, <2>1, <2>2 DEF IInv, ProcInv, XSessionAssumption
      <3> QED
        BY <3>1, <3>2
    <2>5. \A t \in Sessions :
             /\ sess'[t].state = "Running" => sess'[t].pid # NOPID
             /\ sess'[t].state \in {"Initializing", "Finished"} => sess'[t].pid = NOPID
      BY <1>7, <1>9, <1>13 DEF IInv, ProcInv, XSessionAssumption
    <2> QED
      BY <2>3, <2>4, <2>5 DEF ProcInv
  <1>16. \A g \in Fids : FidOK(fid'[g])
    BY <1>3 DEF IInv
  <1> QED
    BY <1>13, <1>14, <1>15, <1>16 DEF IInv

\* The reads of "wait" of s whose fids are clunked.
ClunkedReads(s) == {f \in sess[s].waitreqs : fid[f].clunked}

\* The reads of "wait" of session s are answered: the clunked fids leave.
LEMMA AnswersFacts ==
    ASSUME XSessionAssumption, IInv, NEW s \in Sessions, fid' = Answered(s)
    PROVE  /\ ClunkedReads(s) \in SUBSET FidsOf(s)
           /\ FidsOf(s)' = FidsOf(s) \ ClunkedReads(s) /\ DirFids(s)' = DirFids(s)
           /\ {f \in FidsOf(s) : fid[f].req = "wait"}' = {}
           /\ Touches(s) /\ fid' \in [Fids -> Xfid] /\ \A f \in Fids : FidOK(fid'[f])
  <1>1. sess[s].waitreqs = {f \in FidsOf(s) : fid[f].req = "wait"}
    BY DEF IInv, WaitInv
  <1>2. \A f \in Fids : FidOK(fid[f])
    BY DEF IInv
  <1>3. ASSUME NEW f \in Fids, f \in sess[s].waitreqs
        PROVE  /\ FidOK(fid'[f]) /\ fid'[f].req = "none"
               /\ fid[f].s = s /\ fid[f].at = "wait"
               /\ fid[f].clunked => fid'[f].s = NOSESSION /\ fid'[f].at = "none"
               /\ ~fid[f].clunked => fid'[f].s = s /\ fid'[f].at = "wait"
    <2>0. fid[f].s = s /\ fid[f].req = "wait" /\ FidOK(fid[f]) /\ fid[f].at = "wait"
      BY <1>1, <1>2, <1>3 DEF FidsOf, FidOK
    <2>1. fid'[f] = FidAnswered(fid[f])
      BY <1>3 DEF Answered
    <2>2. CASE fid[f].clunked
      <3>1. fid'[f] = NoFid
        BY <2>1, <2>2 DEF FidAnswered
      <3>2. NoFid.at = "none"
        BY DEF NoFid
      <3> QED
        BY <2>0, <2>2, <3>1, <3>2, FidValues
    <2>3. CASE ~fid[f].clunked
      <3>1. fid'[f] = [fid[f] EXCEPT !.req = "none"]
        BY <2>1, <2>3 DEF FidAnswered
      <3> QED
        BY <2>0, <2>3, <3>1 DEF FidOK, Xfid, NoFid
    <2> QED
      BY <2>2, <2>3
  <1>4. \A f \in Fids : f \notin sess[s].waitreqs => fid'[f] = fid[f]
    BY DEF Answered
  <1>5. \A f \in Fids : FidOK(fid'[f])
    BY <1>2, <1>3, <1>4
  <1>6. fid' \in [Fids -> Xfid]
    <2>1. \A f \in Fids : fid'[f] \in Xfid
      BY <1>5 DEF FidOK
    <2>2. fid' = [f \in Fids |-> fid'[f]]
      BY DEF Answered
    <2> QED
      BY <2>1, <2>2
  <1>7. Touches(s)
    BY <1>3, <1>4 DEF Touches
  <1>8. ClunkedReads(s) \in SUBSET FidsOf(s)
    BY <1>1 DEF ClunkedReads
  <1>9. FidsOf(s)' = FidsOf(s) \ ClunkedReads(s)
    BY <1>3, <1>4 DEF FidsOf, ClunkedReads, XSessionAssumption
  <1>10. DirFids(s)' = DirFids(s)
    BY <1>3, <1>4 DEF DirFids, FidsOf, XSessionAssumption
  <1>11. {f \in FidsOf(s) : fid[f].req = "wait"}' = {}
    BY <1>1, <1>3, <1>4 DEF FidsOf
  <1> QED
    BY <1>5, <1>6, <1>7, <1>8, <1>9, <1>10, <1>11

\* A session is wiped by hand: the fid of "ctl" is left to refer to it.
LEMMA Step_wipe ==
    ASSUME XSessionAssumption, IInv, NEW f \in Fids, wipe(f)
    PROVE  IInv'
  <1>0. sctl_write(f)
    BY DEF wipe
  <1>1. PICK s \in Sessions : s = fid[f].s
    BY <1>0, CtlFacts
  <1>2. PICK x : x = session_wipe([sess[s] EXCEPT !.refcount = @ - Clunked(s)])
    OBVIOUS
  <1>3. /\ sess[s].state # "Wiped" /\ fid' = Answered(s)
        /\ sess' = [sess EXCEPT ![s] = Settled(x)]
        /\ termed' \subseteq Pids /\ UNCHANGED <<proc, owner, chld_fd, notify>>
    <2>1. Kills(s, session_wipe(sess[s]))
      BY <1>1 DEF wipe
    <2>2. termed' \subseteq Pids
      BY <2>1, KillsType
    <2> QED
      BY <1>1, <1>2, <2>2 DEF wipe, SetSession
  <1>4. /\ ClunkedReads(s) \in SUBSET FidsOf(s)
        /\ FidsOf(s)' = FidsOf(s) \ ClunkedReads(s) /\ DirFids(s)' = DirFids(s)
        /\ {g \in FidsOf(s) : fid[g].req = "wait"}' = {}
        /\ Touches(s) /\ fid' \in [Fids -> Xfid] /\ \A g \in Fids : FidOK(fid'[g])
    BY <1>3, AnswersFacts
  <1> DEFINE m == Cardinality(FidsOf(s))
             d == Cardinality(DirFids(s))
             c == Cardinality(ClunkedReads(s))
             k == NProcs(sess[s])
  <1>5. /\ Cardinality(FidsOf(s)') = m - c /\ m \in Nat /\ d \in Nat /\ c \in Nat
        /\ Cardinality(FidsOf(s)') \in Nat
        /\ Cardinality(FidsOf(s)') = 0 => FidsOf(s)' = {}
    BY <1>4, FidsLeave
  <1>6. Cardinality(FidsOf(s)') # 0
    <2>1. f \in FidsOf(s) /\ f \notin ClunkedReads(s)
      BY <1>0, <1>1, CtlFacts DEF ClunkedReads
    <2> QED
      BY <1>4, <1>5, <2>1
  <1>7. k \in {0, 1} /\ Counted(sess[s], m + k, d)
    BY SessionFacts
  <1>8. c = Clunked(s)
    BY DEF Clunked, ClunkedReads
  <1>9. m + k \in Nat /\ m + k - c > 0
    BY <1>5, <1>6, <1>7
  <1>10. PICK n : n = m + k
    OBVIOUS
  <1>11. Counted(x, n - c, d) /\ x.state = "Wiped" /\ x.pid = sess[s].pid /\ x.waitreqs = {}
    <2>1. Counted(sess[s], n, d) /\ n \in Nat /\ n - c > 0 /\ d \in Nat /\ c \in Nat
      BY <1>5, <1>7, <1>9, <1>10
    <2>2. x = session_wipe([sess[s] EXCEPT !.refcount = @ - c])
      BY <1>2, <1>8
    <2> HIDE DEF m, k, c, d
    <2> QED
      BY <1>3, <2>1, <2>2, WipeCounted
  <1>12. Settled(x) = x
    <2>1. n - c \in Nat
      BY <1>5, <1>7, <1>9, <1>10
    <2> HIDE DEF m, k, c, d
    <2> QED
      BY <1>5, <1>11, <2>1, CountedSettled
  <1>13. sess' = [sess EXCEPT ![s] = x] /\ sess'[s] = x
    BY <1>3, <1>12 DEF IInv, TypeOK
  <1>14. CountInv(s)'
    <2>1. NProcs(x) = k /\ n - c = Cardinality(FidsOf(s)') + k
      BY <1>5, <1>7, <1>10, <1>11 DEF NProcs
    <2> QED
      BY <1>4, <1>11, <1>13, <2>1 DEF CountInv, NProcs
  <1>15. WaitInv(s)'
    BY <1>4, <1>11, <1>13 DEF WaitInv
  <1> QED
    BY <1>3, <1>4, <1>11, <1>13, <1>14, <1>15, OneSessionStep

\* The process of a session is reaped: the reads of "wait" are answered, and the
\* session goes if the process was the last that referred to it.
LEMMA Step_waitpid ==
    ASSUME XSessionAssumption, IInv, NEW p \in Pids, waitpid(p)
    PROVE  IInv'
  <1>1. /\ proc[p] = "zombie" /\ proc' = [proc EXCEPT ![p] = "none"]
        /\ owner' = [owner EXCEPT ![p] = NOSESSION] /\ termed' = termed \ {p}
        /\ UNCHANGED <<chld_fd, notify>>
    BY DEF waitpid
  <1>2. PICK s \in Sessions : owner[p] = s /\ sess[s].pid = p
    BY <1>1 DEF IInv, ProcInv, TypeOK
  <1>3. PICK x : x = [Ended(sess[s]) EXCEPT !.refcount = @ - Clunked(s)]
    OBVIOUS
  <1>4. fid' = Answered(s) /\ sess' = [sess EXCEPT ![s] = Settled(session_decref(x))]
    <2>1. PICK t \in Sessions :
             /\ sess[t].pid = p /\ fid' = Answered(t)
             /\ SetSession(t, session_decref([Ended(sess[t]) EXCEPT !.refcount = @ - Clunked(t)]))
      BY <1>2 DEF waitpid
    <2>2. t = s
      BY <1>2, <2>1 DEF IInv, ProcInv
    <2> QED
      BY <1>3, <2>1, <2>2 DEF SetSession
  <1>5. /\ ClunkedReads(s) \in SUBSET FidsOf(s)
        /\ FidsOf(s)' = FidsOf(s) \ ClunkedReads(s) /\ DirFids(s)' = DirFids(s)
        /\ {g \in FidsOf(s) : fid[g].req = "wait"}' = {}
        /\ Touches(s) /\ fid' \in [Fids -> Xfid] /\ \A g \in Fids : FidOK(fid'[g])
    BY <1>4, AnswersFacts
  <1>6. PICK m : m = Cardinality(FidsOf(s)')
    OBVIOUS
  <1>7. PICK d : d = Cardinality(DirFids(s))
    OBVIOUS
  <1>8. PICK c : c = Clunked(s)
    OBVIOUS
  <1>9. /\ m = Cardinality(FidsOf(s)) - c /\ Cardinality(FidsOf(s)) \in Nat
        /\ d \in Nat /\ c \in Nat /\ m \in Nat /\ (m = 0 => FidsOf(s)' = {} /\ d = 0)
    <2>1. Clunked(s) = Cardinality(ClunkedReads(s))
      BY DEF Clunked, ClunkedReads
    <2> QED
      BY <1>5, <1>6, <1>7, <1>8, <2>1, FidsLeave
  <1>10. PICK n : n = Cardinality(FidsOf(s)) + 1
    OBVIOUS
  <1>11. Counted(sess[s], n, d) /\ n \in Nat /\ n - c = m + 1
    <2>1. NProcs(sess[s]) = 1
      BY <1>2 DEF NProcs, XSessionAssumption
    <2> QED
      BY <1>7, <1>9, <1>10, <2>1, SessionFacts
  <1>12. Counted(x, m + 1, d) /\ x.state \in {"Finished", "Wiped"} /\ x.pid = NOPID
         /\ x.waitreqs = {}
    <2>1. n - c > 0
      BY <1>9, <1>11
    <2>2. /\ Counted(x, n - c, d) /\ x.state \in {"Finished", "Wiped"} /\ x.pid = NOPID
          /\ x.waitreqs = {}
      <3>1. x = EndedWith(sess[s], c)
        BY <1>3, <1>8 DEF EndedWith
      <3>2. n \in Nat /\ d \in Nat /\ c \in Nat /\ Counted(sess[s], n, d)
        BY <1>9, <1>11
      <3>3. n - c > 0
        BY <2>1
      <3>4. /\ Counted(EndedWith(sess[s], c), n - c, d)
            /\ EndedWith(sess[s], c).state \in {"Finished", "Wiped"}
            /\ EndedWith(sess[s], c).pid = NOPID /\ EndedWith(sess[s], c).waitreqs = {}
        BY <3>2, <3>3, EndCounted
      <3> QED
        BY <3>1, <3>4
    <2> QED
      BY <1>11, <2>2
  <1>13. session_decref(x) = Unref(x, "wait")
    BY DEF Unref
  <1>14. PICK y : y = Settled(Unref(x, "wait"))
    OBVIOUS
  <1>15. /\ Counted(y, m, d) /\ y.pid = NOPID /\ y.waitreqs = {}
         /\ y.state \in {"Finished", "Wiped", "none"}
    <2>1. CASE m # 0
      <3>1. m + 1 \in Nat /\ m + 1 > 1 /\ One("wait" = "dir") = 0 /\ 0 <= d
            /\ m + 1 - 1 = m /\ d - 0 = d
        BY <1>9, <2>1 DEF One
      <3>2. /\ Counted(Unref(x, "wait"), m, d) /\ Unref(x, "wait").state = x.state
            /\ Unref(x, "wait").pid = x.pid /\ Unref(x, "wait").waitreqs = x.waitreqs
        BY <1>9, <1>12, <3>1, UnrefCounted
      <3>3. y = Unref(x, "wait")
        BY <1>9, <1>14, <3>2, CountedSettled
      <3> QED
        BY <1>12, <3>2, <3>3
    <2>2. CASE m = 0
      <3>1. m + 1 = 1 /\ d = One("wait" = "dir")
        BY <1>9, <2>2 DEF One
      <3>2. y = NoSession
        BY <1>12, <1>14, <3>1, LastUnref
      <3>3. /\ NoSession.pid = NOPID /\ NoSession.waitreqs = {} /\ NoSession.state = "none"
            /\ NoSession.mode = "Normal" /\ NoSession \in Xsession
        BY DEF NoSession, Xsession
      <3> QED
        BY <1>9, <2>2, <3>2, <3>3 DEF Counted
    <2> QED
      BY <2>1, <2>2
  <1>16. sess' = [sess EXCEPT ![s] = y] /\ sess'[s] = y
    BY <1>4, <1>13, <1>14 DEF IInv, TypeOK
  <1>17. CountInv(s)'
    <2>1. NProcs(y) = 0 /\ m + 0 = m
      BY <1>9, <1>15 DEF NProcs
    <2> QED
      BY <1>5, <1>6, <1>7, <1>15, <1>16, <2>1 DEF CountInv, NProcs
  <1>18. WaitInv(s)'
    BY <1>5, <1>15, <1>16 DEF WaitInv
  <1>19. /\ sess' \in [Sessions -> Xsession]
         /\ \A t \in Sessions : CountInv(t)' /\ WaitInv(t)'
         /\ \A t \in Sessions \ {s} : sess'[t] = sess[t]
    BY <1>5, <1>16, <1>17, <1>18, OneSession
  <1>20. TypeOK'
    BY <1>1, <1>5, <1>19 DEF IInv, TypeOK
  <1>21. ProcInv'
    <2>1. \A q \in Pids : /\ proc'[q] = (IF q = p THEN "none" ELSE proc[q])
                          /\ owner'[q] = (IF q = p THEN NOSESSION ELSE owner[q])
      BY <1>1 DEF IInv, TypeOK
    <2>2. \A q \in Pids : proc'[q] = "none" <=> owner'[q] = NOSESSION
      BY <2>1 DEF IInv, ProcInv
    <2>3. \A q \in Pids : sess'[s].pid = q <=> owner'[q] = s
      BY <1>2, <1>15, <1>16, <2>1 DEF IInv, ProcInv, XSessionAssumption
    <2>4. \A t \in Sessions \ {s}, q \in Pids : sess'[t].pid = q <=> owner'[q] = t
      BY <1>2, <1>19, <2>1 DEF IInv, ProcInv, XSessionAssumption
    <2>5. \A t \in Sessions :
             /\ sess'[t].state = "Running" => sess'[t].pid # NOPID
             /\ sess'[t].state \in {"Initializing", "Finished"} => sess'[t].pid = NOPID
      BY <1>15, <1>16, <1>19 DEF IInv, ProcInv
    <2> QED
      BY <2>2, <2>3, <2>4, <2>5 DEF ProcInv
  <1> QED
    BY <1>5, <1>19, <1>20, <1>21 DEF IInv

\* A step that leaves the sessions, the fids and the owners alone, and no
\* process as if it were not there.
LEMMA Step_notify ==
    ASSUME XSessionAssumption, IInv, UNCHANGED <<sess, fid, owner, termed>>,
           proc' \in [Pids -> {"none", "running", "zombie"}],
           \A p \in Pids : proc'[p] = "none" <=> proc[p] = "none",
           chld_fd' \in BOOLEAN, notify' \in 0..Len(Steps)
    PROVE  IInv'
  <1>1. TypeOK'
    BY DEF IInv, TypeOK
  <1>2. ProcInv'
    BY DEF IInv, ProcInv
  <1>3. \A s \in Sessions : CountInv(s)' /\ WaitInv(s)'
    BY DEF IInv, CountInv, WaitInv, FidsOf, DirFids, NProcs
  <1>4. \A f \in Fids : FidOK(fid'[f])
    BY DEF IInv
  <1> QED
    BY <1>1, <1>2, <1>3, <1>4 DEF IInv

\* The invariant holds initially.
LEMMA InitIInv ==
    ASSUME XSessionAssumption, Init
    PROVE  IInv
  <1>1. /\ NoSession \in Xsession /\ NoSession.mode = "Normal" /\ NoSession.pid = NOPID
        /\ NoSession.waitreqs = {} /\ NoSession.state = "none"
    BY DEF NoSession, Xsession
  <1>2. /\ FidOK(NoFid) /\ NoFid \in Xfid /\ NoFid.s = NOSESSION
    BY FidValues DEF FidOK
  <1>3. Len(Steps) = 2
    BY DEF Steps
  <1>4. TypeOK
    BY <1>1, <1>2, <1>3 DEF Init, TypeOK
  <1>5. ProcInv
    BY <1>1 DEF Init, ProcInv, XSessionAssumption
  <1>6. ASSUME NEW s \in Sessions
        PROVE  CountInv(s) /\ WaitInv(s)
    <2>1. FidsOf(s) = {} /\ DirFids(s) = {}
      BY <1>2 DEF Init, FidsOf, DirFids, XSessionAssumption
    <2>2. Cardinality({}) = 0
      BY FS_EmptySet
    <2>3. sess[s] = NoSession
      BY DEF Init
    <2>4. CountInv(s)
      BY <1>1, <2>1, <2>2, <2>3 DEF CountInv, Counted, NProcs
    <2> QED
      BY <1>1, <2>1, <2>3, <2>4 DEF WaitInv
  <1>7. \A f \in Fids : FidOK(fid[f])
    BY <1>2 DEF Init
  <1> QED
    BY <1>4, <1>5, <1>6, <1>7 DEF IInv

\* Every step keeps the invariant.
LEMMA NextIInv ==
    ASSUME XSessionAssumption, PlainUses, IInv, [Next]_vars
    PROVE  IInv'
  <1>0. Len(Steps) = 2 /\ Steps[1] = "setup" /\ Steps[2] = "reap"
    BY DEF Steps
  <1>t. /\ proc \in [Pids -> {"none", "running", "zombie"}] /\ notify \in 0..Len(Steps)
        /\ chld_fd \in BOOLEAN
    BY DEF IInv, TypeOK
  <1>1. CASE UNCHANGED vars
    BY <1>1, <1>t, Step_notify DEF vars
  <1>2. ASSUME NEW f \in Fids, Message(f)
        PROVE  IInv'
    <2>1. CASE attach(f)
      BY <2>1, Step_attach
    <2>2. CASE \E s \in Sessions : clone_openfid(f, s)
      BY <2>2, Step_clone_openfid
    <2>3. CASE \E g \in Fids, s \in Sessions, at \in Places : WalkFromRoot(f, g, s, at)
      BY <2>3, Step_WalkFromRoot
    <2>4. CASE \E g \in Fids, at \in Places : WalkFromSession(f, g, at)
      BY <2>4, Step_WalkFromSession
    <2>5. CASE clunk(f)
      BY <2>5, Step_clunk
    <2>6. CASE wait_read(f)
      BY <2>6, Step_wait_read
    <2>7. CASE wait_flush(f)
      BY <2>7, Step_wait_flush
    <2>8. CASE sctl_flush(f)
      BY <2>8, Step_sctl_flush
    <2>9. CASE \E p \in Pids : xexec(f, p)
      BY <2>9, Step_xexec
    <2>10. CASE wipe(f)
      BY <2>10, Step_wipe
    <2>11. CASE \E mode \in {"Normal", "Persistent"} : type(f, mode)
      BY <2>11, Step_type
    <2>12. CASE tspawn(f)
      BY <2>12, Step_tspawn
    <2> QED
      BY <1>2, <2>1, <2>2, <2>3, <2>4, <2>5, <2>6, <2>7, <2>8, <2>9, <2>10, <2>11, <2>12
      DEF Message
  <1>3. ASSUME NEW s \in Sessions, tspawn_done(s)
        PROVE  IInv'
    BY <1>3, Step_tspawn_done
  <1>4. ASSUME NEW p \in Pids, sigchld_handler(p)
        PROVE  IInv'
    <2>1. /\ UNCHANGED <<sess, fid, owner, termed, notify>> /\ chld_fd' = FALSE
          /\ proc[p] = "running" /\ proc' = [proc EXCEPT ![p] = "zombie"]
      BY <1>4 DEF sigchld_handler
    <2>2. /\ proc' \in [Pids -> {"none", "running", "zombie"}]
          /\ \A q \in Pids : proc'[q] = "none" <=> proc[q] = "none"
      BY <1>t, <2>1
    <2> QED
      BY <1>t, <2>1, <2>2, Step_notify
  <1>5. ASSUME Notify
        PROVE  IInv'
    <2>1. CASE sigchld_notify \/ sigchld_setup_pipe \/ sigchld_done
      <3>1. /\ UNCHANGED <<sess, fid, proc, owner, termed>> /\ chld_fd' \in BOOLEAN
        BY <1>t, <2>1 DEF sigchld_notify, sigchld_setup_pipe, sigchld_done
      <3>2. notify' \in 0..Len(Steps)
        BY <1>0, <1>t, <2>1 DEF sigchld_notify, sigchld_setup_pipe, sigchld_done, Advance
      <3> QED
        BY <1>t, <3>1, <3>2, Step_notify
    <2>2. CASE \E p \in Pids : waitpid(p)
      BY <2>2, Step_waitpid
    <2> QED
      BY <1>5, <2>1, <2>2 DEF Notify
  <1> QED
    BY <1>1, <1>2, <1>3, <1>4, <1>5 DEF Next

-----------------------------------------------------------------------------
(* The theorems.                                                           *)

\* The invariant holds in every state, as long as no session is made persistent
\* and none starts a second process.
THEOREM XSessionInvariant ==
    ASSUME PlainUses
    PROVE  Spec => []IInv
  <1>1. Init => IInv
    BY XSessionAssumption, InitIInv
  <1>2. IInv /\ [Next]_vars => IInv'
    BY XSessionAssumption, NextIInv
  <1> QED
    BY <1>1, <1>2, PTL DEF Spec

\* Type correctness: in particular a session's pid is NOPID or that of a process.
THEOREM XSessionTypeOK ==
    ASSUME PlainUses
    PROVE  Spec => []TypeOK
  <1>1. IInv => TypeOK
    BY DEF IInv
  <1> QED
    BY <1>1, XSessionInvariant, PTL

\* The processes of a session are the one it knows.
LEMMA ProcsCounted ==
    ASSUME XSessionAssumption, IInv, NEW s \in Sessions
    PROVE  Cardinality(ProcsOf(s)) = NProcs(sess[s]) /\ (NProcs(sess[s]) # 0 => ProcsOf(s) # {})
  <1>1. CASE sess[s].pid = NOPID
    <2>1. ProcsOf(s) = {}
      BY <1>1 DEF ProcsOf, IInv, ProcInv, XSessionAssumption
    <2> QED
      BY <1>1, <2>1, FS_EmptySet DEF NProcs
  <1>2. CASE sess[s].pid # NOPID
    <2>1. PICK p \in Pids : p = sess[s].pid
      BY <1>2 DEF IInv, TypeOK, Xsession
    <2>2. ProcsOf(s) = {p}
      BY <2>1 DEF ProcsOf, IInv, ProcInv
    <2>3. Cardinality({p}) = 1
      BY FS_Singleton
    <2> QED
      BY <1>2, <2>2, <2>3 DEF NProcs
  <1> QED
    BY <1>1, <1>2

\* session_incref and session_decref: a session counts exactly the fids and the
\* process that refer to it, however its clients interleave.
THEOREM XSessionRefcount ==
    ASSUME PlainUses
    PROVE  Spec => []SessionRefcount
  <1>1. IInv => SessionRefcount
    <2> SUFFICES ASSUME IInv, NEW s \in Sessions
                 PROVE  sess[s].refcount = Cardinality(FidsOf(s)) + Cardinality(ProcsOf(s))
      BY DEF SessionRefcount
    <2>1. Counted(sess[s], Cardinality(FidsOf(s)) + NProcs(sess[s]), Cardinality(DirFids(s)))
      BY XSessionAssumption, SessionFacts
    <2>2. sess[s].refcount = Cardinality(FidsOf(s)) + NProcs(sess[s])
      BY <2>1 DEF Counted, NoSession
    <2> QED
      BY <2>2, XSessionAssumption, ProcsCounted
  <1> QED
    BY <1>1, XSessionInvariant, PTL

\* spfile_incref and spfile_decref on the directory of a session: its count is
\* exact, so the session is not freed under a fid or a process.
THEOREM XSessionSroot ==
    ASSUME PlainUses
    PROVE  Spec => []SrootRefcount
  <1>1. IInv => SrootRefcount
    <2> SUFFICES ASSUME IInv, NEW s \in Sessions, Exists(s)
                 PROVE  sess[s].sref = 1 + (IF sess[s].listed THEN NFiles ELSE 0)
                                         + Cardinality({f \in FidsOf(s) : fid[f].at = "dir"})
      BY DEF SrootRefcount
    <2>1. Counted(sess[s], Cardinality(FidsOf(s)) + NProcs(sess[s]), Cardinality(DirFids(s)))
      BY XSessionAssumption, SessionFacts
    <2>2. sess[s] # NoSession
      BY DEF Exists, NoSession
    <2> QED
      BY <2>1, <2>2 DEF Counted, DirFids
  <1> QED
    BY <1>1, XSessionInvariant, PTL

\* wait_read, session_wipe, sigchld_notify and xflush: no read of "wait" sleeps
\* through the end of its session.
THEOREM XSessionWaitEnds ==
    ASSUME PlainUses
    PROVE  Spec => []WaitEnds
  <1>1. IInv => WaitEnds
    <2> SUFFICES ASSUME IInv PROVE WaitEnds
      OBVIOUS
    <2>1. \A s \in Sessions : WaitInv(s)
      BY DEF IInv
    <2>2. \A s \in Sessions : sess[s].waitreqs # {} => sess[s].state \in {"Initializing", "Running"}
      BY <2>1 DEF WaitInv
    <2>3. \A s \in Sessions : \A f \in sess[s].waitreqs :
             f \in Fids /\ fid[f].s = s /\ fid[f].req = "wait"
      BY <2>1 DEF WaitInv, FidsOf
    <2>4. ASSUME NEW f \in Fids, fid[f].req = "wait"
          PROVE  \E s \in Sessions : f \in sess[s].waitreqs
      <3>1. fid[f].at = "wait"
        BY <2>4 DEF IInv, FidOK
      <3>2. fid[f].s \in Sessions
        BY <3>1, XSessionAssumption, Outside DEF Places
      <3>3. f \in sess[fid[f].s].waitreqs
        BY <2>1, <2>4, <3>2 DEF WaitInv, FidsOf
      <3> QED
        BY <3>2, <3>3
    <2> QED
      BY <2>2, <2>3, <2>4 DEF WaitEnds
  <1> QED
    BY <1>1, XSessionInvariant, PTL

\* session_decref: a normal session goes with the last fid and the process that
\* refer to it.
THEOREM XSessionDisappears ==
    ASSUME PlainUses
    PROVE  Spec => []NormalDisappears
  <1>1. IInv => NormalDisappears
    <2> SUFFICES ASSUME IInv, NEW s \in Sessions, Exists(s)
                 PROVE  FidsOf(s) # {} \/ ProcsOf(s) # {}
      BY DEF NormalDisappears
    <2>1. Cardinality(FidsOf(s)) + NProcs(sess[s]) # 0 /\ NProcs(sess[s]) \in {0, 1}
      BY XSessionAssumption, SessionFacts
    <2>2. Cardinality({}) = 0
      BY FS_EmptySet
    <2>3. NProcs(sess[s]) # 0 => ProcsOf(s) # {}
      BY XSessionAssumption, ProcsCounted
    <2> QED
      BY <2>1, <2>2, <2>3
  <1> QED
    BY <1>1, XSessionInvariant, PTL

\* Where sigchld_notify can be when a child waits to be reaped.
PipeInv ==
    /\ proc \in [Pids -> {"none", "running", "zombie"}]
    /\ chld_fd \in BOOLEAN
    /\ notify \in 0..2
    /\ NoChildLost

\* sigchld_handler, sigchld_notify and sigchld_setup_pipe: whatever the clients
\* do, and wherever the signal comes, no child that has exited is forgotten.
THEOREM XSessionNoChildLost == Spec => []NoChildLost
  <1>0. Len(Steps) = 2 /\ Steps[1] = "setup" /\ Steps[2] = "reap"
    BY DEF Steps
  <1>1. Init => PipeInv
    BY DEF Init, PipeInv, NoChildLost
  <1>2. PipeInv /\ [Next]_vars => PipeInv'
    <2> SUFFICES ASSUME PipeInv, [Next]_vars PROVE PipeInv'
      OBVIOUS
    <2>1. CASE UNCHANGED <<proc, chld_fd, notify>>
      BY <2>1 DEF PipeInv, NoChildLost, Polls
    <2>2. ASSUME NEW f \in Fids, Message(f)
          PROVE  PipeInv'
      <3>1. CASE \E p \in Pids : xexec(f, p)
        BY <3>1 DEF xexec, PipeInv, NoChildLost, Polls
      <3>2. CASE ~\E p \in Pids : xexec(f, p)
        <4>1. UNCHANGED <<proc, chld_fd, notify>>
          BY <2>2, <3>2
          DEF Message, attach, clone_openfid, WalkFromRoot, WalkFromSession, clunk, wait_read,
              wait_flush, sctl_flush, wipe, type, tspawn
        <4> QED
          BY <2>1, <4>1
      <3> QED
        BY <3>1, <3>2
    <2>3. ASSUME NEW s \in Sessions, tspawn_done(s)
          PROVE  PipeInv'
      BY <2>1, <2>3 DEF tspawn_done
    <2>4. ASSUME NEW p \in Pids, sigchld_handler(p)
          PROVE  PipeInv'
      BY <2>4 DEF sigchld_handler, PipeInv, NoChildLost
    <2>5. CASE sigchld_notify
      BY <1>0, <2>5 DEF sigchld_notify, PipeInv, NoChildLost, Polls, Advance
    <2>6. CASE sigchld_setup_pipe
      BY <1>0, <2>6 DEF sigchld_setup_pipe, PipeInv, NoChildLost, Polls, Advance
    <2>7. ASSUME NEW p \in Pids, waitpid(p)
          PROVE  PipeInv'
      BY <2>7 DEF waitpid, PipeInv, NoChildLost, Polls
    <2>8. CASE sigchld_done
      BY <1>0, <2>8 DEF sigchld_done, PipeInv, NoChildLost, Polls, Advance
    <2>9. CASE UNCHANGED vars
      BY <2>1, <2>9 DEF vars
    <2> QED
      BY <2>2, <2>3, <2>4, <2>5, <2>6, <2>7, <2>8, <2>9 DEF Next, Notify
  <1>3. PipeInv => NoChildLost
    BY DEF PipeInv
  <1> QED
    BY <1>1, <1>2, <1>3, PTL DEF Spec

=============================================================================
