--------------------------- MODULE SpSrv_proofs ---------------------------
(***************************************************************************)
(* Proofs of the invariants of SpSrv, for any number of connections, tags  *)
(* and fids.                                                               *)
(***************************************************************************)
EXTENDS SpSrv, FiniteSetTheorems, TLAPS

-----------------------------------------------------------------------------
(* The inductive invariant.  ReqInv is about the requests and the replies  *)
(* of a connection, FidInv about its fids.                                 *)

\* t is in the chain of flushes of h.
InChain(c, h, t) == \E i \in DOMAIN work[c][h].flushreq : work[c][h].flushreq[i] = t

\* The chains of flushes: only the request of a chain's head has one, its
\* members are flushes of the head or of an earlier member, each flush is a
\* member of exactly one chain, once.
ChainInv(c) ==
    /\ \A t \in Tags : work[c][t].type = "flush" => \E h \in Tags : InChain(c, h, t)
    /\ \A h, t \in Tags : InChain(c, h, t) =>
          /\ work[c][h].type = "io"
          /\ work[c][t].type = "flush"
          /\ oldtag[c][t] = h \/ InChain(c, h, oldtag[c][t])
    /\ \A h, k, t \in Tags : InChain(c, h, t) /\ InChain(c, k, t) => h = k
    /\ \A h \in Tags : \A i, j \in DOMAIN work[c][h].flushreq : i < j =>
          /\ work[c][h].flushreq[i] # work[c][h].flushreq[j]
          /\ oldtag[c][work[c][h].flushreq[i]] # work[c][h].flushreq[j]

\* The replies: their requests, and the requests they flush, are not worked on.
OutInv(c) ==
    \A j \in DOMAIN out[c] :
        /\ out[c][j].tag \in sent[c]
        /\ out[c][j].tag \notin Working(c)
        /\ oldtag[c][out[c][j].tag] \notin Working(c)

\* No request or reply comes after the Rflush of its tag.
OrderInv(c) ==
    \A i, j \in DOMAIN out[c] : i < j =>
        /\ out[c][i].tag # out[c][j].tag
        /\ oldtag[c][out[c][i].tag] # out[c][j].tag

ReqInv(c) ==
    /\ Working(c) \subseteq sent[c]
    /\ \A t \in Tags : t \notin sent[c] => oldtag[c][t] = NOTAG
    /\ \A t \in Tags : work[c][t].type = "io" => oldtag[c][t] = NOTAG
    /\ ChainInv(c)
    /\ OutInv(c)
    /\ OrderInv(c)

FidInv(c) ==
    /\ \A n \in Fids :
          /\ fid[c][n].refcount = ClientRef(c, n) + Cardinality(Pending(c, n))
          /\ fid[c][n].refcount = 0 \/ fid[c][n].auth => fid[c][n].omode = "closed"
    /\ \A t \in Tags : work[c][t].type = "io" =>
          /\ work[c][t].fid \in Fids
          /\ fid[c][work[c][t].fid].omode # "closed"
          /\ ~fid[c][work[c][t].fid].auth

\* The type invariant and the facts that make it, FidRefcount, KeptFid and
\* FlushIsFinal inductive.
IInv == TypeOK /\ \A c \in Conns : ReqInv(c) /\ FidInv(c)

ReqTypeOK ==
    /\ work \in [Conns -> [Tags -> Spreq]]
    /\ out \in [Conns -> Seq(Reply)]
    /\ sent \in [Conns -> SUBSET Tags]
    /\ oldtag \in [Conns -> [Tags -> Tags \cup {NOTAG}]]

FidTypeOK ==
    /\ fid \in [Conns -> [Fids -> Spfid]]
    /\ owned \in [Conns -> SUBSET Fids]

-----------------------------------------------------------------------------
(* Frames: a connection whose state is unchanged keeps its invariant.      *)

\* ReqInv reads the requests, the replies and the client's tags of its own
\* connection only (srv->workreqs is filtered by req->conn).
LEMMA ReqFrame ==
    ASSUME NEW d \in Conns, ReqInv(d),
           work'[d] = work[d], out'[d] = out[d], sent'[d] = sent[d],
           oldtag'[d] = oldtag[d]
    PROVE  ReqInv(d)'
<1>1. Working(d)' = Working(d)
  BY DEF Working
<1>2. \A h, t : InChain(d, h, t)' <=> InChain(d, h, t)
  BY Zenon DEF InChain
<1>3. ChainInv(d)'
  BY <1>2 DEF ReqInv, ChainInv
<1>4. OutInv(d)' /\ OrderInv(d)'
  BY <1>1 DEF ReqInv, OutInv, OrderInv
<1> QED BY <1>1, <1>3, <1>4 DEF ReqInv

\* FidInv reads the fids and the kept requests of its own connection only.
LEMMA FidFrame ==
    ASSUME NEW d \in Conns, FidInv(d),
           work'[d] = work[d], fid'[d] = fid[d], owned'[d] = owned[d]
    PROVE  FidInv(d)'
BY DEF FidInv, ClientRef, Pending

-----------------------------------------------------------------------------
(* The kinds of steps of the request machinery.                            *)

\* A message that is answered at once.
AnsweredStep(c, t) ==
    /\ t \notin sent[c]
    /\ \A f \in sent[c] : oldtag[c][f] # t
    /\ sent' = [sent EXCEPT ![c] = @ \cup {t}]
    /\ Answer(c, t)
    /\ UNCHANGED <<work, oldtag>>

\* The server stops.
StopStep == UNCHANGED <<pool, fid, work, out, sent, oldtag, owned>>
            /\ srv' \in {"looping", "crashed"}

\* A handler of fcall.c for a message about a fid answers at once, hands the
\* request to the service, or crashes.
LEMMA FidMessageKinds ==
    ASSUME NEW c \in Conns, NEW t \in Tags, NEW n \in Fids, FidMessage(c, t, n)
    PROVE  \/ AnsweredStep(c, t)
           \/ \E flushable \in FlushAnswers : Keep(c, t, n, flushable)
           \/ StopStep
BY DEF FidMessage, sp_auth, sp_attach, sp_walk, sp_open, sp_create, sp_read,
       sp_write, sp_clunk, sp_clunk_rclose, sp_remove, sp_stat, sp_wstat, SameFid,
       AnsweredStep, StopStep, ClientSends, ClientTag

\* An answer at once keeps the requests and replies in order: the tag is new.
LEMMA AnsweredReq ==
    ASSUME ReqTypeOK, \A d \in Conns : ReqInv(d),
           NEW c \in Conns, NEW t \in Tags, AnsweredStep(c, t)
    PROVE  ReqTypeOK' /\ \A d \in Conns : ReqInv(d)'
<1>1. /\ work' = work /\ oldtag' = oldtag
      /\ sent' = [sent EXCEPT ![c] = @ \cup {t}]
      /\ out' = [out EXCEPT ![c] = Append(@, [tag |-> t, type |-> "R"])]
      /\ t \notin sent[c]
      /\ \A f \in sent[c] : oldtag[c][f] # t
  BY DEF AnsweredStep, Answer
<1>2. [tag |-> t, type |-> "R"] \in Reply
  BY DEF Reply
<1>3. ReqTypeOK'
  BY <1>1, <1>2 DEF ReqTypeOK
<1>4. ReqInv(c)'
  <2> DEFINE q == out[c]
             r == [tag |-> t, type |-> "R"]
  <2>1. /\ q \in Seq(Reply) /\ out'[c] = Append(q, r)
        /\ sent'[c] = sent[c] \cup {t} /\ Working(c)' = Working(c)
        /\ r.tag = t
    BY <1>1 DEF ReqTypeOK, Working
  <2>2. /\ DOMAIN out'[c] = 1 .. Len(q) + 1
        /\ \A i \in 1 .. Len(q) : out'[c][i] = q[i]
        /\ out'[c][Len(q) + 1] = r
        /\ DOMAIN q = 1 .. Len(q) /\ Len(q) \in Nat
    BY <2>1, <1>2
  <2>3. ReqInv(c) /\ oldtag[c][t] = NOTAG /\ t \notin Working(c) /\ NOTAG \notin Working(c)
    BY <1>1, SpSrvAssumption DEF ReqInv, Working
  <2> HIDE DEF q, r
  <2>4. OutInv(c)'
    BY <1>1, <2>1, <2>2, <2>3 DEF ReqInv, OutInv, q
  <2>5. OrderInv(c)'
    <3> SUFFICES ASSUME NEW i \in 1 .. Len(q) + 1, NEW j \in 1 .. Len(q) + 1, i < j
                 PROVE  /\ out'[c][i].tag # out'[c][j].tag
                        /\ oldtag[c][out'[c][i].tag] # out'[c][j].tag
      BY <1>1, <2>2 DEF OrderInv
    <3>1. i \in 1 .. Len(q) /\ out'[c][i] = q[i] /\ q[i].tag \in sent[c]
      BY <2>2, <2>3 DEF ReqInv, OutInv, q
    <3>2. CASE j = Len(q) + 1
      BY <1>1, <2>1, <2>2, <3>1, <3>2
    <3>3. CASE j \in 1 .. Len(q)
      BY <2>2, <2>3, <3>1, <3>3 DEF ReqInv, OrderInv, q
    <3> QED BY <3>2, <3>3, <2>2
  <2>6. ChainInv(c)'
    BY <1>1, <2>3 DEF ReqInv, ChainInv, InChain
  <2> QED BY <1>1, <2>1, <2>3, <2>4, <2>5, <2>6 DEF ReqInv
<1>5. ASSUME NEW d \in Conns, d # c PROVE ReqInv(d)'
  BY <1>1, <1>5, ReqFrame DEF ReqTypeOK
<1> QED BY <1>3, <1>4, <1>5

\* A request the service keeps has a new tag and no flush.
LEMMA KeepReq ==
    ASSUME ReqTypeOK, \A d \in Conns : ReqInv(d),
           NEW c \in Conns, NEW t \in Tags, NEW n \in Fids,
           NEW flushable \in FlushAnswers, Keep(c, t, n, flushable)
    PROVE  ReqTypeOK' /\ \A d \in Conns : ReqInv(d)'
<1> DEFINE r == IoReq(n, flushable)
<1>1. /\ out' = out /\ oldtag' = oldtag
      /\ sent' = [sent EXCEPT ![c] = @ \cup {t}]
      /\ work' = [work EXCEPT ![c][t] = r]
      /\ t \notin sent[c]
      /\ \A f \in sent[c] : oldtag[c][f] # t
  BY DEF Keep, ClientSends, ClientTag, IoReq
<1>2. r \in Spreq
  BY SpSrvAssumption DEF Spreq, IoReq
<1>3. ReqTypeOK'
  BY <1>1, <1>2 DEF ReqTypeOK
<1>4. ReqInv(c)'
  <2>1. /\ work[c][t].type = "none" /\ oldtag[c][t] = NOTAG
        /\ work \in [Conns -> [Tags -> Spreq]]
    BY <1>1 DEF ReqInv, Working, ReqTypeOK
  <2>2. /\ work'[c][t] = r
        /\ \A u \in Tags : u # t => work'[c][u] = work[c][u]
        /\ r.type = "io" /\ r.flushreq = <<>> /\ DOMAIN r.flushreq = {}
    BY <1>1, <2>1 DEF IoReq
  <2>3. \A u \in Tags : ~InChain(c, t, u)
    BY <2>1 DEF ReqInv, ChainInv
  <2>4. \A h, u \in Tags : InChain(c, h, u)' <=> InChain(c, h, u)
    BY <2>2, <2>3 DEF InChain
  <2>5. Working(c)' = Working(c) \cup {t}
    BY <2>2 DEF Working
  <2>6. \A h, u \in Tags : InChain(c, h, u) =>
          h # t /\ u # t /\ u \in sent[c] /\ oldtag[c][u] # t
    BY <1>1, <2>1 DEF ReqInv, ChainInv, Working
  <2> HIDE DEF r
  <2>7. ChainInv(c)'
    <3>1. \A u \in Tags : work'[c][u].type = "flush" => \E h \in Tags : InChain(c, h, u)'
      BY <2>2, <2>4 DEF ReqInv, ChainInv
    <3>2. \A h, u \in Tags : InChain(c, h, u)' =>
            /\ work'[c][h].type = "io" /\ work'[c][u].type = "flush"
            /\ oldtag'[c][u] = h \/ InChain(c, h, oldtag[c][u])'
      <4> SUFFICES ASSUME NEW h \in Tags, NEW u \in Tags, InChain(c, h, u)
                   PROVE  /\ work'[c][h].type = "io" /\ work'[c][u].type = "flush"
                          /\ oldtag'[c][u] = h \/ InChain(c, h, oldtag[c][u])'
        BY <2>4
      <4>1. work'[c][h].type = "io" /\ work'[c][u].type = "flush"
        BY <2>2, <2>6 DEF ReqInv, ChainInv
      <4>2. oldtag[c][u] = h \/ InChain(c, h, oldtag[c][u])
        BY DEF ReqInv, ChainInv
      <4>3. oldtag[c][u] = h \/ InChain(c, h, oldtag[c][u])'
        BY <4>2, <1>1, <2>2, <2>6 DEF InChain
      <4> QED BY <4>1, <4>3, <1>1
    <3>3. \A h, k, u \in Tags : InChain(c, h, u)' /\ InChain(c, k, u)' => h = k
      BY <2>4 DEF ReqInv, ChainInv
    <3>4. \A h \in Tags : \A i, j \in DOMAIN work'[c][h].flushreq : i < j =>
            /\ work'[c][h].flushreq[i] # work'[c][h].flushreq[j]
            /\ oldtag'[c][work'[c][h].flushreq[i]] # work'[c][h].flushreq[j]
      BY <1>1, <2>2 DEF ReqInv, ChainInv
    <3> QED BY <1>1, <3>1, <3>2, <3>3, <3>4 DEF ChainInv
  <2>8. OutInv(c)'
    BY <1>1, <2>5 DEF ReqInv, OutInv, ReqTypeOK
  <2>9. OrderInv(c)'
    BY <1>1 DEF ReqInv, OrderInv
  <2> QED BY <1>1, <2>1, <2>2, <2>5, <2>7, <2>8, <2>9 DEF ReqInv, ReqTypeOK
<1>5. ASSUME NEW d \in Conns, d # c PROVE ReqInv(d)'
  BY <1>1, <1>5, ReqFrame DEF ReqTypeOK
<1> QED BY <1>3, <1>4, <1>5

\* A server that stops changes no request.
LEMMA StopReq ==
    ASSUME ReqTypeOK, \A d \in Conns : ReqInv(d), UNCHANGED <<work, out, sent, oldtag>>
    PROVE  ReqTypeOK' /\ \A d \in Conns : ReqInv(d)'
BY ReqFrame DEF ReqTypeOK

\* The elements of a concatenation.
LEMMA ConcatElements ==
    ASSUME NEW S, NEW q \in Seq(S), NEW r \in Seq(S)
    PROVE  /\ q \o r \in Seq(S)
           /\ DOMAIN (q \o r) = 1 .. Len(q) + Len(r)
           /\ \A i \in 1 .. Len(q) : (q \o r)[i] = q[i]
           /\ \A i \in 1 .. Len(q) + Len(r) : i \notin 1 .. Len(q) =>
                i - Len(q) \in 1 .. Len(r) /\ (q \o r)[i] = r[i - Len(q)]
OBVIOUS

\* When replies are added at the end of those on their way, the invariants of
\* the replies hold if they hold of the old ones, of the new ones, and no old
\* one has or flushes the tag of a new one.
LEMMA OutExtend ==
    ASSUME NEW c \in Conns, out[c] \in Seq(Reply), NEW R \in Seq(Reply),
           out'[c] = out[c] \o R,
           \A i \in 1 .. Len(out[c]) :
                /\ out[c][i].tag \in sent'[c]
                /\ out[c][i].tag \notin Working(c)'
                /\ oldtag'[c][out[c][i].tag] \notin Working(c)'
                /\ \A j \in 1 .. Len(out[c]) : i < j =>
                     /\ out[c][i].tag # out[c][j].tag
                     /\ oldtag'[c][out[c][i].tag] # out[c][j].tag
                /\ \A j \in 1 .. Len(R) :
                     /\ out[c][i].tag # R[j].tag
                     /\ oldtag'[c][out[c][i].tag] # R[j].tag,
           \A i \in 1 .. Len(R) :
                /\ R[i].tag \in sent'[c]
                /\ R[i].tag \notin Working(c)'
                /\ oldtag'[c][R[i].tag] \notin Working(c)'
                /\ \A j \in 1 .. Len(R) : i < j =>
                     /\ R[i].tag # R[j].tag
                     /\ oldtag'[c][R[i].tag] # R[j].tag
    PROVE  OutInv(c)' /\ OrderInv(c)'
<1> DEFINE q == out[c]
           p == out'[c]
<1>1. /\ DOMAIN p = 1 .. Len(q) + Len(R)
      /\ \A i \in 1 .. Len(q) : p[i] = q[i]
      /\ \A i \in 1 .. Len(q) + Len(R) : i \notin 1 .. Len(q) =>
           i - Len(q) \in 1 .. Len(R) /\ p[i] = R[i - Len(q)]
  BY ConcatElements
<1>2. OutInv(c)'
  BY <1>1 DEF OutInv
<1>3. OrderInv(c)'
  <2>1. Len(q) \in Nat /\ Len(R) \in Nat
    OBVIOUS
  <2> SUFFICES ASSUME NEW i \in 1 .. Len(q) + Len(R), NEW j \in 1 .. Len(q) + Len(R), i < j
               PROVE  /\ p[i].tag # p[j].tag
                      /\ oldtag'[c][p[i].tag] # p[j].tag
    BY <1>1 DEF OrderInv
  <2>2. CASE j \in 1 .. Len(q)
    <3>1. i \in 1 .. Len(q)
      BY <2>1, <2>2
    <3>2. p[i] = q[i] /\ p[j] = q[j]
      BY <1>1, <2>2, <3>1
    <3> QED BY <2>2, <3>1, <3>2
  <2>3. CASE i \in 1 .. Len(q) /\ j \notin 1 .. Len(q)
    <3>1. p[i] = q[i] /\ p[j] = R[j - Len(q)] /\ j - Len(q) \in 1 .. Len(R)
      BY <1>1, <2>3
    <3> QED BY <2>3, <3>1
  <2>4. CASE i \notin 1 .. Len(q)
    <3>1. i - Len(q) < j - Len(q) /\ j \notin 1 .. Len(q)
      BY <2>1, <2>4
    <3>2. /\ p[i] = R[i - Len(q)] /\ i - Len(q) \in 1 .. Len(R)
          /\ p[j] = R[j - Len(q)] /\ j - Len(q) \in 1 .. Len(R)
      BY <1>1, <2>4, <3>1
    <3> QED BY <3>1, <3>2
  <2> QED BY <2>2, <2>3, <2>4
<1> QED BY <1>2, <1>3

\* The sequence of Rflushes of a chain has one reply per flush, in order.
LEMMA RflushesSeq ==
    ASSUME NEW s \in Seq(Tags)
    PROVE  /\ Rflushes(s) \in Seq(Reply)
           /\ Len(Rflushes(s)) = Len(s)
           /\ \A i \in 1 .. Len(s) : Rflushes(s)[i].tag = s[i]
<1>1. /\ DOMAIN Rflushes(s) = 1 .. Len(s) /\ Len(s) \in Nat
      /\ Rflushes(s) = [i \in 1 .. Len(s) |-> [tag |-> s[i], type |-> "Rflush"]]
  BY DEF Rflushes
<1>2. \A i \in 1 .. Len(s) : [tag |-> s[i], type |-> "Rflush"] \in Reply
  BY DEF Reply
<1> QED BY <1>1, <1>2

\* sp_respond answers the request first and its flushes after it.
LEMMA RepliesSeq ==
    ASSUME ReqTypeOK, NEW c \in Conns, NEW t \in Tags
    PROVE  LET s == work[c][t].flushreq
           IN  /\ s \in Seq(Tags)
               /\ Replies(c, t) \in Seq(Reply)
               /\ Len(Replies(c, t)) = Len(s) + 1
               /\ Replies(c, t)[1].tag = t
               /\ \A i \in 1 .. Len(s) : Replies(c, t)[i + 1].tag = s[i]
<1> DEFINE s == work[c][t].flushreq
           r == [tag |-> t, type |-> "R"]
<1>1. s \in Seq(Tags)
  BY DEF ReqTypeOK, Spreq
<1>2. r \in Reply /\ r.tag = t
  BY DEF Reply
<1>3. Replies(c, t) = <<r>> \o Rflushes(s)
  BY DEF Replies
<1> HIDE DEF s, r
<1>4. /\ Rflushes(s) \in Seq(Reply)
      /\ Len(Rflushes(s)) = Len(s)
      /\ \A i \in 1 .. Len(s) : Rflushes(s)[i].tag = s[i]
  BY <1>1, RflushesSeq
<1>5. /\ Replies(c, t) \in Seq(Reply)
      /\ Len(Replies(c, t)) = Len(s) + 1
      /\ Replies(c, t)[1].tag = t
      /\ \A i \in 1 .. Len(s) : Replies(c, t)[i + 1] = Rflushes(s)[i]
  BY <1>1, <1>2, <1>3, <1>4
<1> QED BY <1>1, <1>4, <1>5 DEF s

\* sp_respond for a kept request answers it and the flushes chained to it,
\* which leave srv->workreqs together.
LEMMA RespondReq ==
    ASSUME ReqTypeOK, \A d \in Conns : ReqInv(d),
           NEW c \in Conns, NEW t \in Tags, sp_respond(c, t)
    PROVE  ReqTypeOK' /\ \A d \in Conns : ReqInv(d)'
<1> DEFINE s == work[c][t].flushreq
           R == Replies(c, t)
           Gone == {t} \cup Chained(c, t)
<1>1. /\ sent' = sent /\ oldtag' = oldtag
      /\ out' = [out EXCEPT ![c] = out[c] \o R]
      /\ work' = [work EXCEPT ![c] = [u \in Tags |-> IF u \in Gone THEN NoReq ELSE work[c][u]]]
      /\ work[c][t].type = "io"
  BY DEF sp_respond, Forget
<1>2. /\ s \in Seq(Tags) /\ out[c] \in Seq(Reply) /\ R \in Seq(Reply)
      /\ Len(s) \in Nat /\ DOMAIN s = 1 .. Len(s)
      /\ Len(R) = Len(s) + 1 /\ R[1].tag = t
      /\ \A i \in 1 .. Len(s) : R[i + 1].tag = s[i]
  BY RepliesSeq DEF ReqTypeOK
<1>3. /\ NoReq \in Spreq /\ NoReq.type = "none" /\ NoReq.flushreq = <<>>
      /\ DOMAIN NoReq.flushreq = {}
  BY DEF NoReq, Spreq
<1>4. /\ t \in Gone
      /\ \A u : u \in Gone <=> (u = t \/ InChain(c, t, u))
      /\ \A i \in 1 .. Len(s) : s[i] \in Tags /\ InChain(c, t, s[i])
  <2>1. \A u : u \in Chained(c, t) <=> InChain(c, t, u)
    BY Zenon DEF Chained, InChain
  <2>2. \A i \in 1 .. Len(s) : s[i] \in Tags /\ InChain(c, t, s[i])
    BY <1>2, SMTT(60) DEF InChain
  <2> QED BY <2>1, <2>2
<1> HIDE DEF R, Gone
<1>5. ReqTypeOK'
  <2>1. out[c] \o R \in Seq(Reply)
    BY <1>2
  <2> QED BY <1>1, <1>2, <1>3, <2>1 DEF ReqTypeOK
<1>6. ReqInv(c)'
  <2>1. /\ ReqInv(c) /\ work \in [Conns -> [Tags -> Spreq]] /\ out \in [Conns -> Seq(Reply)]
        /\ sent \in [Conns -> SUBSET Tags]
    BY DEF ReqTypeOK
  <2>2. /\ out'[c] = out[c] \o R
        /\ \A u \in Tags : work'[c][u] = IF u \in Gone THEN NoReq ELSE work[c][u]
    BY <1>1, <2>1
  <2>3. /\ \A u \in Tags : u \in Gone => u \in Working(c)
        /\ \A u \in Tags : InChain(c, t, u) => work[c][u].type = "flush"
    BY <1>1, <1>4, <2>1 DEF ReqInv, ChainInv, Working
  <2>4. Working(c)' = Working(c) \ Gone
    BY <2>2, <1>3 DEF Working
  <2>5. oldtag[c][t] = NOTAG /\ NOTAG \notin Tags
    BY <1>1, <2>1, SpSrvAssumption DEF ReqInv
  <2>6. \A i \in 1 .. Len(s) : oldtag[c][s[i]] \in Gone
    BY <1>4, <2>1 DEF ReqInv, ChainInv
  <2>7. ChainInv(c)'
    <3>1. \A h, u \in Tags : InChain(c, h, u)' <=> (h # t /\ InChain(c, h, u))
      <4> SUFFICES ASSUME NEW h \in Tags, NEW u \in Tags
                   PROVE  InChain(c, h, u)' <=> (h # t /\ InChain(c, h, u))
        OBVIOUS
      <4>1. CASE h \in Gone
        <5>1. ~InChain(c, h, u)'
          BY <4>1, <2>2, <1>3 DEF InChain
        <5>2. h # t => ~InChain(c, h, u)
          BY <4>1, <1>4, <2>1 DEF ReqInv, ChainInv
        <5> QED BY <5>1, <5>2
      <4>2. CASE h \notin Gone
        BY <4>2, <2>2, <1>4 DEF InChain
      <4> QED BY <4>1, <4>2
    <3>2. \A h, u \in Tags : h # t /\ InChain(c, h, u) => h \notin Gone /\ u \notin Gone
      BY <1>1, <2>1, <1>4 DEF ReqInv, ChainInv
    <3>3. \A u \in Tags : work'[c][u].type = "flush" => \E h \in Tags : InChain(c, h, u)'
      <4> SUFFICES ASSUME NEW u \in Tags, work'[c][u].type = "flush"
                   PROVE  \E h \in Tags : InChain(c, h, u)'
        OBVIOUS
      <4>1. u \notin Gone /\ work[c][u].type = "flush"
        BY <2>2, <1>3
      <4>2. PICK h \in Tags : InChain(c, h, u)
        BY <4>1, <2>1 DEF ReqInv, ChainInv
      <4>3. h # t
        BY <4>1, <4>2, <1>4
      <4> QED BY <4>2, <4>3, <3>1
    <3>4. ASSUME NEW h \in Tags, NEW u \in Tags, InChain(c, h, u)'
          PROVE  /\ work'[c][h].type = "io" /\ work'[c][u].type = "flush"
                 /\ oldtag'[c][u] = h \/ InChain(c, h, oldtag[c][u])'
      <4>1. h # t /\ InChain(c, h, u) /\ h \notin Gone /\ u \notin Gone
        BY <3>1, <3>2, <3>4
      <4>2. /\ work[c][h].type = "io" /\ work[c][u].type = "flush"
            /\ oldtag[c][u] = h \/ InChain(c, h, oldtag[c][u])
        BY <4>1, <2>1 DEF ReqInv, ChainInv
      <4>3. InChain(c, h, oldtag[c][u]) => InChain(c, h, oldtag[c][u])'
        BY <4>1, <1>1, <2>2 DEF InChain
      <4> QED BY <4>1, <4>2, <4>3, <1>1, <2>2
    <3>5. \A h, k, u \in Tags : InChain(c, h, u)' /\ InChain(c, k, u)' => h = k
      BY <3>1, <2>1 DEF ReqInv, ChainInv
    <3>6. \A h \in Tags : \A i, j \in DOMAIN work'[c][h].flushreq : i < j =>
            /\ work'[c][h].flushreq[i] # work'[c][h].flushreq[j]
            /\ oldtag'[c][work'[c][h].flushreq[i]] # work'[c][h].flushreq[j]
      BY <1>1, <1>3, <2>1, <2>2 DEF ReqInv, ChainInv
    <3> QED BY <3>3, <3>4, <3>5, <3>6 DEF ChainInv
  <2>8. \A i \in 1 .. Len(R) : i = 1 \/ (i - 1 \in 1 .. Len(s) /\ R[i].tag = s[i - 1])
    <3> SUFFICES ASSUME NEW i \in 1 .. Len(R), i # 1
                 PROVE  i - 1 \in 1 .. Len(s) /\ R[i].tag = s[i - 1]
      OBVIOUS
    <3>1. i - 1 \in 1 .. Len(s) /\ (i - 1) + 1 = i
      BY <1>2
    <3> QED BY <3>1, <1>2
  <2>9. \A i \in 1 .. Len(R) :
            /\ R[i].tag \in Gone /\ R[i].tag \in Tags
            /\ oldtag[c][R[i].tag] \notin Working(c) \ Gone
    BY <1>2, <1>4, <2>5, <2>6, <2>8, ZenonT(60) DEF Working
  <2>10. \A i, j \in 1 .. Len(R) : i < j =>
            /\ R[i].tag # R[j].tag
            /\ oldtag[c][R[i].tag] # R[j].tag
    <3> SUFFICES ASSUME NEW i \in 1 .. Len(R), NEW j \in 1 .. Len(R), i < j
                 PROVE  /\ R[i].tag # R[j].tag
                        /\ oldtag[c][R[i].tag] # R[j].tag
      OBVIOUS
    <3>1. j - 1 \in 1 .. Len(s) /\ R[j].tag = s[j - 1]
      BY <2>8, <1>2
    <3>2. s[j - 1] \in Tags /\ work[c][s[j - 1]].type = "flush"
      BY <3>1, <1>4, <2>3
    <3>3. CASE i = 1
      BY <3>1, <3>2, <3>3, <1>1, <1>2, <2>5
    <3>4. CASE i # 1
      <4>1. i - 1 \in 1 .. Len(s) /\ R[i].tag = s[i - 1]
        BY <2>8, <3>4
      <4>3. i - 1 < j - 1
        BY <1>2
      <4>2. s[i - 1] # s[j - 1] /\ oldtag[c][s[i - 1]] # s[j - 1]
        BY <4>1, <4>3, <3>1, <1>2, <2>1 DEF ReqInv, ChainInv
      <4> QED BY <4>1, <4>2, <3>1
    <3> QED BY <3>3, <3>4
  <2>11. OutInv(c)' /\ OrderInv(c)'
    <3>1. \A i \in 1 .. Len(R) :
            /\ R[i].tag \in sent'[c]
            /\ R[i].tag \notin Working(c)'
            /\ oldtag'[c][R[i].tag] \notin Working(c)'
            /\ \A j \in 1 .. Len(R) : i < j =>
                 /\ R[i].tag # R[j].tag
                 /\ oldtag'[c][R[i].tag] # R[j].tag
      BY <1>1, <2>1, <2>3, <2>4, <2>9, <2>10 DEF ReqInv
    <3>2. DOMAIN out[c] = 1 .. Len(out[c])
      BY <1>2
    <3>3. \A i \in 1 .. Len(out[c]) :
            /\ out[c][i].tag \in sent'[c]
            /\ out[c][i].tag \notin Working(c)
            /\ oldtag'[c][out[c][i].tag] \notin Working(c)
            /\ \A j \in 1 .. Len(out[c]) : i < j =>
                 /\ out[c][i].tag # out[c][j].tag
                 /\ oldtag'[c][out[c][i].tag] # out[c][j].tag
      BY <1>1, <2>1, <3>2 DEF ReqInv, OutInv, OrderInv
    <3>4. \A j \in 1 .. Len(R) : R[j].tag \in Working(c)
      BY <2>3, <2>9
    <3>5. \A i \in 1 .. Len(out[c]) :
            /\ out[c][i].tag \in sent'[c]
            /\ out[c][i].tag \notin Working(c)'
            /\ oldtag'[c][out[c][i].tag] \notin Working(c)'
            /\ \A j \in 1 .. Len(out[c]) : i < j =>
                 /\ out[c][i].tag # out[c][j].tag
                 /\ oldtag'[c][out[c][i].tag] # out[c][j].tag
            /\ \A j \in 1 .. Len(R) :
                 /\ out[c][i].tag # R[j].tag
                 /\ oldtag'[c][out[c][i].tag] # R[j].tag
      BY <2>4, <3>3, <3>4
    <3>6. out[c] \in Seq(Reply) /\ R \in Seq(Reply) /\ out'[c] = out[c] \o R
      BY <1>2, <2>2
    <3> QED BY ONLY c \in Conns, <3>1, <3>5, <3>6, OutExtend
  <2>12. \A u \in Tags : work'[c][u].type = "io" => oldtag'[c][u] = NOTAG
    BY <1>1, <1>3, <2>1, <2>2 DEF ReqInv
  <2> QED BY <1>1, <2>1, <2>4, <2>7, <2>11, <2>12 DEF ReqInv
<1>7. ASSUME NEW d \in Conns, d # c PROVE ReqInv(d)'
  BY <1>1, <1>7, ReqFrame DEF ReqTypeOK
<1> QED BY <1>5, <1>6, <1>7

\* A Tflush that is answered at once: its tag is new, and what it flushes is
\* not worked on any more.
LEMMA FlushNowReq ==
    ASSUME ReqTypeOK, \A d \in Conns : ReqInv(d),
           NEW c \in Conns, NEW t \in Tags, NEW o \in Tags,
           ClientTag(c, t), o # t,
           sent' = [sent EXCEPT ![c] = @ \cup {t}],
           oldtag' = [oldtag EXCEPT ![c][t] = o],
           out' = [out EXCEPT ![c] = @ \o Rflushes(<<t>>)],
           \/ o \notin Working(c) /\ work' = work
           \/ AnsweredByFlush(c, o) /\ Forget(c, {o})
    PROVE  ReqTypeOK' /\ \A d \in Conns : ReqInv(d)'
<1> DEFINE R == Rflushes(<<t>>)
<1>1. /\ t \notin sent[c] /\ \A f \in sent[c] : oldtag[c][f] # t
      /\ work \in [Conns -> [Tags -> Spreq]] /\ out \in [Conns -> Seq(Reply)]
      /\ sent \in [Conns -> SUBSET Tags]
      /\ oldtag \in [Conns -> [Tags -> Tags \cup {NOTAG}]]
      /\ ReqInv(c)
  BY DEF ClientTag, ReqTypeOK
<1>2. R \in Seq(Reply) /\ Len(R) = 1 /\ R[1].tag = t
  <2>1. <<t>> \in Seq(Tags) /\ Len(<<t>>) = 1 /\ <<t>>[1] = t /\ 1 \in 1 .. 1
    OBVIOUS
  <2> QED BY <2>1, RflushesSeq
<1>3. /\ NoReq \in Spreq /\ NoReq.type = "none" /\ NoReq.flushreq = <<>>
      /\ DOMAIN NoReq.flushreq = {}
  BY DEF NoReq, Spreq
<1>4. /\ work' \in [Conns -> [Tags -> Spreq]]
      /\ \A d \in Conns : d # c => work'[d] = work[d]
      /\ \A u \in Tags : u # o => work'[c][u] = work[c][u]
      /\ \/ work'[c][o] = work[c][o] /\ work[c][o].type = "none"
         \/ work'[c][o] = NoReq /\ work[c][o].type = "io" /\ work[c][o].flushreq = <<>>
  <2>1. CASE o \notin Working(c) /\ work' = work
    BY <1>1, <2>1 DEF Working
  <2>2. CASE AnsweredByFlush(c, o) /\ Forget(c, {o})
    <3>1. /\ work' = [work EXCEPT ![c] =
                       [u \in Tags |-> IF u \in {o} THEN NoReq ELSE work[c][u]]]
          /\ work[c][o].type = "io" /\ work[c][o].flushreq = <<>>
      BY <2>2 DEF Forget, AnsweredByFlush
    <3> QED BY <1>1, <1>3, <3>1
  <2> QED BY <2>1, <2>2
<1> HIDE DEF R
<1>5. ReqTypeOK'
  <2>1. out[c] \o R \in Seq(Reply)
    BY <1>1, <1>2
  <2> QED BY <1>1, <1>4, <2>1 DEF ReqTypeOK, R
<1>6. ReqInv(c)'
  <2>1. /\ out'[c] = out[c] \o R
        /\ sent'[c] = sent[c] \cup {t}
        /\ \A u \in Tags : oldtag'[c][u] = IF u = t THEN o ELSE oldtag[c][u]
    BY <1>1 DEF R
  <2>2. Working(c)' = Working(c) \ {o} /\ t \notin Working(c)
    BY <1>1, <1>3, <1>4 DEF Working, ReqInv
  <2>3. \A u \in Tags : ~InChain(c, o, u) /\ ~InChain(c, t, u)
    <3>1. work[c][t].type # "io"
      BY <2>2 DEF Working
    <3>2. work[c][o].type = "none" \/ DOMAIN work[c][o].flushreq = {}
      BY <1>4
    <3> QED BY <1>1, <3>1, <3>2 DEF ReqInv, ChainInv, InChain
  <2>4. \A h, u \in Tags : InChain(c, h, u)' <=> InChain(c, h, u)
    <3> SUFFICES ASSUME NEW h \in Tags, NEW u \in Tags
                 PROVE  InChain(c, h, u)' <=> InChain(c, h, u)
      OBVIOUS
    <3>1. CASE h # o
      BY <1>4, <3>1 DEF InChain
    <3>2. CASE h = o
      BY <1>3, <1>4, <2>3, <3>2 DEF InChain
    <3> QED BY <3>1, <3>2
  <2>5. \A h, u \in Tags : InChain(c, h, u) => h # o /\ u # o /\ u # t
    BY <1>1, <1>4, <2>2, <2>3 DEF ReqInv, ChainInv, Working
  <2>6. ChainInv(c)'
    <3>1. \A u \in Tags : work'[c][u].type = "flush" => \E h \in Tags : InChain(c, h, u)'
      <4>1. \A u \in Tags : work'[c][u].type = "flush" => work[c][u].type = "flush"
        BY <1>3, <1>4
      <4> QED BY <4>1, <2>4, <1>1 DEF ReqInv, ChainInv
    <3>2. ASSUME NEW h \in Tags, NEW u \in Tags, InChain(c, h, u)'
          PROVE  /\ work'[c][h].type = "io" /\ work'[c][u].type = "flush"
                 /\ oldtag'[c][u] = h \/ InChain(c, h, oldtag[c][u])'
      <4>1. InChain(c, h, u) /\ h # o /\ u # o /\ u # t
        BY <2>4, <2>5, <3>2
      <4>2. /\ work[c][h].type = "io" /\ work[c][u].type = "flush"
            /\ oldtag[c][u] = h \/ InChain(c, h, oldtag[c][u])
        BY <4>1, <1>1 DEF ReqInv, ChainInv
      <4>3. InChain(c, h, oldtag[c][u]) => InChain(c, h, oldtag[c][u])'
        BY <4>1, <1>4, <2>1 DEF InChain
      <4> QED BY <4>1, <4>2, <4>3, <1>4, <2>1
    <3>3. \A h, k, u \in Tags : InChain(c, h, u)' /\ InChain(c, k, u)' => h = k
      BY <2>4, <1>1 DEF ReqInv, ChainInv
    <3>4. ASSUME NEW h \in Tags, NEW i \in DOMAIN work'[c][h].flushreq,
                 NEW j \in DOMAIN work'[c][h].flushreq, i < j
          PROVE  /\ work'[c][h].flushreq[i] # work'[c][h].flushreq[j]
                 /\ oldtag'[c][work'[c][h].flushreq[i]] # work'[c][h].flushreq[j]
      <4>1. h # o
        <5>1. DOMAIN work'[c][o].flushreq = {}
          <6>1. CASE work'[c][o] = work[c][o] /\ work[c][o].type = "none"
            <7>1. work[c][o].flushreq \in Seq(Tags)
              BY <1>1 DEF Spreq
            <7>2. \A u \in DOMAIN work[c][o].flushreq : work[c][o].flushreq[u] \in Tags
              BY <7>1
            <7> QED BY <6>1, <7>2, <2>3 DEF InChain
          <6>2. CASE work'[c][o] = NoReq
            BY <6>2, <1>3
          <6> QED BY <6>1, <6>2, <1>4
        <5> QED BY <5>1, <3>4
      <4>2. work'[c][h] = work[c][h] /\ work[c][h].flushreq[i] \in Tags
        BY <4>1, <1>1, <1>4, <3>4 DEF Spreq
      <4>3. InChain(c, h, work[c][h].flushreq[i])
        BY <4>2, <3>4 DEF InChain
      <4>4. oldtag'[c][work[c][h].flushreq[i]] = oldtag[c][work[c][h].flushreq[i]]
        BY <4>2, <4>3, <2>1, <2>5
      <4>5. /\ work[c][h].flushreq[i] # work[c][h].flushreq[j]
            /\ oldtag[c][work[c][h].flushreq[i]] # work[c][h].flushreq[j]
        <5>1. i \in DOMAIN work[c][h].flushreq /\ j \in DOMAIN work[c][h].flushreq
          BY <3>4, <4>2
        <5> QED BY <3>4, <5>1, <1>1 DEF ReqInv, ChainInv
      <4> QED BY <4>2, <4>4, <4>5, Zenon
    <3> QED BY <3>1, <3>2, <3>3, <3>4 DEF ChainInv
  <2>7. OutInv(c)' /\ OrderInv(c)'
    <3>1. \A i \in 1 .. Len(R) :
            /\ R[i].tag \in sent'[c]
            /\ R[i].tag \notin Working(c)'
            /\ oldtag'[c][R[i].tag] \notin Working(c)'
            /\ \A j \in 1 .. Len(R) : i < j =>
                 /\ R[i].tag # R[j].tag
                 /\ oldtag'[c][R[i].tag] # R[j].tag
      <4>1. \A i \in 1 .. Len(R) : i = 1 /\ R[i].tag = t
        BY <1>2
      <4> QED BY <4>1, <2>1, <2>2
    <3>2. DOMAIN out[c] = 1 .. Len(out[c]) /\ \A i \in 1 .. Len(out[c]) : out[c][i].tag \in Tags
      <4>1. out[c] \in Seq(Reply) /\ \A r \in Reply : r.tag \in Tags
        BY <1>1 DEF Reply
      <4> QED BY <4>1
    <3>3. \A i \in 1 .. Len(out[c]) :
            /\ out[c][i].tag \in sent[c] /\ out[c][i].tag # t
            /\ oldtag'[c][out[c][i].tag] = oldtag[c][out[c][i].tag]
            /\ oldtag[c][out[c][i].tag] # t
      BY <1>1, <2>1, <3>2 DEF ReqInv, OutInv
    <3>4. \A i \in 1 .. Len(out[c]) :
            /\ out[c][i].tag \in sent'[c]
            /\ out[c][i].tag \notin Working(c)'
            /\ oldtag'[c][out[c][i].tag] \notin Working(c)'
            /\ \A j \in 1 .. Len(out[c]) : i < j =>
                 /\ out[c][i].tag # out[c][j].tag
                 /\ oldtag'[c][out[c][i].tag] # out[c][j].tag
            /\ \A j \in 1 .. Len(R) :
                 /\ out[c][i].tag # R[j].tag
                 /\ oldtag'[c][out[c][i].tag] # R[j].tag
      <4>1. \A j \in 1 .. Len(R) : R[j].tag = t
        BY <1>2
      <4>2. \A i \in 1 .. Len(out[c]) :
              /\ out[c][i].tag \notin Working(c)
              /\ oldtag[c][out[c][i].tag] \notin Working(c)
              /\ \A j \in 1 .. Len(out[c]) : i < j =>
                   /\ out[c][i].tag # out[c][j].tag
                   /\ oldtag[c][out[c][i].tag] # out[c][j].tag
        BY <1>1, <3>2 DEF ReqInv, OutInv, OrderInv
      <4> QED BY <2>1, <2>2, <3>3, <4>1, <4>2
    <3>5. out[c] \in Seq(Reply) /\ R \in Seq(Reply) /\ out'[c] = out[c] \o R
      BY <1>1, <1>2, <2>1
    <3> QED BY ONLY c \in Conns, <3>1, <3>4, <3>5, OutExtend
  <2>8. \A u \in Tags : work'[c][u].type = "io" => oldtag'[c][u] = NOTAG
    BY <1>1, <1>3, <1>4, <2>1, <2>2 DEF ReqInv, Working
  <2> QED BY <1>1, <2>1, <2>2, <2>6, <2>7, <2>8 DEF ReqInv
<1>7. ASSUME NEW d \in Conns, d # c PROVE ReqInv(d)'
  BY <1>1, <1>4, <1>7, ReqFrame
<1> QED BY <1>5, <1>6, <1>7

\* InsertAt puts an element at position k and moves those from k on.
LEMMA InsertAtElements ==
    ASSUME NEW S, NEW s \in Seq(S), NEW e \in S, NEW k \in 1 .. Len(s) + 1
    PROVE  /\ InsertAt(s, k, e) \in Seq(S)
           /\ DOMAIN InsertAt(s, k, e) = 1 .. Len(s) + 1
           /\ InsertAt(s, k, e)[k] = e
           /\ \A i \in 1 .. k - 1 : i \in 1 .. Len(s) /\ InsertAt(s, k, e)[i] = s[i]
           /\ \A i \in k + 1 .. Len(s) + 1 :
                i - 1 \in 1 .. Len(s) /\ InsertAt(s, k, e)[i] = s[i - 1]
<1> DEFINE a == SubSeq(s, 1, k - 1)
           b == SubSeq(s, k, Len(s))
<1>1. Len(s) \in Nat /\ k \in Nat
  OBVIOUS
<1>2. a \in Seq(S) /\ Len(a) = k - 1 /\ \A i \in 1 .. k - 1 : a[i] = s[i]
  BY <1>1
<1>3. b \in Seq(S) /\ Len(b) = Len(s) - k + 1 /\ \A i \in 1 .. Len(s) - k + 1 : b[i] = s[k + i - 1]
  BY <1>1
<1>4. InsertAt(s, k, e) = (a \o <<e>>) \o b
  BY DEF InsertAt
<1> HIDE DEF a, b
<1>5. /\ a \o <<e>> \in Seq(S) /\ Len(a \o <<e>>) = k
      /\ \A i \in 1 .. k - 1 : (a \o <<e>>)[i] = s[i]
      /\ (a \o <<e>>)[k] = e
  BY <1>1, <1>2
<1> DEFINE x == a \o <<e>>
<1> HIDE DEF x
<1>6. /\ x \o b \in Seq(S) /\ DOMAIN (x \o b) = 1 .. Len(s) + 1
      /\ \A i \in 1 .. k : (x \o b)[i] = x[i]
      /\ \A i \in k + 1 .. Len(s) + 1 : (x \o b)[i] = b[i - k]
  <2>1. x \in Seq(S) /\ Len(x) = k /\ Len(b) = Len(s) - k + 1
    BY <1>3, <1>5 DEF x
  <2>2. /\ x \o b \in Seq(S) /\ DOMAIN (x \o b) = 1 .. Len(x) + Len(b)
        /\ \A i \in 1 .. Len(x) : (x \o b)[i] = x[i]
        /\ \A i \in 1 .. Len(x) + Len(b) : i \notin 1 .. Len(x) =>
             i - Len(x) \in 1 .. Len(b) /\ (x \o b)[i] = b[i - Len(x)]
    BY <1>3, <2>1, ConcatElements
  <2> QED BY <1>1, <2>1, <2>2
<1>7. \A i \in k + 1 .. Len(s) + 1 : i - 1 \in 1 .. Len(s) /\ b[i - k] = s[i - 1]
  BY <1>1, <1>3
<1> QED BY <1>1, <1>4, <1>5, <1>6, <1>7 DEF x

\* The place of a new flush in the chain: right behind the request it flushes.
LEMMA ChainPlace ==
    ASSUME ReqTypeOK, NEW c \in Conns, ReqInv(c), NEW o \in Tags, o \in Working(c)
    PROVE  LET h == FlushHead(c, o)
               s == work[c][h].flushreq
               k == ChainAt(c, o, s)
           IN  /\ h \in Tags /\ work[c][h].type = "io"
               /\ s \in Seq(Tags) /\ k \in 1 .. Len(s) + 1
               /\ k = 1 => o = h
               /\ k # 1 => k - 1 \in 1 .. Len(s) /\ s[k - 1] = o
<1>1. work[c][o].type \in {"io", "flush"} /\ \A u \in Tags : work[c][u].flushreq \in Seq(Tags)
  BY DEF ReqTypeOK, Spreq, Working
<1>2. CASE work[c][o].type = "io"
  BY <1>1, <1>2 DEF FlushHead, ChainAt
<1>3. CASE work[c][o].type = "flush"
  <2> DEFINE h == FlushHead(c, o)
             s == work[c][h].flushreq
             m == CHOOSE i \in DOMAIN s : s[i] = o
  <2>1. \E g \in Tags : \E i \in DOMAIN work[c][g].flushreq : work[c][g].flushreq[i] = o
    BY <1>3 DEF ReqInv, ChainInv, InChain
  <2>2. h = CHOOSE g \in Tags : \E i \in DOMAIN work[c][g].flushreq : work[c][g].flushreq[i] = o
    BY <1>3 DEF FlushHead
  <2>3. h \in Tags /\ \E i \in DOMAIN s : s[i] = o
    BY <2>1, <2>2
  <2>4. InChain(c, h, o)
    BY <2>3 DEF InChain
  <2>5. work[c][h].type = "io" /\ s \in Seq(Tags)
    BY <1>1, <2>3, <2>4 DEF ReqInv, ChainInv
  <2>6. ChainAt(c, o, s) = 1 + m
    BY <1>3 DEF ChainAt
  <2> HIDE DEF h
  <2>7. m \in DOMAIN s /\ s[m] = o /\ DOMAIN s = 1 .. Len(s) /\ Len(s) \in Nat
    BY <2>3, <2>5
  <2> HIDE DEF m, s
  <2>8. 1 + m \in 1 .. Len(s) + 1 /\ 1 + m # 1 /\ (1 + m) - 1 = m
    BY <2>7
  <2> QED BY <2>3, <2>5, <2>6, <2>7, <2>8 DEF h, s
<1> QED BY <1>1, <1>2, <1>3

\* A Tflush that waits joins the chain right behind what it flushes.
LEMMA FlushWaitsReq ==
    ASSUME ReqTypeOK, \A d \in Conns : ReqInv(d),
           NEW c \in Conns, NEW t \in Tags, NEW o \in Tags,
           NEW h \in Tags, NEW s \in Seq(Tags), NEW k \in 1 .. Len(s) + 1,
           s = work[c][h].flushreq, work[c][h].type = "io",
           k = 1 => o = h,
           k # 1 => k - 1 \in 1 .. Len(s) /\ s[k - 1] = o,
           ClientTag(c, t), o # t,
           sent' = [sent EXCEPT ![c] = @ \cup {t}],
           oldtag' = [oldtag EXCEPT ![c][t] = o],
           out' = out,
           work' = [work EXCEPT ![c][t] = FlushReq,
                                ![c][h].flushreq = InsertAt(s, k, t)]
    PROVE  ReqTypeOK' /\ \A d \in Conns : ReqInv(d)'
<1> DEFINE r == InsertAt(s, k, t)
<1>1. /\ t \notin sent[c] /\ \A f \in sent[c] : oldtag[c][f] # t
      /\ work \in [Conns -> [Tags -> Spreq]] /\ out \in [Conns -> Seq(Reply)]
      /\ sent \in [Conns -> SUBSET Tags]
      /\ oldtag \in [Conns -> [Tags -> Tags \cup {NOTAG}]]
      /\ ReqInv(c)
  BY DEF ClientTag, ReqTypeOK
<1>2. Len(s) \in Nat /\ DOMAIN s = 1 .. Len(s) /\ k \in Nat
  OBVIOUS
<1>3. work' = [work EXCEPT ![c][t] = FlushReq, ![c][h].flushreq = r]
  OBVIOUS
<1>4. work[c][t].type = "none" /\ h # t /\ t \notin Working(c)
  BY <1>1, <1>2 DEF ReqInv, Working
<1>5. /\ r \in Seq(Tags) /\ DOMAIN r = 1 .. Len(s) + 1
      /\ r[k] = t
      /\ \A i \in 1 .. k - 1 : i \in 1 .. Len(s) /\ r[i] = s[i]
      /\ \A i \in k + 1 .. Len(s) + 1 : i - 1 \in 1 .. Len(s) /\ r[i] = s[i - 1]
  BY ONLY s \in Seq(Tags), t \in Tags, k \in 1 .. Len(s) + 1, InsertAtElements
<1> HIDE DEF r
<1>6. FlushReq \in Spreq /\ FlushReq.type = "flush" /\ DOMAIN FlushReq.flushreq = {}
  BY DEF FlushReq, Spreq
<1>7. /\ work' \in [Conns -> [Tags -> Spreq]]
      /\ \A d \in Conns : d # c => work'[d] = work[d]
      /\ work'[c][t] = FlushReq
      /\ \A u \in Tags : u # t => work'[c][u].type = work[c][u].type
      /\ \A u \in Tags : u # t /\ u # h => work'[c][u].flushreq = work[c][u].flushreq
      /\ work'[c][h].flushreq = r
  BY <1>1, <1>2, <1>3, <1>4, <1>5, <1>6 DEF Spreq
<1>8. ReqTypeOK'
  <2>1. /\ sent' \in [Conns -> SUBSET Tags]
        /\ oldtag' \in [Conns -> [Tags -> Tags \cup {NOTAG}]]
    BY ONLY <1>1, o \in Tags, t \in Tags, c \in Conns,
            sent' = [sent EXCEPT ![c] = @ \cup {t}],
            oldtag' = [oldtag EXCEPT ![c][t] = o]
  <2> QED BY ONLY <1>1, <1>7, <2>1, out' = out DEF ReqTypeOK
<1>9. ReqInv(c)'
  <2>1. /\ sent'[c] = sent[c] \cup {t}
        /\ \A u \in Tags : oldtag'[c][u] = IF u = t THEN o ELSE oldtag[c][u]
    BY <1>1
  <2>2. Working(c)' = Working(c) \cup {t}
    BY <1>6, <1>7 DEF Working
  <2>3. /\ \A g, u \in Tags : InChain(c, g, u) => g # t /\ u # t /\ u \in sent[c]
        /\ \A i \in 1 .. Len(s) : s[i] \in Tags /\ InChain(c, h, s[i]) /\ s[i] # t
        /\ \A i \in 1 .. Len(s) : s[i] # h
    <3>1. \A g, u \in Tags : InChain(c, g, u) => g # t /\ u # t /\ u \in sent[c]
      BY <1>1, <1>4 DEF ReqInv, ChainInv, Working
    <3>2. \A i \in 1 .. Len(s) : s[i] \in Tags /\ InChain(c, h, s[i])
      BY <1>2 DEF InChain
    <3> QED BY <3>1, <3>2, <1>1, <1>2 DEF ReqInv, ChainInv
  <2>4. \A u : InChain(c, h, u)' <=> (u = t \/ InChain(c, h, u))
    <3>1. \A i \in 1 .. Len(s) + 1 : r[i] = t \/ InChain(c, h, r[i])
      <4> SUFFICES ASSUME NEW i \in 1 .. Len(s) + 1 PROVE r[i] = t \/ InChain(c, h, r[i])
        OBVIOUS
      <4>1. i \in 1 .. k - 1 \/ i = k \/ i \in k + 1 .. Len(s) + 1
        BY <1>2
      <4> QED BY <4>1, <1>5, <2>3
    <3>2. \A i \in 1 .. Len(s) : \E j \in 1 .. Len(s) + 1 : r[j] = s[i]
      <4> SUFFICES ASSUME NEW i \in 1 .. Len(s) PROVE \E j \in 1 .. Len(s) + 1 : r[j] = s[i]
        OBVIOUS
      <4>1. CASE i \in 1 .. k - 1
        BY <4>1, <1>2, <1>5
      <4>2. CASE i \notin 1 .. k - 1
        <5>1. i + 1 \in k + 1 .. Len(s) + 1 /\ (i + 1) - 1 = i /\ i + 1 \in 1 .. Len(s) + 1
          BY <4>2, <1>2
        <5> QED BY <5>1, <1>5
      <4> QED BY <4>1, <4>2
    <3>3. \A u : InChain(c, h, u)' <=> \E i \in 1 .. Len(s) + 1 : r[i] = u
      BY <1>5, <1>7, ZenonT(60) DEF InChain
    <3>4. \A u : InChain(c, h, u) <=> \E i \in 1 .. Len(s) : s[i] = u
      BY <1>2, Zenon DEF InChain
    <3>5. k \in 1 .. Len(s) + 1 /\ r[k] = t
      BY <1>5
    <3> QED BY ONLY <3>1, <3>2, <3>3, <3>4, <3>5, Zenon
  <2>5. \A g \in Tags : \A u : g # h => (InChain(c, g, u)' <=> InChain(c, g, u))
    <3> SUFFICES ASSUME NEW g \in Tags, NEW u, g # h
                 PROVE  InChain(c, g, u)' <=> InChain(c, g, u)
      OBVIOUS
    <3>1. CASE g = t
      <4>1. ~InChain(c, t, u)'
        BY <1>6, <1>7 DEF InChain
      <4>2. ~InChain(c, t, u)
        <5>1. InChain(c, t, u) => u \in Tags
          BY <1>1 DEF InChain, Spreq
        <5> QED BY <5>1, <2>3
      <4> QED BY <3>1, <4>1, <4>2
    <3>2. CASE g # t
      BY <3>2, <1>7 DEF InChain
    <3> QED BY <3>1, <3>2
  <2>6. ChainInv(c)'
    <3>1. ASSUME NEW u \in Tags, work'[c][u].type = "flush"
          PROVE  \E g \in Tags : InChain(c, g, u)'
      <4>1. CASE u = t
        BY <4>1, <1>2, <2>4
      <4>2. CASE u # t
        <5>1. PICK g \in Tags : InChain(c, g, u)
          BY <3>1, <4>2, <1>1, <1>7 DEF ReqInv, ChainInv
        <5> QED BY <5>1, <2>4, <2>5
      <4> QED BY <4>1, <4>2
    <3>2. ASSUME NEW g \in Tags, NEW u \in Tags, InChain(c, g, u)'
          PROVE  /\ work'[c][g].type = "io" /\ work'[c][u].type = "flush"
                 /\ oldtag'[c][u] = g \/ InChain(c, g, oldtag[c][u])'
      <4>1. CASE u = t
        <5>1. g = h
          BY <3>2, <4>1, <2>3, <2>5
        <5>2. o = h \/ InChain(c, h, o)
          BY <1>2, <2>3
        <5> QED BY <4>1, <5>1, <5>2, <1>2, <1>4, <1>6, <1>7, <2>1, <2>4
      <4>2. CASE u # t
        <5>1. InChain(c, g, u) /\ g # t
          BY <3>2, <4>2, <2>3, <2>4, <2>5
        <5>2. /\ work[c][g].type = "io" /\ work[c][u].type = "flush"
              /\ oldtag[c][u] = g \/ InChain(c, g, oldtag[c][u])
          BY <5>1, <1>1 DEF ReqInv, ChainInv
        <5>3. oldtag'[c][u] = oldtag[c][u]
          BY <4>2, <2>1
        <5> QED BY <4>2, <5>1, <5>2, <5>3, <1>7, <2>4, <2>5
      <4> QED BY <4>1, <4>2
    <3>3. \A g, f, u \in Tags : InChain(c, g, u)' /\ InChain(c, f, u)' => g = f
      BY <1>1, <2>3, <2>4, <2>5 DEF ReqInv, ChainInv
    <3>4. ASSUME NEW g \in Tags, NEW i \in DOMAIN work'[c][g].flushreq,
                 NEW j \in DOMAIN work'[c][g].flushreq, i < j
          PROVE  /\ work'[c][g].flushreq[i] # work'[c][g].flushreq[j]
                 /\ oldtag'[c][work'[c][g].flushreq[i]] # work'[c][g].flushreq[j]
      <4>1. CASE g = h
        <5>1. /\ i \in 1 .. Len(s) + 1 /\ j \in 1 .. Len(s) + 1
              /\ work'[c][g].flushreq = r
          BY <3>4, <4>1, <1>5, <1>7
        <5> SUFFICES r[i] # r[j] /\ oldtag'[c][r[i]] # r[j]
          BY <5>1
        <5>2. \A a, b \in 1 .. Len(s) : a < b =>
                 /\ s[a] # s[b] /\ oldtag[c][s[a]] # s[b] /\ oldtag'[c][s[a]] = oldtag[c][s[a]]
          BY <1>1, <1>2, <2>1, <2>3 DEF ReqInv, ChainInv
        <5>3. CASE j \in 1 .. k - 1
          <6>1. i \in 1 .. k - 1
            BY <5>1, <5>3, <3>4, <1>2
          <6> QED BY <5>2, <5>3, <6>1, <3>4, <1>5, SMTT(60)
        <5>4. CASE j = k
          <6>1. i \in 1 .. k - 1
            BY <5>1, <5>4, <3>4, <1>2
          <6>2. r[i] = s[i] /\ i \in 1 .. Len(s) /\ r[j] = t
            BY <6>1, <5>4, <1>5
          <6>3. s[i] # t /\ oldtag'[c][s[i]] = oldtag[c][s[i]] /\ oldtag[c][s[i]] # t
            BY <6>2, <1>1, <1>2, <2>1, <2>3
          <6> QED BY <6>2, <6>3
        <5>5. CASE j \in k + 1 .. Len(s) + 1
          <6>1. r[j] = s[j - 1] /\ j - 1 \in 1 .. Len(s)
            BY <5>5, <1>5
          <6>2. CASE i \in 1 .. k - 1
            <7>1. i < j - 1 /\ r[i] = s[i] /\ i \in 1 .. Len(s)
              BY <6>2, <5>5, <1>2, <1>5
            <7> QED BY <6>1, <7>1, <5>2, SMTT(60)
          <6>3. CASE i = k
            <7>1. r[i] = t /\ oldtag'[c][t] = o /\ s[j - 1] # t
              BY <6>1, <6>3, <1>5, <2>1, <2>3
            <7>2. o # s[j - 1]
              <8>1. CASE k = 1
                BY <8>1, <6>1, <1>2, <2>3
              <8>2. CASE k # 1
                <9>1. k - 1 < j - 1 /\ k - 1 \in 1 .. Len(s) /\ s[k - 1] = o
                  BY <8>2, <5>5, <1>2
                <9> QED BY <9>1, <6>1, <5>2, SMTT(60)
              <8> QED BY <8>1, <8>2
            <7> QED BY <6>1, <7>1, <7>2, SMTT(60)
          <6>4. CASE i \in k + 1 .. Len(s) + 1
            <7>1. i - 1 < j - 1 /\ r[i] = s[i - 1] /\ i - 1 \in 1 .. Len(s)
              BY <6>4, <5>5, <3>4, <1>2, <1>5
            <7> DEFINE a == i - 1
                       b == j - 1
            <7>2. a \in 1 .. Len(s) /\ b \in 1 .. Len(s) /\ a < b /\ r[i] = s[a] /\ r[j] = s[b]
              BY <6>1, <7>1
            <7> HIDE DEF a, b
            <7>3. s[a] # s[b] /\ oldtag[c][s[a]] # s[b] /\ oldtag'[c][s[a]] = oldtag[c][s[a]]
              BY <7>2, <5>2
            <7> QED BY <7>2, <7>3, Zenon
          <6> QED BY <6>2, <6>3, <6>4, <5>1, <1>2
        <5> QED BY <5>1, <5>3, <5>4, <5>5, <1>2
      <4>2. CASE g # h
        <5>1. g # t /\ work'[c][g].flushreq = work[c][g].flushreq
          BY <3>4, <4>2, <1>6, <1>7
        <5>2. work[c][g].flushreq[i] \in Tags
          BY <3>4, <5>1, <1>1 DEF Spreq
        <5>3. InChain(c, g, work[c][g].flushreq[i])
          BY <3>4, <5>1 DEF InChain
        <5>4. oldtag'[c][work[c][g].flushreq[i]] = oldtag[c][work[c][g].flushreq[i]]
          BY <5>2, <5>3, <2>1, <2>3
        <5>5. /\ work[c][g].flushreq[i] # work[c][g].flushreq[j]
              /\ oldtag[c][work[c][g].flushreq[i]] # work[c][g].flushreq[j]
          <6>1. i \in DOMAIN work[c][g].flushreq /\ j \in DOMAIN work[c][g].flushreq
            BY <3>4, <5>1
          <6> QED BY <3>4, <6>1, <1>1 DEF ReqInv, ChainInv
        <5> QED BY <5>1, <5>4, <5>5, Zenon
      <4> QED BY <4>1, <4>2
    <3> QED BY <3>1, <3>2, <3>3, <3>4 DEF ChainInv
  <2>7. OutInv(c)' /\ OrderInv(c)'
    <3>1. /\ DOMAIN out[c] = 1 .. Len(out[c])
          /\ \A i \in 1 .. Len(out[c]) : out[c][i].tag \in Tags
      <4>1. out[c] \in Seq(Reply) /\ \A p \in Reply : p.tag \in Tags
        BY <1>1 DEF Reply
      <4> QED BY <4>1
    <3>2. \A i \in 1 .. Len(out[c]) :
            /\ out[c][i].tag \in sent[c] /\ out[c][i].tag # t
            /\ oldtag'[c][out[c][i].tag] = oldtag[c][out[c][i].tag]
            /\ oldtag[c][out[c][i].tag] # t
      BY <1>1, <2>1, <3>1 DEF ReqInv, OutInv
    <3>3. OutInv(c)'
      BY <1>1, <2>1, <2>2, <3>1, <3>2 DEF ReqInv, OutInv
    <3>4. OrderInv(c)'
      BY <1>1, <3>1, <3>2 DEF ReqInv, OrderInv
    <3> QED BY <3>3, <3>4
  <2>8. \A u \in Tags : work'[c][u].type = "io" => oldtag'[c][u] = NOTAG
    BY <1>1, <1>6, <1>7, <2>1 DEF ReqInv
  <2> QED BY <1>1, <2>1, <2>2, <2>6, <2>7, <2>8 DEF ReqInv
<1>10. ASSUME NEW d \in Conns, d # c PROVE ReqInv(d)'
  BY <1>1, <1>7, <1>10, ReqFrame
<1> QED BY <1>8, <1>9, <1>10

\* Tflush, answered at once or chained.
LEMMA FlushReqs ==
    ASSUME ReqTypeOK, \A d \in Conns : ReqInv(d),
           NEW c \in Conns, NEW t \in Tags, NEW o \in Tags, sp_flush(c, t, o)
    PROVE  ReqTypeOK' /\ \A d \in Conns : ReqInv(d)'
<1>1. CASE /\ out' = [out EXCEPT ![c] = @ \o Rflushes(<<t>>)]
           /\ \/ o \notin Working(c) /\ work' = work
              \/ AnsweredByFlush(c, o) /\ Forget(c, {o})
  BY <1>1, FlushNowReq DEF sp_flush
<1>2. CASE /\ o \in Working(c) /\ out' = out
           /\ LET h == FlushHead(c, o)
                  s == work[c][h].flushreq
              IN  work' = [work EXCEPT
                      ![c][t] = FlushReq,
                      ![c][h].flushreq = InsertAt(s, ChainAt(c, o, s), t)]
  <2>1. PICK h \in Tags, s \in Seq(Tags), k \in Nat :
           /\ k \in 1 .. Len(s) + 1
           /\ s = work[c][h].flushreq /\ work[c][h].type = "io"
           /\ k = 1 => o = h
           /\ k # 1 => k - 1 \in 1 .. Len(s) /\ s[k - 1] = o
           /\ work' = [work EXCEPT ![c][t] = FlushReq,
                                   ![c][h].flushreq = InsertAt(s, k, t)]
    <3> DEFINE h == FlushHead(c, o)
               s == work[c][h].flushreq
               k == ChainAt(c, o, s)
    <3>1. /\ h \in Tags /\ work[c][h].type = "io"
          /\ s \in Seq(Tags) /\ k \in 1 .. Len(s) + 1
          /\ k = 1 => o = h
          /\ k # 1 => k - 1 \in 1 .. Len(s) /\ s[k - 1] = o
      BY <1>2, ChainPlace
    <3>2. work' = [work EXCEPT ![c][t] = FlushReq, ![c][h].flushreq = InsertAt(s, k, t)]
      BY <1>2
    <3>3. k \in Nat
      BY <3>1
    <3> QED BY <3>1, <3>2, <3>3, Zenon
  <2>2. /\ ClientTag(c, t) /\ o # t
        /\ sent' = [sent EXCEPT ![c] = @ \cup {t}]
        /\ oldtag' = [oldtag EXCEPT ![c][t] = o]
    BY DEF sp_flush
  <2> QED BY <1>2, <2>1, <2>2, FlushWaitsReq, Zenon
<1> QED BY <1>1, <1>2, Zenon DEF sp_flush

\* A connection that starts over has no request and at most one reply.
LEMMA ResetReq ==
    ASSUME ReqTypeOK, \A d \in Conns : ReqInv(d),
           NEW c \in Conns, sp_conn_reset(c),
           \/ /\ sent' = [sent EXCEPT ![c] = {}]
              /\ out' = [out EXCEPT ![c] = <<>>]
           \/ \E t \in Tags :
                /\ sent' = [sent EXCEPT ![c] = {t}]
                /\ out' = [out EXCEPT ![c] = <<[tag |-> t, type |-> "R"]>>]
    PROVE  ReqTypeOK' /\ \A d \in Conns : ReqInv(d)'
<1>1. /\ work' = [work EXCEPT ![c] = [t \in Tags |-> NoReq]]
      /\ oldtag' = [oldtag EXCEPT ![c] = [t \in Tags |-> NOTAG]]
  BY DEF sp_conn_reset
<1>2. /\ NoReq \in Spreq /\ NoReq.type = "none" /\ DOMAIN NoReq.flushreq = {}
  BY DEF NoReq, Spreq
<1>3. PICK S \in SUBSET Tags, q \in Seq(Reply) :
        /\ sent' = [sent EXCEPT ![c] = S] /\ out' = [out EXCEPT ![c] = q]
        /\ \A i \in DOMAIN q : i = 1 /\ q[i].tag \in S
  <2>1. CASE sent' = [sent EXCEPT ![c] = {}] /\ out' = [out EXCEPT ![c] = <<>>]
    <3>1. {} \in SUBSET Tags /\ <<>> \in Seq(Reply) /\ DOMAIN <<>> = {}
      OBVIOUS
    <3> QED BY <2>1, <3>1, Zenon
  <2>2. ASSUME NEW t \in Tags, sent' = [sent EXCEPT ![c] = {t}],
               out' = [out EXCEPT ![c] = <<[tag |-> t, type |-> "R"]>>]
        PROVE  \E S \in SUBSET Tags, q \in Seq(Reply) :
                  /\ sent' = [sent EXCEPT ![c] = S] /\ out' = [out EXCEPT ![c] = q]
                  /\ \A i \in DOMAIN q : i = 1 /\ q[i].tag \in S
    <3> DEFINE r == [tag |-> t, type |-> "R"]
               q == <<r>>
    <3>1. r \in Reply /\ r.tag \in {t}
      BY DEF Reply
    <3> HIDE DEF r
    <3>2. q \in Seq(Reply) /\ \A i \in DOMAIN q : i = 1 /\ q[i] = r
      BY <3>1
    <3>3. {t} \in SUBSET Tags /\ \A i \in DOMAIN q : i = 1 /\ q[i].tag \in {t}
      BY <3>1, <3>2
    <3>4. sent' = [sent EXCEPT ![c] = {t}] /\ out' = [out EXCEPT ![c] = q]
      BY <2>2 DEF r
    <3> HIDE DEF q
    <3> QED BY <3>2, <3>3, <3>4, Zenon
  <2> QED BY <2>1, <2>2, Zenon
<1>4. ReqTypeOK'
  BY <1>1, <1>2, <1>3 DEF ReqTypeOK
<1>5. ReqInv(c)'
  <2>1. /\ \A t \in Tags : work'[c][t] = NoReq /\ oldtag'[c][t] = NOTAG
        /\ sent'[c] = S /\ out'[c] = q
    BY <1>1, <1>3 DEF ReqTypeOK
  <2>2. Working(c)' = {} /\ \A h, t \in Tags : ~InChain(c, h, t)'
    BY <1>2, <2>1 DEF Working, InChain
  <2>3. ChainInv(c)'
    BY <1>2, <2>1, <2>2 DEF ChainInv
  <2>4. OutInv(c)' /\ OrderInv(c)'
    BY <1>3, <2>1, <2>2 DEF OutInv, OrderInv
  <2> QED BY <1>2, <2>1, <2>2, <2>3, <2>4 DEF ReqInv
<1>6. ASSUME NEW d \in Conns, d # c PROVE ReqInv(d)'
  BY <1>1, <1>3, <1>6, ReqFrame DEF ReqTypeOK
<1> QED BY <1>4, <1>5, <1>6

\* The client reads a reply: the tags it frees are not worked on, and no reply
\* behind it has one of them.
LEMMA ReceiveReq ==
    ASSUME ReqTypeOK, \A d \in Conns : ReqInv(d),
           NEW c \in Conns, Receive(c)
    PROVE  ReqTypeOK' /\ \A d \in Conns : ReqInv(d)'
<1> DEFINE a == Head(out[c]).tag
           b == oldtag[c][a]
<1>1. /\ out[c] # <<>> /\ work' = work
      /\ out' = [out EXCEPT ![c] = Tail(out[c])]
      /\ sent' = [sent EXCEPT ![c] = sent[c] \ {a, b}]
      /\ oldtag' = [oldtag EXCEPT ![c] =
            [t \in Tags |-> IF t \in {a, b} THEN NOTAG ELSE oldtag[c][t]]]
  BY DEF Receive
<1>2. /\ work \in [Conns -> [Tags -> Spreq]] /\ out \in [Conns -> Seq(Reply)]
      /\ sent \in [Conns -> SUBSET Tags]
      /\ oldtag \in [Conns -> [Tags -> Tags \cup {NOTAG}]]
      /\ ReqInv(c)
  BY DEF ReqTypeOK
<1>3. /\ Tail(out[c]) \in Seq(Reply) /\ Head(out[c]) = out[c][1] /\ 1 \in DOMAIN out[c]
      /\ \A i \in DOMAIN Tail(out[c]) : i + 1 \in DOMAIN out[c] /\ 1 < i + 1
                                        /\ Tail(out[c])[i] = out[c][i + 1]
      /\ \A i, j \in DOMAIN Tail(out[c]) : i < j => i + 1 < j + 1
      /\ \A i \in DOMAIN out[c] : out[c][i] \in Reply
  BY <1>1, <1>2
<1>4. /\ a \in sent[c] /\ a \notin Working(c) /\ b \notin Working(c)
      /\ \A i \in DOMAIN Tail(out[c]) : Tail(out[c])[i].tag \notin {a, b}
  BY <1>2, <1>3 DEF ReqInv, OutInv, OrderInv
<1>5. ReqTypeOK'
  BY <1>1, <1>2, <1>3 DEF ReqTypeOK
<1> HIDE DEF a, b
<1>6. ReqInv(c)'
  <2>1. /\ out'[c] = Tail(out[c]) /\ sent'[c] = sent[c] \ {a, b}
        /\ \A t \in Tags : oldtag'[c][t] = IF t \in {a, b} THEN NOTAG ELSE oldtag[c][t]
        /\ Working(c)' = Working(c)
    BY <1>1, <1>2 DEF Working
  <2>2. \A t \in Tags : work[c][t].type # "none" => t \notin {a, b}
    BY <1>4 DEF Working
  <2>3. \A h : \A u : InChain(c, h, u)' <=> InChain(c, h, u)
    BY <1>1 DEF InChain
  <2>4. ChainInv(c)'
    <3>1. \A u \in Tags : work'[c][u].type = "flush" => \E h \in Tags : InChain(c, h, u)'
      BY <1>1, <1>2, <2>3 DEF ReqInv, ChainInv
    <3>2. ASSUME NEW h \in Tags, NEW u \in Tags, InChain(c, h, u)'
          PROVE  /\ work'[c][h].type = "io" /\ work'[c][u].type = "flush"
                 /\ oldtag'[c][u] = h \/ InChain(c, h, oldtag[c][u])'
      <4>1. InChain(c, h, u)
        BY <2>3, <3>2
      <4>2. /\ work[c][h].type = "io" /\ work[c][u].type = "flush"
            /\ oldtag[c][u] = h \/ InChain(c, h, oldtag[c][u])
        BY <4>1, <1>2 DEF ReqInv, ChainInv
      <4>3. oldtag'[c][u] = oldtag[c][u]
        BY <4>2, <2>1, <2>2
      <4> QED BY <4>2, <4>3, <1>1, <2>3
    <3>3. \A h, k, u \in Tags : InChain(c, h, u)' /\ InChain(c, k, u)' => h = k
      BY <1>2, <2>3 DEF ReqInv, ChainInv
    <3>4. ASSUME NEW h \in Tags, NEW i \in DOMAIN work[c][h].flushreq,
                 NEW j \in DOMAIN work[c][h].flushreq, i < j
          PROVE  /\ work[c][h].flushreq[i] # work[c][h].flushreq[j]
                 /\ oldtag'[c][work[c][h].flushreq[i]] # work[c][h].flushreq[j]
      <4>1. work[c][h].flushreq[i] \in Tags /\ work[c][h].flushreq[j] \in Tags
        BY <1>2 DEF Spreq
      <4>2. /\ work[c][h].flushreq[i] # work[c][h].flushreq[j]
            /\ oldtag[c][work[c][h].flushreq[i]] # work[c][h].flushreq[j]
        BY <1>2, <3>4 DEF ReqInv, ChainInv
      <4> QED BY <4>1, <4>2, <2>1, SpSrvAssumption
    <3> QED BY <1>1, <3>1, <3>2, <3>3, <3>4 DEF ChainInv
  <2>5. \A i \in DOMAIN out[c] : out[c][i].tag \in Tags
    BY <1>3 DEF Reply
  <2>6. \A i \in DOMAIN Tail(out[c]) :
           /\ i + 1 \in DOMAIN out[c] /\ Tail(out[c])[i] = out[c][i + 1]
           /\ oldtag'[c][Tail(out[c])[i].tag] = oldtag[c][Tail(out[c])[i].tag]
    BY <1>3, <1>4, <2>1, <2>5
  <2>7. OutInv(c)'
    BY <1>2, <1>4, <2>1, <2>6 DEF ReqInv, OutInv
  <2>8. OrderInv(c)'
    <3> SUFFICES ASSUME NEW i \in DOMAIN Tail(out[c]), NEW j \in DOMAIN Tail(out[c]), i < j
                 PROVE  /\ Tail(out[c])[i].tag # Tail(out[c])[j].tag
                        /\ oldtag'[c][Tail(out[c])[i].tag] # Tail(out[c])[j].tag
      BY <2>1 DEF OrderInv
    <3>1. i + 1 < j + 1
      BY <1>3
    <3>2. /\ i + 1 \in DOMAIN out[c] /\ Tail(out[c])[i] = out[c][i + 1]
          /\ j + 1 \in DOMAIN out[c] /\ Tail(out[c])[j] = out[c][j + 1]
          /\ oldtag'[c][Tail(out[c])[i].tag] = oldtag[c][Tail(out[c])[i].tag]
      BY <2>6
    <3>3. /\ out[c][i + 1].tag # out[c][j + 1].tag
          /\ oldtag[c][out[c][i + 1].tag] # out[c][j + 1].tag
      BY <1>2, <3>1, <3>2 DEF ReqInv, OrderInv
    <3> QED BY <3>2, <3>3
  <2>9. Working(c) \subseteq sent[c] \ {a, b}
    BY <1>2, <1>4 DEF ReqInv
  <2>10. \A t \in Tags : t \notin sent'[c] => oldtag'[c][t] = NOTAG
    BY <1>2, <2>1 DEF ReqInv
  <2>11. \A t \in Tags : work'[c][t].type = "io" => oldtag'[c][t] = NOTAG
    BY <1>1, <1>2, <2>1 DEF ReqInv
  <2> QED BY <2>1, <2>4, <2>7, <2>8, <2>9, <2>10, <2>11 DEF ReqInv
<1>7. ASSUME NEW d \in Conns, d # c PROVE ReqInv(d)'
  BY <1>1, <1>2, <1>7, ReqFrame
<1> QED BY <1>5, <1>6, <1>7

\* Every step keeps the invariant of the requests and the replies.
LEMMA ReqNext ==
    ASSUME ReqTypeOK, \A d \in Conns : ReqInv(d), [Next]_vars
    PROVE  ReqTypeOK' /\ \A d \in Conns : ReqInv(d)'
<1>1. CASE UNCHANGED vars
  BY <1>1, StopReq DEF vars
<1>2. CASE Next
  <2>1. PICK c \in Conns :
          \/ Receive(c)
          \/ sp_conn_destroy(c)
          \/ \E t \in Tags :
                \/ sp_version(c, t)
                \/ sp_version_refused(c, t)
                \/ sp_respond(c, t)
                \/ \E n \in Fids : FidMessage(c, t, n)
                \/ \E o \in Tags : sp_flush(c, t, o)
    BY <1>2 DEF Next
  <2>2. CASE Receive(c)
    BY <2>2, ReceiveReq
  <2>3. CASE sp_conn_destroy(c)
    <3>1. CASE UNCHANGED <<work, out, sent, oldtag>>
      BY <3>1, StopReq
    <3>2. CASE /\ sp_conn_reset(c)
               /\ sent' = [sent EXCEPT ![c] = {}]
               /\ out' = [out EXCEPT ![c] = <<>>]
      BY <3>2, ResetReq
    <3> QED BY <2>3, <3>1, <3>2 DEF sp_conn_destroy, Loops
  <2>4. ASSUME NEW t \in Tags, sp_version(c, t)
        PROVE  ReqTypeOK' /\ \A d \in Conns : ReqInv(d)'
    <3>1. CASE UNCHANGED <<work, out, sent, oldtag>>
      BY <3>1, StopReq
    <3>2. CASE /\ sp_conn_reset(c)
               /\ sent' = [sent EXCEPT ![c] = {t}]
               /\ out' = [out EXCEPT ![c] = <<[tag |-> t, type |-> "R"]>>]
      BY <3>2, ResetReq
    <3> QED BY <2>4, <3>1, <3>2 DEF sp_version, Loops
  <2>5. ASSUME NEW t \in Tags, sp_version_refused(c, t)
        PROVE  ReqTypeOK' /\ \A d \in Conns : ReqInv(d)'
    <3>1. CASE UNCHANGED <<work, out, sent, oldtag>>
      BY <3>1, StopReq
    <3>2. CASE srv' = srv
      BY <2>5, <3>2, AnsweredReq
         DEF sp_version_refused, AnsweredStep
    <3> QED BY <2>5, <3>1, <3>2 DEF sp_version_refused
  <2>6. ASSUME NEW t \in Tags, sp_respond(c, t)
        PROVE  ReqTypeOK' /\ \A d \in Conns : ReqInv(d)'
    BY <2>6, RespondReq
  <2>7. ASSUME NEW t \in Tags, NEW n \in Fids, FidMessage(c, t, n)
        PROVE  ReqTypeOK' /\ \A d \in Conns : ReqInv(d)'
    <3>1. CASE AnsweredStep(c, t)
      BY <3>1, AnsweredReq
    <3>2. ASSUME NEW flushable \in FlushAnswers, Keep(c, t, n, flushable)
          PROVE  ReqTypeOK' /\ \A d \in Conns : ReqInv(d)'
      BY <3>2, KeepReq
    <3>3. CASE StopStep
      BY <3>3, StopReq DEF StopStep
    <3> QED BY <2>7, <3>1, <3>2, <3>3, FidMessageKinds
  <2>8. ASSUME NEW t \in Tags, NEW o \in Tags, sp_flush(c, t, o)
        PROVE  ReqTypeOK' /\ \A d \in Conns : ReqInv(d)'
    BY <2>8, FlushReqs
  <2> QED BY <2>1, <2>2, <2>3, <2>4, <2>5, <2>6, <2>7, <2>8
<1> QED BY <1>1, <1>2

-----------------------------------------------------------------------------
(* The fids.                                                               *)

\* The io requests of a fid are finitely many.
LEMMA PendingCardinality ==
    ASSUME NEW c \in Conns, NEW n \in Fids
    PROVE  /\ IsFiniteSet(Pending(c, n))
           /\ Cardinality(Pending(c, n)) \in Nat
           /\ Cardinality(Pending(c, n)) = 0 <=> Pending(c, n) = {}
<1>1. Pending(c, n) \subseteq Tags
  BY DEF Pending
<1>2. IsFiniteSet(Pending(c, n))
  BY <1>1, SpSrvAssumption, FS_Subset
<1> QED BY <1>2, FS_CardinalityType, FS_EmptySet

\* What a handler leaves of a fid keeps the invariant of the fids if its count
\* is exact and the requests that the service keeps can still use it.
LEMMA FidUpdate ==
    ASSUME FidTypeOK, \A d \in Conns : FidInv(d),
           NEW c \in Conns, NEW n \in Fids, NEW f \in Spfid, NEW O \in SUBSET Fids,
           fid' = [fid EXCEPT ![c][n] = f],
           owned' = [owned EXCEPT ![c] = O],
           work' = work,
           \A m \in Fids : m # n => (m \in O <=> m \in owned[c]),
           f.refcount = (IF n \in O \/ f.auth THEN 1 ELSE 0) + Cardinality(Pending(c, n)),
           f.refcount = 0 \/ f.auth => f.omode = "closed",
           Pending(c, n) # {} => f.omode # "closed" /\ ~f.auth
    PROVE  FidTypeOK' /\ \A d \in Conns : FidInv(d)'
<1>1. FidTypeOK'
  BY DEF FidTypeOK
<1>2. FidInv(c)'
  <2>1. /\ fid'[c][n] = f /\ owned'[c] = O
        /\ \A m \in Fids : m # n => fid'[c][m] = fid[c][m]
        /\ FidInv(c)
    BY DEF FidTypeOK
  <2>2. \A m : Pending(c, m)' = Pending(c, m)
    BY DEF Pending
  <2>3. ASSUME NEW m \in Fids
        PROVE  /\ fid'[c][m].refcount = ClientRef(c, m)' + Cardinality(Pending(c, m))
               /\ fid'[c][m].refcount = 0 \/ fid'[c][m].auth => fid'[c][m].omode = "closed"
    <3>1. CASE m = n
      BY <2>1, <3>1 DEF ClientRef
    <3>2. CASE m # n
      <4>1. ClientRef(c, m)' = ClientRef(c, m)
        BY <2>1, <3>2 DEF ClientRef
      <4> QED BY <2>1, <3>2, <4>1 DEF FidInv
    <3> QED BY <3>1, <3>2
  <2>4. ASSUME NEW t \in Tags, work[c][t].type = "io"
        PROVE  /\ work[c][t].fid \in Fids
               /\ fid'[c][work[c][t].fid].omode # "closed"
               /\ ~fid'[c][work[c][t].fid].auth
    <3>1. CASE work[c][t].fid = n
      <4>1. t \in Pending(c, n)
        BY <2>4, <3>1 DEF Pending
      <4> QED BY <2>1, <3>1, <4>1
    <3>2. CASE work[c][t].fid # n
      BY <2>1, <2>4, <3>2 DEF FidInv
    <3> QED BY <3>1, <3>2
  <2> QED BY <2>2, <2>3, <2>4 DEF FidInv
<1>3. ASSUME NEW d \in Conns, d # c PROVE FidInv(d)'
  BY <1>3, FidFrame DEF FidTypeOK
<1> QED BY <1>1, <1>2, <1>3

\* A step that leaves the fids, and the requests, alone.
LEMMA FidSame ==
    ASSUME FidTypeOK, \A d \in Conns : FidInv(d),
           fid' = fid, work' = work, owned' = owned
    PROVE  FidTypeOK' /\ \A d \in Conns : FidInv(d)'
BY FidFrame DEF FidTypeOK

\* What the invariant says of one fid.
LEMMA FidFacts ==
    ASSUME FidTypeOK, NEW c \in Conns, FidInv(c), NEW n \in Fids
    PROVE  /\ fid[c][n] \in Spfid /\ fid[c][n].refcount \in Nat
           /\ Cardinality(Pending(c, n)) \in Nat
           /\ Cardinality(Pending(c, n)) = 0 <=> Pending(c, n) = {}
           /\ fid[c][n].refcount = (IF n \in owned[c] \/ fid[c][n].auth THEN 1 ELSE 0)
                                   + Cardinality(Pending(c, n))
           /\ Pending(c, n) # {} => fid[c][n].omode # "closed" /\ ~fid[c][n].auth
           /\ fid[c][n].refcount = 0 \/ fid[c][n].auth => fid[c][n].omode = "closed"
<1>1. fid[c][n] \in Spfid
  BY DEF FidTypeOK
<1>2. /\ fid[c][n].refcount = (IF n \in owned[c] \/ fid[c][n].auth THEN 1 ELSE 0)
                              + Cardinality(Pending(c, n))
      /\ fid[c][n].refcount = 0 \/ fid[c][n].auth => fid[c][n].omode = "closed"
  BY DEF FidInv, ClientRef
<1>3. ASSUME NEW t \in Tags, t \in Pending(c, n)
      PROVE  fid[c][n].omode # "closed" /\ ~fid[c][n].auth
  BY <1>3 DEF FidInv, Pending
<1>4. Pending(c, n) \subseteq Tags
  BY DEF Pending
<1> QED BY <1>1, <1>2, <1>3, <1>4, PendingCardinality

\* The operations on a Spfid, on its fields.
LEMMA SpfidOps ==
    /\ NoSpfid \in Spfid /\ NoSpfid.refcount = 0
    /\ NoSpfid.omode = "closed" /\ NoSpfid.auth = FALSE
    /\ \A f \in Spfid :
          /\ f.refcount \in Int
          /\ Incref(f) \in Spfid /\ Incref(f).refcount = f.refcount + 1
          /\ Incref(f).omode = f.omode /\ Incref(f).auth = f.auth
    /\ \A f \in Spfid :
          /\ Decref(f) \in Spfid /\ Decref(f).refcount = f.refcount - 1
          /\ f.refcount # 1 => Decref(f).omode = f.omode /\ Decref(f).auth = f.auth
          /\ f.refcount = 1 => Decref(f) = NoSpfid
<1>1. /\ NoSpfid \in Spfid /\ NoSpfid.refcount = 0
      /\ NoSpfid.omode = "closed" /\ NoSpfid.auth = FALSE
  BY DEF NoSpfid, Spfid
<1>2. ASSUME NEW f \in Spfid
      PROVE  /\ f.refcount \in Int
             /\ Incref(f) \in Spfid /\ Incref(f).refcount = f.refcount + 1
             /\ Incref(f).omode = f.omode /\ Incref(f).auth = f.auth
  BY DEF Spfid, Incref
<1>3. ASSUME NEW f \in Spfid, f.refcount # 1
      PROVE  /\ Decref(f) \in Spfid /\ Decref(f).refcount = f.refcount - 1
             /\ Decref(f).omode = f.omode /\ Decref(f).auth = f.auth
  BY <1>3 DEF Spfid, Decref
<1>4. ASSUME NEW f \in Spfid, f.refcount = 1
      PROVE  Decref(f) = NoSpfid /\ f.refcount - 1 = 0
  BY <1>4 DEF Decref
<1> QED BY <1>1, <1>2, <1>3, <1>4

\* A Spfid is its fields.
LEMMA SpfidEqual ==
    ASSUME NEW f \in Spfid, NEW g \in Spfid,
           f.refcount = g.refcount, f.omode = g.omode, f.auth = g.auth
    PROVE  f = g
<1>1. /\ f = [refcount |-> f.refcount, omode |-> f.omode, auth |-> f.auth]
      /\ g = [refcount |-> g.refcount, omode |-> g.omode, auth |-> g.auth]
  BY DEF Spfid
<1> QED BY <1>1

\* A reference taken and given back leaves the fid as it was.
LEMMA DecrefIncref ==
    ASSUME NEW f \in Spfid, f.refcount # 0
    PROVE  Decref(Incref(f)) = f
<1>1. /\ Incref(f) \in Spfid /\ Incref(f).refcount # 1
      /\ Incref(f).refcount - 1 = f.refcount
  <2>1. Incref(f) \in Spfid /\ f.refcount \in Int /\ Incref(f).refcount = f.refcount + 1
    BY SpfidOps
  <2> QED BY <2>1
<1>2. /\ Decref(Incref(f)) \in Spfid /\ Decref(Incref(f)).refcount = f.refcount
      /\ Decref(Incref(f)).omode = f.omode /\ Decref(Incref(f)).auth = f.auth
  BY <1>1, SpfidOps
<1> QED BY <1>2, SpfidEqual

\* A handler that gives back what it took.
LEMMA SameFidKeeps ==
    ASSUME FidTypeOK, \A d \in Conns : FidInv(d),
           NEW c \in Conns, NEW t \in Tags, NEW n \in Fids, SameFid(c, t, n)
    PROVE  FidTypeOK' /\ \A d \in Conns : FidInv(d)'
<1>1. work' = work /\ owned' = owned
  BY DEF SameFid
<1>2. fid' = fid
  <2>1. CASE ~Found(c, n)
    BY <2>1 DEF SameFid
  <2>2. CASE Found(c, n)
    <3>1. Decref(Incref(fid[c][n])) = fid[c][n]
      BY <2>2, DecrefIncref DEF Found, FidTypeOK
    <3>2. fid' = [fid EXCEPT ![c][n] = fid[c][n]]
      BY <2>2, <3>1 DEF SameFid
    <3> QED BY <3>2 DEF FidTypeOK
  <2> QED BY <2>1, <2>2
<1> QED BY <1>1, <1>2, FidSame

\* A fid the client may create: no request uses it, and if the table has it
\* nevertheless it is a clunked authentication fid, whose one reference an
\* Einuse error drops.
LEMMA NewFid ==
    ASSUME FidTypeOK, NEW c \in Conns, FidInv(c), NEW n \in Fids, ClientNewFid(c, n)
    PROVE  /\ Pending(c, n) = {} /\ Cardinality(Pending(c, n)) = 0 /\ n \notin owned[c]
           /\ Found(c, n) => Decref(fid[c][n]) = NoSpfid
<1>1. Pending(c, n) = {} /\ Cardinality(Pending(c, n)) = 0 /\ n \notin owned[c]
  BY FidFacts DEF ClientNewFid
<1>2. ASSUME Found(c, n) PROVE Decref(fid[c][n]) = NoSpfid
  <2>1. fid[c][n] \in Spfid /\ fid[c][n].refcount = 1
    BY <1>1, <1>2, FidFacts DEF Found
  <2> QED BY <2>1, SpfidOps
<1> QED BY <1>1, <1>2

\* The fids sp_auth, sp_attach and sp_walk put in the table.
LEMMA CreatedFids ==
    /\ Decref(Incref(Created)) = NoSpfid
    /\ Decref(Incref(Incref(Created))) \in Spfid
    /\ Decref(Incref(Incref(Created))).refcount = 1
    /\ Decref(Incref(Incref(Created))).auth = FALSE
    /\ [Incref(Created) EXCEPT !.auth = TRUE] \in Spfid
    /\ [Incref(Created) EXCEPT !.auth = TRUE].refcount = 1
    /\ [Incref(Created) EXCEPT !.auth = TRUE].omode = "closed"
<1>1. /\ Incref(NoSpfid) \in Spfid /\ Incref(NoSpfid).refcount = 1
      /\ Incref(NoSpfid).omode = "closed" /\ Incref(NoSpfid).auth = FALSE
  BY SpfidOps
<1>2. Decref(Incref(NoSpfid)) = NoSpfid
  BY <1>1, SpfidOps
<1>3. /\ Incref(Incref(NoSpfid)) \in Spfid /\ Incref(Incref(NoSpfid)).refcount = 2
      /\ Incref(Incref(NoSpfid)).auth = FALSE
  BY <1>1, SpfidOps
<1>4. /\ Decref(Incref(Incref(NoSpfid))) \in Spfid
      /\ Decref(Incref(Incref(NoSpfid))).refcount = 1
      /\ Decref(Incref(Incref(NoSpfid))).auth = FALSE
  <2> DEFINE f == Incref(Incref(NoSpfid))
  <2>1. f \in Spfid /\ f.refcount # 1 /\ f.refcount - 1 = 1 /\ f.auth = FALSE
    BY <1>3
  <2> HIDE DEF f
  <2>2. Decref(f) \in Spfid /\ Decref(f).refcount = 1 /\ Decref(f).auth = FALSE
    BY <2>1, SpfidOps
  <2> QED BY <2>2 DEF f
<1>5. /\ [Incref(NoSpfid) EXCEPT !.auth = TRUE] \in Spfid
      /\ [Incref(NoSpfid) EXCEPT !.auth = TRUE].refcount = 1
      /\ [Incref(NoSpfid) EXCEPT !.auth = TRUE].omode = "closed"
  BY <1>1 DEF Spfid
<1> QED BY <1>2, <1>4, <1>5 DEF Created

\* sp_auth, sp_attach and sp_walk leave a new fid as one of these.
LEMMA NewFidUpdate ==
    ASSUME FidTypeOK, \A d \in Conns : FidInv(d), NEW c \in Conns, NEW n \in Fids,
           ClientNewFid(c, n), work' = work,
           \/ /\ Found(c, n) /\ SetFid(c, n, Decref(fid[c][n])) /\ owned' = owned
           \/ /\ SetFid(c, n, Decref(Incref(Created))) /\ owned' = owned
           \/ /\ SetFid(c, n, [Incref(Created) EXCEPT !.auth = TRUE]) /\ Grant(c, n)
           \/ /\ SetFid(c, n, Decref(Incref(Incref(Created)))) /\ Grant(c, n)
    PROVE  FidTypeOK' /\ \A d \in Conns : FidInv(d)'
<1>1. /\ Pending(c, n) = {} /\ Cardinality(Pending(c, n)) = 0 /\ n \notin owned[c]
      /\ Found(c, n) => Decref(fid[c][n]) = NoSpfid
  BY NewFid
<1>2. owned[c] \in SUBSET Fids
  BY DEF FidTypeOK
<1>3. CASE SetFid(c, n, NoSpfid) /\ owned' = owned
  <2>1. fid' = [fid EXCEPT ![c][n] = NoSpfid] /\ owned' = [owned EXCEPT ![c] = owned[c]]
    BY <1>3 DEF SetFid, FidTypeOK
  <2>2. /\ NoSpfid \in Spfid /\ NoSpfid.omode = "closed"
        /\ NoSpfid.refcount = (IF n \in owned[c] \/ NoSpfid.auth THEN 1 ELSE 0)
                              + Cardinality(Pending(c, n))
    BY <1>1, SpfidOps
  <2> QED BY <1>1, <1>2, <2>1, <2>2, FidUpdate
<1>4. ASSUME NEW f \in Spfid, f.refcount = 1, f.auth => f.omode = "closed",
             SetFid(c, n, f), Grant(c, n)
      PROVE  FidTypeOK' /\ \A d \in Conns : FidInv(d)'
  <2>1. /\ fid' = [fid EXCEPT ![c][n] = f]
        /\ owned' = [owned EXCEPT ![c] = owned[c] \cup {n}]
    BY <1>4 DEF SetFid, Grant
  <2>2. /\ owned[c] \cup {n} \in SUBSET Fids
        /\ \A m \in Fids : m # n => (m \in owned[c] \cup {n} <=> m \in owned[c])
        /\ f.refcount = (IF n \in owned[c] \cup {n} \/ f.auth THEN 1 ELSE 0)
                        + Cardinality(Pending(c, n))
        /\ f.refcount = 0 \/ f.auth => f.omode = "closed"
    BY <1>1, <1>2, <1>4
  <2> QED BY <1>1, <2>1, <2>2, FidUpdate
<1> QED BY <1>1, <1>3, <1>4, CreatedFids

\* sp_open and sp_create set the mode of a fid that was not open.
LEMMA OpenUpdate ==
    ASSUME FidTypeOK, \A d \in Conns : FidInv(d), NEW c \in Conns, NEW n \in Fids,
           NEW mode \in {"open", "rclose"}, work' = work, owned' = owned,
           Found(c, n), fid[c][n].omode = "closed", ~fid[c][n].auth,
           SetFid(c, n, Decref([Incref(fid[c][n]) EXCEPT !.omode = mode]))
    PROVE  FidTypeOK' /\ \A d \in Conns : FidInv(d)'
<1> DEFINE f == Decref([Incref(fid[c][n]) EXCEPT !.omode = mode])
           g == [Incref(fid[c][n]) EXCEPT !.omode = mode]
<1>1. /\ Pending(c, n) = {} /\ fid[c][n] \in Spfid /\ fid[c][n].refcount \in Nat
      /\ fid[c][n].refcount = (IF n \in owned[c] \/ fid[c][n].auth THEN 1 ELSE 0)
                              + Cardinality(Pending(c, n))
      /\ fid[c][n].refcount # 0
  BY FidFacts DEF Found
<1>2. /\ g \in Spfid /\ g.refcount = fid[c][n].refcount + 1
      /\ g.auth = fid[c][n].auth
  <2>1. /\ Incref(fid[c][n]) \in Spfid /\ Incref(fid[c][n]).refcount = fid[c][n].refcount + 1
        /\ Incref(fid[c][n]).auth = fid[c][n].auth
    BY <1>1, SpfidOps
  <2> QED BY <2>1 DEF Spfid
<1> HIDE DEF g
<1>3. f \in Spfid /\ f.refcount = fid[c][n].refcount /\ f.auth = fid[c][n].auth
  <2>1. g.refcount # 1 /\ g.refcount - 1 = fid[c][n].refcount
    BY <1>1, <1>2
  <2>2. Decref(g) \in Spfid /\ Decref(g).refcount = g.refcount - 1 /\ Decref(g).auth = g.auth
    BY <1>2, <2>1, SpfidOps
  <2> QED BY <1>2, <2>1, <2>2 DEF g
<1>4. fid' = [fid EXCEPT ![c][n] = f] /\ owned' = [owned EXCEPT ![c] = owned[c]]
  BY DEF SetFid, FidTypeOK
<1>5. owned[c] \in SUBSET Fids
  BY DEF FidTypeOK
<1> HIDE DEF f
<1> QED BY <1>1, <1>3, <1>4, <1>5, FidUpdate, ZenonT(60)

\* The last use of a fid: its client reference goes with that of the request.
LEMMA LastUseUpdate ==
    ASSUME FidTypeOK, \A d \in Conns : FidInv(d), NEW c \in Conns, NEW n \in Fids,
           work' = work, Withdraw(c, n), Found(c, n), n \in owned[c],
           \/ SetFid(c, n, Decref(Decref(Incref(fid[c][n])))) /\ ~fid[c][n].auth
           \/ SetFid(c, n, Clunked(fid[c][n]))
    PROVE  FidTypeOK' /\ \A d \in Conns : FidInv(d)'
<1>1. /\ fid[c][n] \in Spfid /\ fid[c][n].refcount \in Nat
      /\ Cardinality(Pending(c, n)) \in Nat
      /\ fid[c][n].refcount = 1 + Cardinality(Pending(c, n))
      /\ Cardinality(Pending(c, n)) = 0 <=> Pending(c, n) = {}
      /\ Pending(c, n) # {} => fid[c][n].omode # "closed" /\ ~fid[c][n].auth
      /\ fid[c][n].refcount # 0
      /\ fid[c][n].auth => fid[c][n].omode = "closed"
  BY FidFacts
<1>2. Decref(Incref(fid[c][n])) = fid[c][n]
  BY <1>1, DecrefIncref
<1>3. /\ owned' = [owned EXCEPT ![c] = owned[c] \ {n}]
      /\ owned[c] \ {n} \in SUBSET Fids
      /\ \A m \in Fids : m # n => (m \in owned[c] \ {n} <=> m \in owned[c])
      /\ n \notin owned[c] \ {n}
  BY DEF Withdraw, FidTypeOK
<1>4. CASE SetFid(c, n, Decref(fid[c][n])) /\ ~fid[c][n].auth
  <2> DEFINE f == Decref(fid[c][n])
  <2>1. fid' = [fid EXCEPT ![c][n] = f]
    BY <1>4 DEF SetFid
  <2>2. /\ f \in Spfid /\ f.refcount = Cardinality(Pending(c, n)) /\ ~f.auth
        /\ Pending(c, n) # {} => f.omode # "closed"
        /\ f.refcount = 0 => f.omode = "closed"
    BY <1>1, <1>4, SpfidOps
  <2> HIDE DEF f
  <2>3. f.refcount = (IF n \in owned[c] \ {n} \/ f.auth THEN 1 ELSE 0)
                     + Cardinality(Pending(c, n))
    BY <1>1, <1>3, <2>2
  <2> QED BY <1>3, <2>1, <2>2, <2>3, FidUpdate
<1>5. CASE SetFid(c, n, fid[c][n]) /\ fid[c][n].auth
  <2>1. fid' = [fid EXCEPT ![c][n] = fid[c][n]]
    BY <1>5 DEF SetFid
  <2>2. fid[c][n].refcount = (IF n \in owned[c] \ {n} \/ fid[c][n].auth THEN 1 ELSE 0)
                             + Cardinality(Pending(c, n))
    BY <1>1, <1>5
  <2> QED BY <1>1, <1>3, <2>1, <2>2, FidUpdate
<1> QED BY <1>2, <1>4, <1>5 DEF Clunked

\* A request the service keeps takes a reference.
LEMMA KeepFid ==
    ASSUME FidTypeOK, ReqTypeOK, \A d \in Conns : ReqInv(d) /\ FidInv(d),
           NEW c \in Conns, NEW t \in Tags, NEW n \in Fids, NEW flushable \in FlushAnswers,
           Keep(c, t, n, flushable)
    PROVE  FidTypeOK' /\ \A d \in Conns : FidInv(d)'
<1> DEFINE f == Incref(fid[c][n])
<1>1. /\ fid' = [fid EXCEPT ![c][n] = f] /\ owned' = owned
      /\ work' = [work EXCEPT ![c][t] = IoReq(n, flushable)]
      /\ ~fid[c][n].auth /\ fid[c][n].omode # "closed" /\ t \notin sent[c]
  BY DEF Keep, SetFid, Kept, ClientSends, ClientTag
<1>2. /\ fid[c][n] \in Spfid /\ fid[c][n].refcount \in Nat
      /\ fid[c][n].refcount = (IF n \in owned[c] \/ fid[c][n].auth THEN 1 ELSE 0)
                              + Cardinality(Pending(c, n))
      /\ Cardinality(Pending(c, n)) \in Nat
  BY FidFacts
<1>3. /\ f \in Spfid /\ f.refcount = fid[c][n].refcount + 1
      /\ f.auth = fid[c][n].auth /\ f.omode = fid[c][n].omode
  BY <1>2, SpfidOps
<1> HIDE DEF f
<1>4. FidTypeOK'
  BY <1>1, <1>3 DEF FidTypeOK
<1>5. FidInv(c)'
  <2>1. /\ fid'[c][n] = f /\ \A m \in Fids : m # n => fid'[c][m] = fid[c][m]
        /\ work'[c][t] = IoReq(n, flushable)
        /\ \A u \in Tags : u # t => work'[c][u] = work[c][u]
        /\ FidInv(c) /\ owned'[c] = owned[c]
        /\ IoReq(n, flushable).type = "io" /\ IoReq(n, flushable).fid = n
    BY <1>1 DEF FidTypeOK, ReqTypeOK, IoReq
  <2>2. work[c][t].type = "none"
    BY <1>1 DEF ReqInv, Working
  <2>3. /\ Pending(c, n)' = Pending(c, n) \cup {t} /\ t \notin Pending(c, n)
        /\ \A m \in Fids : m # n => Pending(c, m)' = Pending(c, m)
    BY <2>1, <2>2 DEF Pending
  <2>4. Cardinality(Pending(c, n)') = Cardinality(Pending(c, n)) + 1
    BY <2>3, PendingCardinality, FS_AddElement
  <2>5. ASSUME NEW m \in Fids
        PROVE  /\ fid'[c][m].refcount = ClientRef(c, m)' + Cardinality(Pending(c, m)')
               /\ fid'[c][m].refcount = 0 \/ fid'[c][m].auth => fid'[c][m].omode = "closed"
    <3>1. CASE m = n
      BY <1>1, <1>2, <1>3, <2>1, <2>4, <3>1 DEF ClientRef
    <3>2. CASE m # n
      <4>1. ClientRef(c, m)' = ClientRef(c, m)
        BY <2>1, <3>2 DEF ClientRef
      <4> QED BY <2>1, <2>3, <3>2, <4>1 DEF FidInv
    <3> QED BY <3>1, <3>2
  <2>6. ASSUME NEW u \in Tags, work'[c][u].type = "io"
        PROVE  /\ work'[c][u].fid \in Fids
               /\ fid'[c][work'[c][u].fid].omode # "closed"
               /\ ~fid'[c][work'[c][u].fid].auth
    <3>1. CASE u = t
      BY <1>1, <1>3, <2>1, <3>1
    <3>2. CASE u # t
      <4>1. /\ work'[c][u] = work[c][u] /\ work[c][u].fid \in Fids
            /\ fid[c][work[c][u].fid].omode # "closed"
            /\ ~fid[c][work[c][u].fid].auth
        BY <2>1, <2>6, <3>2 DEF FidInv
      <4> QED BY <1>1, <1>3, <2>1, <4>1
    <3> QED BY <3>1, <3>2
  <2> QED BY <2>5, <2>6 DEF FidInv
<1>6. ASSUME NEW d \in Conns, d # c PROVE FidInv(d)'
  BY <1>1, <1>6, FidFrame DEF FidTypeOK, ReqTypeOK
<1> QED BY <1>4, <1>5, <1>6

\* A kept request that ends gives its reference back; the flushes that end
\* with it had none.
LEMMA EndFid ==
    ASSUME FidTypeOK, ReqTypeOK, \A d \in Conns : ReqInv(d) /\ FidInv(d),
           NEW c \in Conns, NEW t \in Tags, NEW G \in SUBSET Tags,
           work[c][t].type = "io", t \in G,
           \A u \in G : u # t => work[c][u].type = "flush",
           Forget(c, G), owned' = owned,
           SetFid(c, work[c][t].fid, Decref(fid[c][work[c][t].fid]))
    PROVE  FidTypeOK' /\ \A d \in Conns : FidInv(d)'
<1>1. PICK n \in Fids : n = work[c][t].fid
  BY DEF FidInv
<1> DEFINE f == Decref(fid[c][n])
<1>2. /\ fid' = [fid EXCEPT ![c][n] = f]
      /\ work' = [work EXCEPT ![c] = [u \in Tags |-> IF u \in G THEN NoReq ELSE work[c][u]]]
  BY <1>1 DEF SetFid, Forget
<1>3. t \in Pending(c, n)
  BY <1>1 DEF Pending
<1>4. /\ fid[c][n] \in Spfid /\ fid[c][n].refcount \in Nat
      /\ fid[c][n].refcount = (IF n \in owned[c] \/ fid[c][n].auth THEN 1 ELSE 0)
                              + Cardinality(Pending(c, n))
      /\ Cardinality(Pending(c, n)) \in Nat
      /\ fid[c][n].omode # "closed" /\ ~fid[c][n].auth
  BY <1>3, FidFacts
<1>5. /\ f \in Spfid /\ f.refcount = fid[c][n].refcount - 1
      /\ f.refcount # 0 => f.omode = fid[c][n].omode
      /\ f.refcount = 0 => f.omode = "closed"
      /\ ~f.auth
  <2>1. CASE fid[c][n].refcount = 1
    BY <1>4, <2>1, SpfidOps
  <2>2. CASE fid[c][n].refcount # 1
    <3>1. fid[c][n].refcount - 1 # 0
      BY <1>4, <2>2
    <3> QED BY <1>4, <2>2, <3>1, SpfidOps
  <2> QED BY <2>1, <2>2
<1> HIDE DEF f
<1>6. FidTypeOK'
  BY <1>2, <1>5 DEF FidTypeOK
<1>7. FidInv(c)'
  <2>1. /\ fid'[c][n] = f /\ \A m \in Fids : m # n => fid'[c][m] = fid[c][m]
        /\ \A u \in Tags : work'[c][u] = IF u \in G THEN NoReq ELSE work[c][u]
        /\ FidInv(c) /\ owned'[c] = owned[c] /\ NoReq.type = "none"
    BY <1>2 DEF FidTypeOK, ReqTypeOK, NoReq
  <2>2. /\ Pending(c, n)' = Pending(c, n) \ {t}
        /\ \A m \in Fids : m # n => Pending(c, m)' = Pending(c, m)
    BY <1>1, <2>1 DEF Pending
  <2>3. Cardinality(Pending(c, n)') = Cardinality(Pending(c, n)) - 1
    <3>1. IsFiniteSet(Pending(c, n))
      BY PendingCardinality
    <3>2. Cardinality(Pending(c, n) \ {t}) = Cardinality(Pending(c, n)) - 1
      BY <1>3, <3>1, FS_RemoveElement
    <3> QED BY <2>2, <3>2
  <2>4. ASSUME NEW m \in Fids
        PROVE  /\ fid'[c][m].refcount = ClientRef(c, m)' + Cardinality(Pending(c, m)')
               /\ fid'[c][m].refcount = 0 \/ fid'[c][m].auth => fid'[c][m].omode = "closed"
    <3>1. CASE m = n
      BY <1>4, <1>5, <2>1, <2>3, <3>1 DEF ClientRef
    <3>2. CASE m # n
      <4>1. ClientRef(c, m)' = ClientRef(c, m)
        BY <2>1, <3>2 DEF ClientRef
      <4> QED BY <2>1, <2>2, <3>2, <4>1 DEF FidInv
    <3> QED BY <3>1, <3>2
  <2>5. ASSUME NEW u \in Tags, work'[c][u].type = "io"
        PROVE  /\ work'[c][u].fid \in Fids
               /\ fid'[c][work'[c][u].fid].omode # "closed"
               /\ ~fid'[c][work'[c][u].fid].auth
    <3>1. u \notin G /\ work'[c][u] = work[c][u]
      BY <2>1, <2>5
    <3>2. /\ work[c][u].fid \in Fids
          /\ fid[c][work[c][u].fid].omode # "closed"
          /\ ~fid[c][work[c][u].fid].auth
      BY <2>1, <2>5, <3>1 DEF FidInv
    <3>3. CASE work[c][u].fid = n
      <4>1. u \in Pending(c, n)'
        BY <2>5, <3>1, <3>3 DEF Pending
      <4>2. /\ Cardinality(Pending(c, n)') \in Nat
            /\ Cardinality(Pending(c, n)') # 0
        <5>1. IsFiniteSet(Pending(c, n)')
          BY <2>2, PendingCardinality, FS_RemoveElement
        <5> QED BY <4>1, <5>1, FS_CardinalityType, FS_EmptySet
      <4>3. f.refcount # 0
        BY <1>4, <1>5, <2>3, <4>2
      <4> QED BY <1>4, <1>5, <2>1, <3>1, <3>3, <4>3
    <3>4. CASE work[c][u].fid # n
      BY <2>1, <3>1, <3>2, <3>4
    <3> QED BY <3>3, <3>4
  <2> QED BY <2>4, <2>5 DEF FidInv
<1>8. ASSUME NEW d \in Conns, d # c PROVE FidInv(d)'
  BY <1>2, <1>8, FidFrame DEF FidTypeOK, ReqTypeOK
<1> QED BY <1>6, <1>7, <1>8

\* Flushes have no fid: a step that touches only them leaves the fids alone.
LEMMA FlushWaitsFid ==
    ASSUME FidTypeOK, ReqTypeOK, \A d \in Conns : ReqInv(d) /\ FidInv(d),
           NEW c \in Conns, NEW t \in Tags, NEW h \in Tags, NEW r \in Seq(Tags),
           t \notin sent[c], work[c][h].type = "io",
           work' = [work EXCEPT ![c][t] = FlushReq, ![c][h].flushreq = r],
           fid' = fid, owned' = owned
    PROVE  FidTypeOK' /\ \A d \in Conns : FidInv(d)'
<1>1. work[c][t].type = "none" /\ h # t
  BY DEF ReqInv, Working
<1>2. /\ \A u \in Tags : u # t => /\ work'[c][u].type = work[c][u].type
                                  /\ work'[c][u].fid = work[c][u].fid
      /\ work'[c][t].type = "flush"
      /\ \A d \in Conns : d # c => work'[d] = work[d]
  BY <1>1 DEF ReqTypeOK, FlushReq, Spreq
<1>3. FidInv(c)'
  <2>1. \A m : Pending(c, m)' = Pending(c, m)
    BY <1>1, <1>2 DEF Pending
  <2>2. \A u \in Tags : work'[c][u].type = "io" =>
            work[c][u].type = "io" /\ work'[c][u].fid = work[c][u].fid
    BY <1>1, <1>2
  <2>3. FidInv(c) /\ \A m : ClientRef(c, m)' = ClientRef(c, m)
    BY DEF ClientRef
  <2>4. \A m \in Fids :
          /\ fid'[c][m].refcount = ClientRef(c, m)' + Cardinality(Pending(c, m)')
          /\ fid'[c][m].refcount = 0 \/ fid'[c][m].auth => fid'[c][m].omode = "closed"
    BY <2>1, <2>3 DEF FidInv
  <2>5. \A u \in Tags : work'[c][u].type = "io" =>
          /\ work'[c][u].fid \in Fids
          /\ fid'[c][work'[c][u].fid].omode # "closed"
          /\ ~fid'[c][work'[c][u].fid].auth
    BY <2>2, <2>3 DEF FidInv
  <2> QED BY <2>4, <2>5 DEF FidInv
<1>4. ASSUME NEW d \in Conns, d # c PROVE FidInv(d)'
  BY <1>2, <1>4, FidFrame
<1> QED BY <1>3, <1>4 DEF FidTypeOK

\* Tflush ends the request it flushes, or waits.
LEMMA FlushFid ==
    ASSUME FidTypeOK, ReqTypeOK, \A d \in Conns : ReqInv(d) /\ FidInv(d),
           NEW c \in Conns, NEW t \in Tags, NEW o \in Tags, sp_flush(c, t, o)
    PROVE  FidTypeOK' /\ \A d \in Conns : FidInv(d)'
<1>1. CASE work' = work /\ fid' = fid
  BY <1>1, FidSame DEF sp_flush
<1>2. CASE /\ AnsweredByFlush(c, o) /\ Forget(c, {o})
           /\ SetFid(c, work[c][o].fid, Decref(fid[c][work[c][o].fid]))
  <2>1. owned' = owned /\ work[c][o].type = "io" /\ {o} \in SUBSET Tags
    BY <1>2 DEF sp_flush, AnsweredByFlush
  <2> QED BY <1>2, <2>1, EndFid
<1>3. CASE /\ o \in Working(c) /\ fid' = fid
           /\ LET h == FlushHead(c, o)
                  s == work[c][h].flushreq
              IN  work' = [work EXCEPT
                      ![c][t] = FlushReq,
                      ![c][h].flushreq = InsertAt(s, ChainAt(c, o, s), t)]
  <2> DEFINE h == FlushHead(c, o)
             s == work[c][h].flushreq
             k == ChainAt(c, o, s)
  <2>1. /\ h \in Tags /\ work[c][h].type = "io"
        /\ s \in Seq(Tags) /\ k \in 1 .. Len(s) + 1
    BY <1>3, ChainPlace
  <2>2. InsertAt(s, k, t) \in Seq(Tags)
    BY <2>1, InsertAtElements
  <2>3. work' = [work EXCEPT ![c][t] = FlushReq, ![c][h].flushreq = InsertAt(s, k, t)]
    BY <1>3
  <2>4. owned' = owned /\ t \notin sent[c]
    BY DEF sp_flush, ClientTag
  <2> QED BY <1>3, <2>1, <2>2, <2>3, <2>4, FlushWaitsFid, Zenon
<1> QED BY <1>1, <1>2, <1>3, Zenon DEF sp_flush

\* The messages about a fid.
LEMMA MessageFid ==
    ASSUME FidTypeOK, ReqTypeOK, \A d \in Conns : ReqInv(d) /\ FidInv(d),
           NEW c \in Conns, NEW t \in Tags, NEW n \in Fids, FidMessage(c, t, n)
    PROVE  FidTypeOK' /\ \A d \in Conns : FidInv(d)'
<1> DEFINE Goal == FidTypeOK' /\ \A d \in Conns : FidInv(d)'
<1>1. /\ fid[c][n].refcount = 0 \/ fid[c][n].auth => fid[c][n].omode = "closed"
      /\ fid[c][n].refcount = 0 => n \notin owned[c] /\ ~fid[c][n].auth
  <2>1. Cardinality(Pending(c, n)) \in Nat
    BY PendingCardinality
  <2> QED BY <2>1, FidFacts
<1>2. ASSUME sp_auth(c, t, n) PROVE Goal
  BY <1>2, NewFidUpdate DEF sp_auth
<1>3. ASSUME NEW a \in Fids \cup {NOFID}, sp_attach(c, t, n, a) PROVE Goal
  <2>1. CASE fid' = fid /\ owned' = owned
    BY <1>3, <2>1, FidSame DEF sp_attach
  <2>2. CASE \/ SetFid(c, n, Decref(Incref(Incref(Created)))) /\ Grant(c, n)
             \/ SetFid(c, n, Decref(Incref(Created))) /\ owned' = owned
    BY <1>3, <2>2, NewFidUpdate DEF sp_attach
  <2> QED BY <1>3, <2>1, <2>2 DEF sp_attach
<1>4. ASSUME NEW nn \in Fids, sp_walk(c, t, n, nn) PROVE Goal
  <2>1. CASE fid' = fid /\ owned' = owned
    BY <1>4, <2>1, FidSame DEF sp_walk
  <2>2. CASE /\ nn # n
             /\ \/ Found(c, nn) /\ SetFid(c, nn, Decref(fid[c][nn])) /\ owned' = owned
                \/ SetFid(c, nn, Decref(Incref(Incref(Created)))) /\ Grant(c, nn)
                \/ SetFid(c, nn, Decref(Incref(Created))) /\ owned' = owned
    BY <1>4, <2>2, NewFidUpdate DEF sp_walk
  <2> QED BY <1>4, <2>1, <2>2 DEF sp_walk
<1>5. ASSUME NEW mode \in {"open", "rclose"},
             sp_open(c, t, n, mode) \/ sp_create(c, t, n, mode)
      PROVE  Goal
  <2>1. work' = work /\ owned' = owned /\ ~fid[c][n].auth
    BY <1>5 DEF sp_open, sp_create, ClientFile
  <2>2. CASE fid' = fid
    BY <2>1, <2>2, FidSame
  <2>3. CASE /\ Found(c, n) /\ fid[c][n].omode = "closed"
             /\ SetFid(c, n, Decref([Incref(fid[c][n]) EXCEPT !.omode = mode]))
    BY <2>1, <2>3, OpenUpdate
  <2> QED BY <1>5, <2>2, <2>3, Zenon DEF sp_open, sp_create
<1>6. ASSUME SameFid(c, t, n) PROVE Goal
  BY <1>6, SameFidKeeps
<1>7. ASSUME NEW flushable \in FlushAnswers, Keep(c, t, n, flushable) PROVE Goal
  BY <1>7, KeepFid
<1>8. ASSUME sp_clunk(c, t, n) PROVE Goal
  <2>1. CASE Found(c, n)
    <3>1. work' = work /\ Withdraw(c, n) /\ n \in owned[c] /\ SetFid(c, n, Clunked(fid[c][n]))
      BY <1>8, <2>1 DEF sp_clunk, ClientLastUse, SetFid
    <3> QED BY <2>1, <3>1, LastUseUpdate
  <2>2. CASE ~Found(c, n)
    <3>1. n \notin owned[c]
      BY <1>1, <2>2 DEF Found
    <3>2. work' = work /\ fid' = fid /\ owned' = owned
      BY <1>8, <2>2, <3>1 DEF sp_clunk, Withdraw, FidTypeOK
    <3> QED BY <3>2, FidSame
  <2> QED BY <2>1, <2>2
<1>9. ASSUME sp_clunk_rclose(c, t, n) PROVE Goal
  <2>1. Found(c, n) /\ n \in owned[c] /\ ~fid[c][n].auth
    BY <1>1, <1>9 DEF sp_clunk_rclose, ClientLastUse, Found
  <2>2. CASE /\ SetFid(c, n, Decref(Decref(Incref(fid[c][n]))))
             /\ Withdraw(c, n) /\ work' = work
    BY <2>1, <2>2, LastUseUpdate
  <2>3. CASE UNCHANGED <<fid, work, owned>>
    BY <2>3, FidSame
  <2> QED BY <1>9, <2>2, <2>3 DEF sp_clunk_rclose
<1>10. ASSUME sp_remove(c, t, n) PROVE Goal
  <2>1. CASE SameFid(c, t, n)
    BY <2>1, <1>6
  <2>2. CASE /\ Found(c, n) /\ SetFid(c, n, Decref(Decref(Incref(fid[c][n]))))
             /\ Withdraw(c, n) /\ work' = work
    <3>1. n \in owned[c] /\ ~fid[c][n].auth
      BY <1>10, <2>2 DEF sp_remove, ClientLastUse, ClientFile
    <3> QED BY <2>2, <3>1, LastUseUpdate
  <2> QED BY <1>10, <2>1, <2>2 DEF sp_remove
<1> HIDE DEF Goal
<1>11. Goal
  BY <1>2, <1>3, <1>4, <1>5, <1>6, <1>7, <1>8, <1>9, <1>10
     DEF FidMessage, sp_read, sp_write, sp_stat, sp_wstat
<1> QED BY <1>11 DEF Goal

\* A connection that starts over has no fid and no request.
LEMMA ResetFid ==
    ASSUME FidTypeOK, ReqTypeOK, \A d \in Conns : FidInv(d),
           NEW c \in Conns, sp_conn_reset(c)
    PROVE  FidTypeOK' /\ \A d \in Conns : FidInv(d)'
<1>1. /\ fid' = [fid EXCEPT ![c] = [n \in Fids |-> NoSpfid]]
      /\ work' = [work EXCEPT ![c] = [t \in Tags |-> NoReq]]
      /\ owned' = [owned EXCEPT ![c] = {}]
  BY DEF sp_conn_reset
<1>2. FidTypeOK'
  BY <1>1, SpfidOps DEF FidTypeOK
<1>3. FidInv(c)'
  <2>1. /\ \A n \in Fids : fid'[c][n] = NoSpfid
        /\ \A t \in Tags : work'[c][t].type = "none"
        /\ owned'[c] = {}
    BY <1>1 DEF FidTypeOK, ReqTypeOK, NoReq
  <2>2. \A n : Pending(c, n)' = {}
    BY <2>1 DEF Pending
  <2>3. \A n \in Fids : fid'[c][n].refcount = 0 /\ ClientRef(c, n)' = 0
                        /\ fid'[c][n].omode = "closed"
    BY <2>1, SpfidOps DEF ClientRef
  <2>4. \A n : Cardinality(Pending(c, n)') = 0
    BY <2>2, FS_EmptySet
  <2> QED BY <2>1, <2>3, <2>4 DEF FidInv
<1>4. ASSUME NEW d \in Conns, d # c PROVE FidInv(d)'
  BY <1>1, <1>4, FidFrame DEF FidTypeOK, ReqTypeOK
<1> QED BY <1>2, <1>3, <1>4

\* Every step keeps the invariant of the fids.
LEMMA FidNext ==
    ASSUME FidTypeOK, ReqTypeOK, \A d \in Conns : ReqInv(d) /\ FidInv(d), [Next]_vars
    PROVE  FidTypeOK' /\ \A d \in Conns : FidInv(d)'
<1>1. CASE UNCHANGED <<fid, work, owned>>
  BY <1>1, FidSame
<1>2. ASSUME NEW c \in Conns, sp_conn_reset(c)
      PROVE  FidTypeOK' /\ \A d \in Conns : FidInv(d)'
  BY <1>2, ResetFid
<1>3. ASSUME NEW c \in Conns, NEW t \in Tags, NEW n \in Fids, FidMessage(c, t, n)
      PROVE  FidTypeOK' /\ \A d \in Conns : FidInv(d)'
  BY <1>3, MessageFid
<1>4. ASSUME NEW c \in Conns, NEW t \in Tags, NEW o \in Tags, sp_flush(c, t, o)
      PROVE  FidTypeOK' /\ \A d \in Conns : FidInv(d)'
  BY <1>4, FlushFid
<1>5. ASSUME NEW c \in Conns, NEW t \in Tags, sp_respond(c, t)
      PROVE  FidTypeOK' /\ \A d \in Conns : FidInv(d)'
  <2> DEFINE G == {t} \cup Chained(c, t)
  <2>1. /\ work[c][t].type = "io" /\ Forget(c, G) /\ owned' = owned
        /\ SetFid(c, work[c][t].fid, Decref(fid[c][work[c][t].fid]))
    BY <1>5 DEF sp_respond
  <2>2. work[c][t].flushreq \in Seq(Tags)
    BY DEF ReqTypeOK, Spreq
  <2>3. \A u \in Chained(c, t) : u \in Tags /\ InChain(c, t, u)
    BY <2>2 DEF Chained, InChain
  <2>4. /\ G \in SUBSET Tags /\ t \in G
        /\ \A u \in G : u # t => work[c][u].type = "flush"
    BY <2>3 DEF ReqInv, ChainInv
  <2> HIDE DEF G
  <2> QED BY <2>1, <2>4, EndFid
<1>6. CASE UNCHANGED vars
  BY <1>1, <1>6 DEF vars
<1>7. CASE Next
  <2>1. PICK c \in Conns :
          \/ Receive(c)
          \/ sp_conn_destroy(c)
          \/ \E t \in Tags :
                \/ sp_version(c, t)
                \/ sp_version_refused(c, t)
                \/ sp_respond(c, t)
                \/ \E n \in Fids : FidMessage(c, t, n)
                \/ \E o \in Tags : sp_flush(c, t, o)
    BY <1>7 DEF Next
  <2>2. CASE Receive(c)
    BY <2>2, <1>1 DEF Receive
  <2>3. CASE sp_conn_destroy(c) \/ \E t \in Tags : sp_version(c, t)
    BY <2>3, <1>1, <1>2 DEF sp_conn_destroy, sp_version, Loops
  <2>4. CASE \E t \in Tags : sp_version_refused(c, t)
    BY <2>4, <1>1 DEF sp_version_refused
  <2> QED BY <2>1, <2>2, <2>3, <2>4, <1>3, <1>4, <1>5
<1> QED BY <1>6, <1>7

-----------------------------------------------------------------------------
(* The theorems.                                                           *)

\* srv and pool keep their types.
LEMMA RestType ==
    ASSUME srv \in {"running", "looping", "crashed"}, pool \in SUBSET Conns, [Next]_vars
    PROVE  srv' \in {"running", "looping", "crashed"} /\ pool' \in SUBSET Conns
<1>1. CASE UNCHANGED vars
  BY <1>1 DEF vars
<1>2. CASE UNCHANGED <<srv, pool>>
  BY <1>2
<1>3. CASE Next
  <2>1. ASSUME NEW c \in Conns, NEW t \in Tags, NEW n \in Fids, FidMessage(c, t, n)
        PROVE  pool' = pool /\ (srv' = srv \/ srv' \in {"looping", "crashed"})
    BY <2>1 DEF FidMessage, sp_auth, sp_attach, sp_walk, sp_open, sp_create, sp_read,
       sp_write, sp_clunk, sp_clunk_rclose, sp_remove, sp_stat, sp_wstat, SameFid,
       Keep, ClientSends
  <2>2. ASSUME NEW c \in Conns, NEW t \in Tags, NEW o \in Tags, sp_flush(c, t, o)
        PROVE  UNCHANGED <<srv, pool>>
    BY <2>2 DEF sp_flush
  <2>3. ASSUME NEW c \in Conns,
               Receive(c) \/ sp_conn_destroy(c) \/ \E t \in Tags :
                   sp_version(c, t) \/ sp_version_refused(c, t) \/ sp_respond(c, t)
        PROVE  srv' \in {"running", "looping", "crashed"} /\ pool' \in SUBSET Conns
    BY <2>3 DEF Receive, sp_conn_destroy, sp_version, sp_version_refused, sp_respond, Loops
  <2> QED BY <1>3, <2>1, <2>2, <2>3 DEF Next
<1> QED BY <1>1, <1>3

\* The invariant holds of the initial state: no connection has a table.
LEMMA InitIInv == Init => IInv
<1> SUFFICES ASSUME Init PROVE IInv
  OBVIOUS
<1>1. NoReq \in Spreq /\ NoReq.type = "none" /\ DOMAIN NoReq.flushreq = {}
  BY DEF NoReq, Spreq
<1>2. <<>> \in Seq(Reply) /\ DOMAIN <<>> = {}
  OBVIOUS
<1>3. TypeOK
  BY <1>1, <1>2, SpfidOps DEF Init, TypeOK
<1>4. ASSUME NEW c \in Conns PROVE ReqInv(c)
  <2>1. /\ \A t \in Tags : work[c][t] = NoReq /\ oldtag[c][t] = NOTAG
        /\ out[c] = <<>> /\ sent[c] = {}
    BY DEF Init
  <2>2. Working(c) = {} /\ \A h, t \in Tags : ~InChain(c, h, t)
    BY <1>1, <2>1 DEF Working, InChain
  <2>3. ChainInv(c)
    BY <1>1, <2>1, <2>2 DEF ChainInv
  <2>4. OutInv(c) /\ OrderInv(c)
    BY <1>2, <2>1 DEF OutInv, OrderInv
  <2> QED BY <1>1, <2>1, <2>2, <2>3, <2>4 DEF ReqInv
<1>5. ASSUME NEW c \in Conns PROVE FidInv(c)
  <2>1. /\ \A n \in Fids : fid[c][n] = NoSpfid
        /\ \A t \in Tags : work[c][t].type = "none"
        /\ owned[c] = {}
    BY <1>1 DEF Init
  <2>2. \A n : Pending(c, n) = {}
    BY <2>1 DEF Pending
  <2>3. \A n \in Fids : fid[c][n].refcount = 0 /\ ClientRef(c, n) = 0
                        /\ fid[c][n].omode = "closed"
    BY <2>1, SpfidOps DEF ClientRef
  <2>4. \A n : Cardinality(Pending(c, n)) = 0
    BY <2>2, FS_EmptySet
  <2> QED BY <2>1, <2>3, <2>4 DEF FidInv
<1> QED BY <1>3, <1>4, <1>5 DEF IInv

\* Every step keeps the invariant.
LEMMA NextIInv == IInv /\ [Next]_vars => IInv'
<1> SUFFICES ASSUME IInv, [Next]_vars PROVE IInv'
  OBVIOUS
<1>1. /\ ReqTypeOK /\ FidTypeOK /\ \A d \in Conns : ReqInv(d) /\ FidInv(d)
      /\ srv \in {"running", "looping", "crashed"} /\ pool \in SUBSET Conns
  BY DEF IInv, TypeOK, ReqTypeOK, FidTypeOK
<1>2. ReqTypeOK' /\ \A d \in Conns : ReqInv(d)'
  BY <1>1, ReqNext
<1>3. FidTypeOK' /\ \A d \in Conns : FidInv(d)'
  BY <1>1, FidNext
<1>4. srv' \in {"running", "looping", "crashed"} /\ pool' \in SUBSET Conns
  BY <1>1, RestType
<1> QED BY <1>2, <1>3, <1>4 DEF IInv, TypeOK, ReqTypeOK, FidTypeOK

\* The inductive invariant holds of every reachable state of the server.
THEOREM SpSrvInvariant == Spec => []IInv
BY InitIInv, NextIInv, PTL DEF Spec

\* The state of srv.c, conn.c and fidpool.c keeps its types.
THEOREM SpSrvTypeOK == Spec => []TypeOK
<1>1. IInv => TypeOK
  BY DEF IInv
<1> QED BY <1>1, SpSrvInvariant, PTL

\* sp_fid_incref and sp_fid_decref balance: the count of a fid is the number
\* of those who refer to it, for any number of clients, fids and requests.
THEOREM SpSrvFidRefcount == Spec => []FidRefcount
<1>1. IInv => FidRefcount
  BY DEF IInv, FidInv, FidRefcount
<1> QED BY <1>1, SpSrvInvariant, PTL

\* A fid is not destroyed, closed or made an authentication fid under a request
\* the service keeps.
THEOREM SpSrvKeptFid == Spec => []KeptFid
<1>1. IInv => KeptFid
  <2> SUFFICES ASSUME IInv, NEW c \in Conns, NEW t \in Tags, work[c][t].type = "io"
               PROVE  /\ work[c][t].fid \in Fids
                      /\ Found(c, work[c][t].fid)
                      /\ fid[c][work[c][t].fid].omode # "closed"
                      /\ ~fid[c][work[c][t].fid].auth
    BY DEF KeptFid
  <2>1. FidInv(c)
    BY DEF IInv
  <2> QED BY <2>1 DEF FidInv, Found
<1> QED BY <1>1, SpSrvInvariant, PTL

\* Replies are wanted, single, and a Rflush is the last word on what it flushes.
THEOREM SpSrvFlushIsFinal == Spec => []FlushIsFinal
<1>1. IInv => FlushIsFinal
  <2> SUFFICES ASSUME IInv, NEW c \in Conns, NEW j \in DOMAIN out[c]
               PROVE  /\ out[c][j].tag \in sent[c]
                      /\ out[c][j].tag \notin Working(c)
                      /\ \A i \in 1..(j - 1) :
                            /\ out[c][i].tag # out[c][j].tag
                            /\ oldtag[c][out[c][i].tag] # out[c][j].tag
    BY DEF FlushIsFinal
  <2>1. OutInv(c) /\ OrderInv(c) /\ out[c] \in Seq(Reply)
    BY DEF IInv, ReqInv, TypeOK
  <2>2. \A i \in 1..(j - 1) : i \in DOMAIN out[c] /\ i < j
    BY <2>1
  <2> QED BY <2>1, <2>2 DEF OutInv, OrderInv
<1> QED BY <1>1, SpSrvInvariant, PTL

=============================================================================
