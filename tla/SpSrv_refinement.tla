-------------------------- MODULE SpSrv_refinement --------------------------
(***************************************************************************)
(* SpSrv implements Requests; and what follows from it and from the        *)
(* inductive invariant: no request is lost, connections do not disturb     *)
(* each other, and a service that answers what it is asked to flush can    *)
(* always be reset.                                                        *)
(***************************************************************************)
EXTENDS SpSrv_proofs

-----------------------------------------------------------------------------
(* A step of the server: replies s are added to those of one connection.   *)

\* The replies a step adds are what is behind the old ones.
LEMMA AddedReplies ==
    ASSUME NEW q \in Seq(Reply), NEW s \in Seq(Reply)
    PROVE  SubSeq(q \o s, Len(q) + 1, Len(q \o s)) = s
<1>1. Len(q) \in Nat /\ Len(s) \in Nat /\ Len(q \o s) = Len(q) + Len(s)
  OBVIOUS
<1>2. /\ q \o s \in Seq(Reply)
      /\ \A i \in 1 .. Len(s) : (q \o s)[Len(q) + i] = s[i]
  BY <1>1
<1> DEFINE p == q \o s
           r == SubSeq(p, Len(q) + 1, Len(p))
<1> HIDE DEF p
<1>3. /\ r \in Seq(Reply) /\ Len(r) = Len(s)
      /\ \A i \in 1 .. Len(s) : r[i] = p[Len(q) + i]
  BY <1>1, <1>2 DEF p
<1> HIDE DEF r
<1>4. r = s
  BY <1>1, <1>2, <1>3 DEF p
<1> QED BY <1>4 DEF r, p

\* A step that adds legal replies to one connection, and takes what they end
\* from srv->workreqs, serves the requests of the connection.
LEMMA ServeStep ==
    ASSUME ReqTypeOK, NEW c \in Conns, NEW S, NEW s \in Seq(Reply),
           out' = [out EXCEPT ![c] = @ \o s],
           Abs!Legal(c, S, s),
           Working(c)' = S \ Abs!Ended(c, s),
           \A d \in Conns : d # c => work'[d] = work[d]
    PROVE  Abs!Serve(c, S)
<1>1. out \in [Conns -> Seq(Reply)]
  BY DEF ReqTypeOK
<1>2. out'[c] = out[c] \o s /\ out[c] \in Seq(Reply)
  BY <1>1
<1>3. Abs!Added(c) = s
  BY <1>2, AddedReplies DEF Abs!Added
<1>4. \A d \in Conns : d # c => Working(d)' = Working(d)
  BY DEF Working
<1>5. [d \in Conns |-> Working(d)]' =
          [[d \in Conns |-> Working(d)] EXCEPT ![c] = S \ Abs!Ended(c, s)]
  BY <1>4, Zenon
<1> QED BY <1>3, <1>5 DEF Abs!Serve

-----------------------------------------------------------------------------
(* Each kind of step of SpSrv is a step of Requests.                       *)

\* A message that is answered at once.
LEMMA AnsweredRefines ==
    ASSUME ReqTypeOK, NEW c \in Conns, ReqInv(c), NEW t \in Tags, AnsweredStep(c, t)
    PROVE  Abs!Request(c, t, NOTAG)
<1> DEFINE s == <<[tag |-> t, type |-> "R"]>>
           S == Working(c) \cup {t}
<1>1. /\ out \in [Conns -> Seq(Reply)] /\ oldtag \in [Conns -> [Tags -> Tags \cup {NOTAG}]]
      /\ oldtag[c][t] = NOTAG /\ t \notin Working(c) /\ NOTAG \notin Tags
      /\ t \notin sent[c] /\ oldtag' = oldtag /\ work' = work
      /\ Working(c) \subseteq Tags
  BY SpSrvAssumption DEF ReqTypeOK, ReqInv, AnsweredStep, Working
<1>2. s \in Seq(Reply) /\ Len(s) = 1 /\ s[1] = [tag |-> t, type |-> "R"] /\ DOMAIN s = {1}
  BY DEF Reply
<1>3. out' = [out EXCEPT ![c] = @ \o s]
  <2>1. \A q \in Seq(Reply) : Append(q, [tag |-> t, type |-> "R"]) = q \o s
    BY <1>2
  <2>2. out[c] \in Seq(Reply) /\ out' = [out EXCEPT ![c] = Append(@, [tag |-> t, type |-> "R"])]
    BY <1>1 DEF AnsweredStep, Answer
  <2> HIDE DEF s
  <2> QED BY <2>1, <2>2
<1> HIDE DEF s
<1>4. Abs!Legal(c, S, s)
  BY <1>1, <1>2 DEF Abs!Legal
<1>5. Abs!Ended(c, s) = {t, NOTAG}
  BY <1>1, <1>2 DEF Abs!Ended
<1>6. Working(c)' = Working(c)
  BY <1>1 DEF Working
<1>7. Working(c)' = S \ Abs!Ended(c, s)
  BY <1>1, <1>5, <1>6
<1>8. Abs!Serve(c, S)
  BY <1>1, <1>2, <1>3, <1>4, <1>7, ServeStep
<1>9. oldtag' = [oldtag EXCEPT ![c][t] = NOTAG] /\ NOTAG # t
  BY <1>1
<1> QED BY <1>8, <1>9 DEF AnsweredStep, Abs!Request

\* A message without an answer yet: S is what is open after it.
LEMMA SilentServe ==
    ASSUME ReqTypeOK, NEW c \in Conns, NEW S, out' = out, Working(c)' = S,
           \A d \in Conns : d # c => work'[d] = work[d]
    PROVE  Abs!Serve(c, S)
<1>1. /\ out \in [Conns -> Seq(Reply)] /\ <<>> \in Seq(Reply)
      /\ out' = [out EXCEPT ![c] = @ \o <<>>]
  BY DEF ReqTypeOK
<1>2. Abs!Legal(c, S, <<>>) /\ Abs!Ended(c, <<>>) = {}
  BY DEF Abs!Legal, Abs!Ended
<1> QED BY <1>1, <1>2, ServeStep

\* A request the service keeps.
LEMMA KeepRefines ==
    ASSUME ReqTypeOK, NEW c \in Conns, ReqInv(c), NEW t \in Tags, NEW n \in Fids,
           NEW flushable \in FlushAnswers, Keep(c, t, n, flushable)
    PROVE  Abs!Request(c, t, NOTAG)
<1>1. /\ work \in [Conns -> [Tags -> Spreq]]
      /\ oldtag \in [Conns -> [Tags -> Tags \cup {NOTAG}]]
      /\ oldtag[c][t] = NOTAG /\ NOTAG \notin Tags
      /\ t \notin sent[c] /\ \A f \in sent[c] : oldtag[c][f] # t
      /\ sent' = [sent EXCEPT ![c] = @ \cup {t}]
      /\ oldtag' = oldtag /\ out' = out
      /\ work' = [work EXCEPT ![c][t] = IoReq(n, flushable)]
  BY SpSrvAssumption DEF ReqTypeOK, ReqInv, Keep, ClientSends, ClientTag
<1>2. work'[c][t].type = "io" /\ \A u \in Tags : u # t => work'[c][u] = work[c][u]
  BY <1>1 DEF IoReq
<1>3. Working(c)' = Working(c) \cup {t}
  BY <1>2 DEF Working
<1>4. \A d \in Conns : d # c => work'[d] = work[d]
  BY <1>1
<1>5. Abs!Serve(c, Working(c) \cup {t})
  BY <1>1, <1>3, <1>4, SilentServe
<1>6. oldtag' = [oldtag EXCEPT ![c][t] = NOTAG] /\ NOTAG # t
  BY <1>1
<1> QED BY <1>1, <1>5, <1>6 DEF Abs!Request

\* A Tflush that is answered at once, with or without a request to flush.
LEMMA FlushNowRefines ==
    ASSUME ReqTypeOK, NEW c \in Conns, ReqInv(c), NEW t \in Tags, NEW o \in Tags,
           ClientTag(c, t), o # t,
           sent' = [sent EXCEPT ![c] = @ \cup {t}],
           oldtag' = [oldtag EXCEPT ![c][t] = o],
           out' = [out EXCEPT ![c] = @ \o Rflushes(<<t>>)],
           \/ o \notin Working(c) /\ work' = work
           \/ AnsweredByFlush(c, o) /\ Forget(c, {o})
    PROVE  Abs!Request(c, t, o)
<1> DEFINE s == Rflushes(<<t>>)
           S == Working(c) \cup {t}
<1>1. /\ work \in [Conns -> [Tags -> Spreq]]
      /\ oldtag \in [Conns -> [Tags -> Tags \cup {NOTAG}]]
      /\ t \notin Working(c) /\ NOTAG \notin Tags
      /\ t \notin sent[c] /\ \A f \in sent[c] : oldtag[c][f] # t
  BY SpSrvAssumption DEF ReqTypeOK, ReqInv, ClientTag
<1>2. /\ s \in Seq(Reply) /\ DOMAIN s = {1}
      /\ s[1] = [tag |-> t, type |-> "Rflush"]
  BY DEF Rflushes, Reply
<1>3. oldtag'[c][t] = o
  BY <1>1
<1> HIDE DEF s
<1>4. Abs!Legal(c, S, s)
  BY <1>1, <1>2, <1>3 DEF Abs!Legal
<1>5. Abs!Ended(c, s) = {t, o}
  BY <1>2, <1>3 DEF Abs!Ended
<1>6. Working(c)' = Working(c) \ {o} /\ \A d \in Conns : d # c => work'[d] = work[d]
  <2>1. CASE o \notin Working(c) /\ work' = work
    BY <2>1 DEF Working
  <2>2. CASE Forget(c, {o})
    <3>1. \A u \in Tags : work'[c][u] = IF u = o THEN NoReq ELSE work[c][u]
      BY <1>1, <2>2 DEF Forget
    <3>2. \A d \in Conns : d # c => work'[d] = work[d]
      BY <1>1, <2>2 DEF Forget
    <3> QED BY <3>1, <3>2 DEF Working, NoReq
  <2> QED BY <2>1, <2>2
<1>7. Working(c)' = S \ Abs!Ended(c, s)
  BY <1>1, <1>5, <1>6
<1>8. Abs!Serve(c, S)
  BY <1>2, <1>4, <1>6, <1>7, ServeStep DEF s
<1> QED BY <1>1, <1>8 DEF Abs!Request

\* A Tflush that waits in a chain.
LEMMA FlushWaitsRefines ==
    ASSUME ReqTypeOK, NEW c \in Conns, ReqInv(c), NEW t \in Tags, NEW o \in Tags,
           NEW h \in Tags, NEW q, work[c][h].type = "io",
           ClientTag(c, t), o # t,
           sent' = [sent EXCEPT ![c] = @ \cup {t}],
           oldtag' = [oldtag EXCEPT ![c][t] = o],
           out' = out,
           work' = [work EXCEPT ![c][t] = FlushReq, ![c][h].flushreq = q]
    PROVE  Abs!Request(c, t, o)
<1>1. /\ work \in [Conns -> [Tags -> Spreq]]
      /\ t \notin sent[c] /\ \A f \in sent[c] : oldtag[c][f] # t
      /\ t \notin Working(c) /\ h \in Working(c)
  BY DEF ReqTypeOK, ReqInv, ClientTag, Working
<1>2. /\ h # t /\ work'[c][t] = FlushReq
      /\ work'[c][h] = [work[c][h] EXCEPT !.flushreq = q]
      /\ \A u \in Tags : u \notin {t, h} => work'[c][u] = work[c][u]
      /\ \A d \in Conns : d # c => work'[d] = work[d]
  BY <1>1
<1>3. work[c][h] \in Spreq
  BY <1>1
<1>4. work'[c][h].type = "io" /\ work'[c][t].type = "flush"
  <2>1. FlushReq.type = "flush"
    BY DEF FlushReq
  <2>2. \A r \in Spreq : [r EXCEPT !.flushreq = q].type = r.type
    BY DEF Spreq
  <2> QED BY <1>2, <1>3, <2>1, <2>2, Zenon
<1>5. Working(c)' = Working(c) \cup {t}
  BY <1>1, <1>2, <1>4 DEF Working
<1>6. Abs!Serve(c, Working(c) \cup {t})
  BY <1>2, <1>5, SilentServe
<1> QED BY <1>1, <1>6 DEF Abs!Request

\* The reply to a kept request is a R, those to the flushes behind it Rflushes.
LEMMA RepliesTypes ==
    ASSUME ReqTypeOK, NEW c \in Conns, NEW t \in Tags
    PROVE  /\ Replies(c, t)[1].type = "R"
           /\ \A i \in 1 .. Len(work[c][t].flushreq) : Replies(c, t)[i + 1].type = "Rflush"
<1> DEFINE s == work[c][t].flushreq
           r == [tag |-> t, type |-> "R"]
<1>1. s \in Seq(Tags)
  BY DEF ReqTypeOK, Spreq
<1>2. r \in Reply /\ r.type = "R"
  BY DEF Reply
<1>3. Replies(c, t) = <<r>> \o Rflushes(s)
  BY DEF Replies
<1>4. \A i \in 1 .. Len(s) : Rflushes(s)[i].type = "Rflush"
  BY <1>1 DEF Rflushes
<1> HIDE DEF s, r
<1>5. Rflushes(s) \in Seq(Reply) /\ Len(Rflushes(s)) = Len(s)
  BY <1>1, RflushesSeq
<1>6. Replies(c, t)[1] = r /\ \A i \in 1 .. Len(s) : Replies(c, t)[i + 1] = Rflushes(s)[i]
  BY <1>1, <1>2, <1>3, <1>5
<1> QED BY <1>2, <1>4, <1>6 DEF s

\* sp_respond for a kept request: the replies end the request and its chain.
LEMMA RespondRefines ==
    ASSUME ReqTypeOK, \A d \in Conns : ReqInv(d),
           NEW c \in Conns, NEW t \in Tags, sp_respond(c, t)
    PROVE  Abs!Respond(c)
<1> DEFINE s == work[c][t].flushreq
           R == Replies(c, t)
           Gone == {t} \cup Chained(c, t)
           q == out[c]
<1>1. /\ sent' = sent /\ oldtag' = oldtag
      /\ out' = [out EXCEPT ![c] = out[c] \o R]
      /\ work' = [work EXCEPT ![c] = [u \in Tags |-> IF u \in Gone THEN NoReq ELSE work[c][u]]]
      /\ work[c][t].type = "io"
  BY DEF sp_respond, Forget
<1>2. /\ s \in Seq(Tags) /\ q \in Seq(Reply) /\ R \in Seq(Reply)
      /\ Len(s) \in Nat /\ DOMAIN s = 1 .. Len(s)
      /\ Len(R) = Len(s) + 1 /\ R[1].tag = t /\ R[1].type = "R"
      /\ \A i \in 1 .. Len(s) : R[i + 1].tag = s[i] /\ R[i + 1].type = "Rflush"
      /\ work \in [Conns -> [Tags -> Spreq]] /\ out \in [Conns -> Seq(Reply)]
  <2>1. /\ s \in Seq(Tags) /\ R \in Seq(Reply)
        /\ Len(R) = Len(s) + 1 /\ R[1].tag = t /\ R[1].type = "R"
        /\ \A i \in 1 .. Len(s) : R[i + 1].tag = s[i] /\ R[i + 1].type = "Rflush"
    <3>1. /\ s \in Seq(Tags) /\ R \in Seq(Reply)
          /\ Len(R) = Len(s) + 1 /\ R[1].tag = t
          /\ \A i \in 1 .. Len(s) : R[i + 1].tag = s[i]
      BY RepliesSeq, Zenon
    <3>2. R[1].type = "R" /\ \A i \in 1 .. Len(s) : R[i + 1].type = "Rflush"
      BY RepliesTypes, Zenon
    <3> HIDE DEF s, R
    <3> QED BY <3>1, <3>2
  <2>2. Len(s) \in Nat /\ DOMAIN s = 1 .. Len(s)
    BY <2>1
  <2>3. /\ work \in [Conns -> [Tags -> Spreq]] /\ out \in [Conns -> Seq(Reply)]
        /\ q \in Seq(Reply)
    BY DEF ReqTypeOK
  <2> QED BY <2>1, <2>2, <2>3, Zenon
<1>3. /\ OrderInv(c)' /\ ReqInv(c)
      /\ oldtag[c][t] = NOTAG /\ NOTAG \notin Tags
  BY <1>1, RespondReq, SpSrvAssumption DEF ReqInv
<1>4. /\ \A u : u \in Gone <=> (u = t \/ InChain(c, t, u))
      /\ \A i \in 1 .. Len(s) : s[i] \in Tags /\ InChain(c, t, s[i])
      /\ \A u : InChain(c, t, u) => \E i \in 1 .. Len(s) : u = s[i]
  <2>1. \A u : u \in Chained(c, t) <=> InChain(c, t, u)
    BY Zenon DEF Chained, InChain
  <2>2. \A i \in 1 .. Len(s) : s[i] \in Tags /\ InChain(c, t, s[i])
    <3>1. \A i \in 1 .. Len(s) : s[i] \in Tags
      BY <1>2
    <3>2. \A i \in 1 .. Len(s) : InChain(c, t, s[i])
      BY <1>2, Zenon DEF InChain
    <3> QED BY <3>1, <3>2
  <2>3. \A u : InChain(c, t, u) => \E i \in 1 .. Len(s) : u = s[i]
    BY <1>2, Zenon DEF InChain
  <2> QED BY <2>1, <2>2, <2>3
<1>5. \A i \in 1 .. Len(s) :
          /\ work[c][s[i]].type = "flush"
          /\ oldtag[c][s[i]] \in Gone /\ oldtag[c][s[i]] # NOTAG
  <2> SUFFICES ASSUME NEW i \in 1 .. Len(s)
               PROVE  /\ work[c][s[i]].type = "flush"
                      /\ oldtag[c][s[i]] \in Gone /\ oldtag[c][s[i]] # NOTAG
    OBVIOUS
  <2>1. /\ work[c][s[i]].type = "flush"
        /\ oldtag[c][s[i]] = t \/ InChain(c, t, oldtag[c][s[i]])
    BY <1>3, <1>4 DEF ReqInv, ChainInv
  <2>2. InChain(c, t, oldtag[c][s[i]]) => oldtag[c][s[i]] \in Tags
    BY <1>4
  <2> QED BY <1>3, <1>4, <2>1, <2>2
<1> HIDE DEF R, Gone
<1>6. /\ DOMAIN R = 1 .. Len(R) /\ Len(R) \in Nat /\ 1 \in 1 .. Len(R)
      /\ \A i \in 1 .. Len(R) : i = 1 \/ \E k \in 1 .. Len(s) : i = k + 1
      /\ \A k \in 1 .. Len(s) : k + 1 \in 1 .. Len(R)
  <2>1. \A i \in 1 .. Len(R) : i # 1 => i - 1 \in 1 .. Len(s) /\ i = (i - 1) + 1
    BY <1>2
  <2> QED BY <1>2, <2>1
<1>7. \A i \in DOMAIN R :
          /\ R[i].tag \in Gone
          /\ R[i].type = IF oldtag'[c][R[i].tag] = NOTAG THEN "R" ELSE "Rflush"
          /\ oldtag'[c][R[i].tag] \in Gone \cup {NOTAG}
  <2> SUFFICES ASSUME NEW i \in 1 .. Len(R)
               PROVE  /\ R[i].tag \in Gone
                      /\ R[i].type = IF oldtag[c][R[i].tag] = NOTAG THEN "R" ELSE "Rflush"
                      /\ oldtag[c][R[i].tag] \in Gone \cup {NOTAG}
    BY <1>1, <1>6
  <2>1. CASE i = 1
    BY <2>1, <1>2, <1>3, <1>4
  <2>2. ASSUME NEW k \in 1 .. Len(s), i = k + 1
        PROVE  /\ R[i].tag \in Gone /\ R[i].type = "Rflush"
               /\ oldtag[c][R[i].tag] \in Gone /\ oldtag[c][R[i].tag] # NOTAG
    <3>1. R[i].tag = s[k] /\ R[i].type = "Rflush"
      BY <2>2, <1>2, Zenon
    <3>2. s[k] \in Gone /\ oldtag[c][s[k]] \in Gone /\ oldtag[c][s[k]] # NOTAG
      BY <1>4, <1>5, Zenon
    <3> QED BY <3>1, <3>2, Zenon
  <2> QED BY <2>1, <2>2, <1>6
<1>8. \A i, j \in DOMAIN R : j < i => R[i].tag \notin {R[j].tag, oldtag'[c][R[j].tag]}
  <2> SUFFICES ASSUME NEW i \in DOMAIN R, NEW j \in DOMAIN R, j < i
               PROVE  R[i].tag # R[j].tag /\ oldtag'[c][R[j].tag] # R[i].tag
    OBVIOUS
  <2>1. out'[c] = q \o R
    BY <1>1, <1>2
  <2>2. Len(q) \in Nat /\ i \in 1 .. Len(R) /\ j \in 1 .. Len(R) /\ Len(R) \in Nat
    BY <1>2, <1>6
  <2> HIDE DEF q
  <2>3. /\ Len(q) + j < Len(q) + i
        /\ Len(q) + i \in 1 .. Len(q) + Len(R) /\ Len(q) + j \in 1 .. Len(q) + Len(R)
        /\ Len(q) + i \notin 1 .. Len(q) /\ Len(q) + j \notin 1 .. Len(q)
        /\ (Len(q) + i) - Len(q) = i /\ (Len(q) + j) - Len(q) = j
    BY <2>2
  <2>4. /\ Len(q) + i \in DOMAIN (q \o R) /\ Len(q) + j \in DOMAIN (q \o R)
        /\ (q \o R)[Len(q) + i] = R[i] /\ (q \o R)[Len(q) + j] = R[j]
    <3>1. q \in Seq(Reply) /\ R \in Seq(Reply)
      BY <1>2
    <3>2. /\ DOMAIN (q \o R) = 1 .. Len(q) + Len(R)
          /\ \A m \in 1 .. Len(q) + Len(R) : m \notin 1 .. Len(q) => (q \o R)[m] = R[m - Len(q)]
      BY <3>1, ConcatElements
    <3> QED BY <2>3, <3>2, Zenon
  <2> QED BY <1>3, <2>1, <2>3, <2>4, Zenon DEF OrderInv
<1>9. Gone \subseteq Working(c) /\ Working(c)' = Working(c) \ Gone
  <2>1. \A u \in Tags : work'[c][u] = IF u \in Gone THEN NoReq ELSE work[c][u]
    BY <1>1, <1>2
  <2>2. \A u \in Gone : u \in Tags /\ work[c][u].type # "none"
    BY <1>1, <1>4, <1>5
  <2> QED BY <2>1, <2>2 DEF Working, NoReq
<1>10. Abs!Legal(c, Working(c), R)
  BY <1>7, <1>8, <1>9 DEF Abs!Legal
<1>11. Working(c) \ Abs!Ended(c, R) = Working(c) \ Gone
  <2>1. ASSUME NEW u \in Gone PROVE \E i \in DOMAIN R : u = R[i].tag
    <3>1. CASE u = t
      BY <3>1, <1>2, <1>6, Zenon
    <3>2. ASSUME NEW k \in 1 .. Len(s), u = s[k] PROVE \E i \in DOMAIN R : u = R[i].tag
      <4>1. k + 1 \in DOMAIN R
        BY <1>6, Zenon
      <4>2. R[k + 1].tag = s[k]
        BY <1>2
      <4> QED BY <3>2, <4>1, <4>2, Zenon
    <3> QED BY <3>1, <3>2, <1>4, Zenon
  <2>2. NOTAG \notin Working(c)
    BY <1>3 DEF Working
  <2> QED BY <1>7, <2>1, <2>2 DEF Abs!Ended
<1>12. \A d \in Conns : d # c => work'[d] = work[d]
  BY <1>1, <1>2
<1>13. Abs!Serve(c, Working(c))
  BY <1>1, <1>2, <1>9, <1>10, <1>11, <1>12, ServeStep
<1> QED BY <1>1, <1>13 DEF Abs!Respond

\* The restart or the end of a connection.
LEMMA ResetRefines ==
    ASSUME ReqTypeOK, NEW c \in Conns, sp_conn_reset(c), NEW ts,
           sent' = [sent EXCEPT ![c] = ts],
           \/ ts = {} /\ out' = [out EXCEPT ![c] = <<>>]
           \/ \E t \in Tags : /\ ts = {t}
                              /\ out' = [out EXCEPT ![c] = <<[tag |-> t, type |-> "R"]>>]
    PROVE  Abs!Reset(c, ts)
<1>1. /\ work \in [Conns -> [Tags -> Spreq]]
      /\ work' = [work EXCEPT ![c] = [t \in Tags |-> NoReq]]
      /\ oldtag' = [oldtag EXCEPT ![c] = [t \in Tags |-> NOTAG]]
  BY DEF sp_conn_reset, ReqTypeOK
<1>2. Working(c)' = {} /\ \A d \in Conns : d # c => Working(d)' = Working(d)
  BY <1>1 DEF Working, NoReq
<1>3. [d \in Conns |-> Working(d)]' = [[d \in Conns |-> Working(d)] EXCEPT ![c] = {}]
  BY <1>2, Zenon
<1> QED BY <1>1, <1>3, Zenon DEF Abs!Reset

\* The client reads a reply.
LEMMA ReceiveRefines ==
    ASSUME ReqTypeOK, NEW c \in Conns, Receive(c)
    PROVE  Abs!Receive(c)
<1>1. /\ out[c] # <<>> /\ work' = work
      /\ out' = [out EXCEPT ![c] = Tail(@)]
  BY DEF Receive
<1> DEFINE h == Head(out[c]).tag
           o == oldtag[c][h]
<1>2. sent' = [sent EXCEPT ![c] = @ \ {h, o}]
  BY DEF Receive
<1>3. oldtag' = [oldtag EXCEPT ![c] = [t \in Tags |-> IF t \in {h, o} THEN NOTAG ELSE @[t]]]
  BY DEF Receive
<1>4. [d \in Conns |-> Working(d)]' = [d \in Conns |-> Working(d)]
  BY <1>1 DEF Working
<1> QED BY <1>1, <1>2, <1>3, <1>4, Zenon DEF Abs!Receive

-----------------------------------------------------------------------------
(* The refinement.                                                         *)

\* Every step of SpSrv is a step of Requests or leaves its state alone.
LEMMA NextRefines ==
    ASSUME IInv, [Next]_vars
    PROVE  [Abs!Next]_Abs!vars
<1>1. ReqTypeOK /\ \A d \in Conns : ReqInv(d)
  BY DEF IInv, TypeOK, ReqTypeOK
<1>2. ASSUME UNCHANGED <<work, out, sent, oldtag>> PROVE UNCHANGED Abs!vars
  BY <1>2 DEF Abs!vars, Working
<1>3. CASE UNCHANGED vars
  BY <1>2, <1>3 DEF vars
<1>4. CASE Next
  <2>1. PICK c \in Conns :
          \/ Receive(c)
          \/ sp_conn_destroy(c)
          \/ \E t \in Tags :
                \/ sp_version(c, t)
                \/ sp_version_refused(c, t)
                \/ sp_respond(c, t)
                \/ \E n \in Fids : FidMessage(c, t, n)
                \/ \E o \in Tags : sp_flush(c, t, o)
    BY <1>4 DEF Next
  <2>2. CASE Receive(c)
    BY <1>1, <2>2, ReceiveRefines, Zenon DEF Abs!Next
  <2>3. CASE sp_conn_destroy(c)
    <3>1. CASE sp_conn_reset(c) /\ sent' = [sent EXCEPT ![c] = {}] /\ out' = [out EXCEPT ![c] = <<>>]
      <4>1. Abs!Reset(c, {})
        BY <1>1, <3>1, ResetRefines
      <4> QED BY <4>1, Zenon DEF Abs!Next
    <3> QED BY <1>2, <2>3, <3>1 DEF sp_conn_destroy, Loops
  <2>4. ASSUME NEW t \in Tags, sp_version(c, t) PROVE [Abs!Next]_Abs!vars
    <3>1. CASE /\ sp_conn_reset(c) /\ sent' = [sent EXCEPT ![c] = {t}]
               /\ out' = [out EXCEPT ![c] = <<[tag |-> t, type |-> "R"]>>]
      <4>1. Abs!Reset(c, {t})
        BY <1>1, <3>1, ResetRefines, Zenon
      <4> QED BY <4>1, Zenon DEF Abs!Next
    <3> QED BY <1>2, <2>4, <3>1 DEF sp_version, Loops
  <2>5. ASSUME NEW t \in Tags, AnsweredStep(c, t) PROVE [Abs!Next]_Abs!vars
    BY <1>1, <2>5, AnsweredRefines, Zenon DEF Abs!Next
  <2>6. ASSUME NEW t \in Tags, sp_version_refused(c, t) PROVE [Abs!Next]_Abs!vars
    <3>1. AnsweredStep(c, t) \/ UNCHANGED <<work, out, sent, oldtag>>
      BY <2>6 DEF sp_version_refused, AnsweredStep
    <3> QED BY <1>2, <2>5, <3>1
  <2>7. ASSUME NEW t \in Tags, sp_respond(c, t) PROVE [Abs!Next]_Abs!vars
    BY <1>1, <2>7, RespondRefines, Zenon DEF Abs!Next
  <2>8. ASSUME NEW t \in Tags, NEW n \in Fids, FidMessage(c, t, n)
        PROVE  [Abs!Next]_Abs!vars
    <3>1. ASSUME NEW flushable \in FlushAnswers, Keep(c, t, n, flushable)
          PROVE  [Abs!Next]_Abs!vars
      BY <1>1, <3>1, KeepRefines, Zenon DEF Abs!Next
    <3>2. CASE StopStep
      BY <1>2, <3>2 DEF StopStep
    <3> QED BY <2>5, <2>8, <3>1, <3>2, FidMessageKinds
  <2>9. ASSUME NEW t \in Tags, NEW o \in Tags, sp_flush(c, t, o)
        PROVE  [Abs!Next]_Abs!vars
    <3>1. /\ ClientTag(c, t) /\ o # t
          /\ sent' = [sent EXCEPT ![c] = @ \cup {t}]
          /\ oldtag' = [oldtag EXCEPT ![c][t] = o]
      BY <2>9 DEF sp_flush
    <3>2. CASE /\ out' = [out EXCEPT ![c] = @ \o Rflushes(<<t>>)]
               /\ \/ o \notin Working(c) /\ work' = work
                  \/ AnsweredByFlush(c, o) /\ Forget(c, {o})
      BY <1>1, <3>1, <3>2, FlushNowRefines, Zenon DEF Abs!Next
    <3>3. CASE /\ o \in Working(c) /\ out' = out
               /\ LET h == FlushHead(c, o)
                      s == work[c][h].flushreq
                  IN  work' = [work EXCEPT
                          ![c][t] = FlushReq,
                          ![c][h].flushreq = InsertAt(s, ChainAt(c, o, s), t)]
      <4> DEFINE h == FlushHead(c, o)
                 q == InsertAt(work[c][h].flushreq, ChainAt(c, o, work[c][h].flushreq), t)
      <4>1. h \in Tags /\ work[c][h].type = "io"
        BY <1>1, <3>3, ChainPlace
      <4>2. work' = [work EXCEPT ![c][t] = FlushReq, ![c][h].flushreq = q] /\ out' = out
        BY <3>3
      <4> HIDE DEF h, q
      <4>3. Abs!Request(c, t, o)
        BY <1>1, <3>1, <4>1, <4>2, FlushWaitsRefines
      <4> QED BY <4>3, Zenon DEF Abs!Next
    <3> QED BY <2>9, <3>2, <3>3, Zenon DEF sp_flush
  <2> QED BY <2>1, <2>2, <2>3, <2>4, <2>6, <2>7, <2>8, <2>9
<1> QED BY <1>3, <1>4

\* The handlers, sp_respond and sp_conn_reset keep the promise of Requests,
\* for any number of connections, tags and fids.
THEOREM SpSrvImplementsRequests == Spec => ImplementsRequests
<1>1. Init => Abs!Init
  <2> SUFFICES ASSUME Init PROVE Abs!Init
    OBVIOUS
  <2>1. \A c \in Conns : Working(c) = {}
    BY DEF Init, Working, NoReq
  <2>2. [c \in Conns |-> Working(c)] = [c \in Conns |-> {}]
    BY <2>1
  <2> QED BY <2>2 DEF Init, Abs!Init
<1>2. IInv /\ [Next]_vars => [Abs!Next]_Abs!vars
  BY NextRefines
<1> QED BY <1>1, <1>2, SpSrvInvariant, PTL DEF Spec, ImplementsRequests, Abs!Spec

-----------------------------------------------------------------------------
(* No request is lost.                                                     *)

\* The part of NoRequestLost about one connection.
Accounted(c) ==
    \A t \in sent[c] :
        \/ t \in Working(c)
        \/ \E i \in DOMAIN out[c] : t \in {out[c][i].tag, oldtag[c][out[c][i].tag]}

\* A connection whose state is unchanged loses nothing.
LEMMA AccountedFrame ==
    ASSUME NEW d \in Conns, Accounted(d),
           Working(d)' = Working(d), out'[d] = out[d], sent'[d] = sent[d],
           oldtag'[d] = oldtag[d]
    PROVE  Accounted(d)'
BY Zenon DEF Accounted

\* Replies that are added account for the requests they end.
LEMMA AccountedServe ==
    ASSUME ReqTypeOK, ReqTypeOK', NEW c \in Conns, NEW S, Abs!Serve(c, S),
           \A u \in sent'[c] :
              \/ u \in S
              \/ \E i \in DOMAIN out[c] : u \in {out[c][i].tag, oldtag'[c][out[c][i].tag]}
    PROVE  Accounted(c)'
<1> DEFINE s == Abs!Added(c)
           q == out[c]
<1>1. q \in Seq(Reply) /\ out'[c] = q \o s /\ out'[c] \in Seq(Reply)
  BY DEF ReqTypeOK, Abs!Serve
<1>2. s \in Seq(Reply) /\ DOMAIN s = 1 .. Len(s) /\ Len(s) \in Nat
  <2> DEFINE p == out'[c]
  <2> HIDE DEF p
  <2>1. p \in Seq(Reply) /\ Len(q) + 1 \in Nat \ {0} /\ Len(p) \in Nat
    BY <1>1 DEF p
  <2> HIDE DEF q
  <2>2. SubSeq(p, Len(q) + 1, Len(p)) \in Seq(Reply)
    BY <2>1
  <2>3. \A z \in Seq(Reply) : DOMAIN z = 1 .. Len(z) /\ Len(z) \in Nat
    OBVIOUS
  <2>4. s = SubSeq(p, Len(q) + 1, Len(p))
    BY Zenon DEF Abs!Added, p, q
  <2> QED BY <2>2, <2>3, <2>4, Zenon
<1>3. Working(c)' = S \ Abs!Ended(c, s)
  BY Zenon DEF Abs!Serve
<1> HIDE DEF s
<1>4. \A i \in DOMAIN q : i \in DOMAIN (q \o s) /\ (q \o s)[i] = q[i]
  BY <1>1, <1>2
<1>5. \A i \in DOMAIN s : Len(q) + i \in DOMAIN (q \o s) /\ (q \o s)[Len(q) + i] = s[i]
  BY <1>1, <1>2
<1> SUFFICES ASSUME NEW u \in sent'[c], u \notin Working(c)'
             PROVE  \E i \in DOMAIN (q \o s) : u \in {(q \o s)[i].tag, oldtag'[c][(q \o s)[i].tag]}
  BY <1>1, Zenon DEF Accounted
<1>6. CASE \E i \in DOMAIN q : u \in {q[i].tag, oldtag'[c][q[i].tag]}
  BY <1>4, <1>6, Zenon
<1>7. CASE u \in Abs!Ended(c, s)
  <2>1. PICK i \in DOMAIN s : u \in {s[i].tag, oldtag'[c][s[i].tag]}
    BY <1>7, Zenon DEF Abs!Ended
  <2> QED BY <1>5, <2>1, Zenon
<1> QED BY <1>3, <1>6, <1>7, Zenon

\* The client sends a request: it is open, or answered.
LEMMA AccountedRequest ==
    ASSUME ReqTypeOK, ReqTypeOK', NEW c \in Conns, ReqInv(c), Accounted(c),
           NEW t \in Tags, NEW o \in Tags \cup {NOTAG}, Abs!Request(c, t, o)
    PROVE  Accounted(c)'
<1>1. /\ t \notin sent[c] /\ sent'[c] = sent[c] \cup {t}
      /\ \A u \in Tags : u # t => oldtag'[c][u] = oldtag[c][u]
      /\ Abs!Serve(c, Working(c) \cup {t})
  <2>1. /\ Abs!Serve(c, [d \in Conns |-> Working(d)][c] \cup {t})
        /\ [d \in Conns |-> Working(d)][c] = Working(c)
    BY DEF Abs!Request
  <2>2. Abs!Serve(c, Working(c) \cup {t})
    BY <2>1, Zenon
  <2> QED BY <2>2 DEF ReqTypeOK, Abs!Request
<1>2. \A i \in DOMAIN out[c] : out[c][i].tag \in sent[c] /\ out[c][i].tag \in Tags
  BY DEF ReqInv, OutInv, ReqTypeOK
<1>3. \A i \in DOMAIN out[c] : oldtag'[c][out[c][i].tag] = oldtag[c][out[c][i].tag]
  BY <1>1, <1>2
<1>4. ASSUME NEW u \in sent'[c]
      PROVE  \/ u \in Working(c) \cup {t}
             \/ \E i \in DOMAIN out[c] : u \in {out[c][i].tag, oldtag'[c][out[c][i].tag]}
  <2>1. CASE u = t
    BY <2>1
  <2>2. CASE u # t
    <3>1. u \in sent[c]
      BY <1>1, <2>2
    <3> QED BY <1>3, <3>1, Zenon DEF Accounted
  <2> QED BY <2>1, <2>2
<1> QED BY <1>1, <1>4, AccountedServe

\* The client reads a reply: the tags it ends are not behind another reply.
LEMMA AccountedReceive ==
    ASSUME ReqTypeOK, NEW c \in Conns, ReqInv(c), Accounted(c), Abs!Receive(c)
    PROVE  Accounted(c)'
<1> DEFINE q == out[c]
           h == Head(q).tag
           o == oldtag[c][h]
<1>1. /\ q \in Seq(Reply) /\ q # <<>> /\ Head(q) = q[1] /\ out'[c] = Tail(q)
      /\ Len(q) \in Nat /\ DOMAIN q = 1 .. Len(q) /\ 1 \in DOMAIN q
      /\ DOMAIN Tail(q) = 1 .. Len(q) - 1
      /\ \A i \in 1 .. Len(q) - 1 : Tail(q)[i] = q[i + 1]
  BY DEF ReqTypeOK, Abs!Receive
<1>2. /\ sent'[c] = sent[c] \ {h, o}
      /\ \A u \in Tags : u \notin {h, o} => oldtag'[c][u] = oldtag[c][u]
  <2>1. /\ sent' = [sent EXCEPT ![c] = @ \ {h, o}]
        /\ oldtag' = [oldtag EXCEPT ![c] = [t \in Tags |-> IF t \in {h, o} THEN NOTAG ELSE @[t]]]
    BY Zenon DEF Abs!Receive
  <2> HIDE DEF h, o
  <2> QED BY <2>1 DEF ReqTypeOK
<1>3. Working(c)' = Working(c)
  BY Zenon DEF Abs!Receive
<1>4. \A i \in DOMAIN q : i # 1 => q[i].tag \in Tags /\ q[i].tag \notin {h, o}
  <2>1. \A i \in DOMAIN q : q[i].tag \in Tags /\ (i # 1 => 1 < i)
    <3> HIDE DEF q
    <3>1. \A i \in DOMAIN q : q[i] \in Reply
      BY <1>1
    <3>2. \A r \in Reply : r.tag \in Tags
      BY DEF Reply
    <3>3. \A i \in DOMAIN q : i # 1 => 1 < i
      BY <1>1
    <3> QED BY <3>1, <3>2, <3>3, Zenon
  <2>2. \A i \in DOMAIN q : i # 1 => q[1].tag # q[i].tag /\ oldtag[c][q[1].tag] # q[i].tag
    <3> HIDE DEF q
    <3>1. OrderInv(c)
      BY DEF ReqInv
    <3> QED BY <1>1, <2>1, <3>1, Zenon DEF OrderInv, q
  <2> QED BY <1>1, <2>1, <2>2
<1> HIDE DEF h, o
<1> SUFFICES ASSUME NEW u \in sent'[c], u \notin Working(c)
             PROVE  \E i \in DOMAIN Tail(q) : u \in {Tail(q)[i].tag, oldtag'[c][Tail(q)[i].tag]}
  BY <1>1, <1>3, Zenon DEF Accounted
<1>5. u \in sent[c] /\ u \notin {h, o}
  BY <1>2
<1>6. PICK i \in DOMAIN q : u \in {q[i].tag, oldtag[c][q[i].tag]}
  BY <1>5, Zenon DEF Accounted
<1>7. i # 1
  BY <1>1, <1>5, <1>6 DEF h, o
<1>8. i - 1 \in DOMAIN Tail(q) /\ Tail(q)[i - 1] = q[i]
  BY <1>1, <1>7
<1>9. oldtag'[c][q[i].tag] = oldtag[c][q[i].tag]
  BY <1>2, <1>4, <1>7
<1> QED BY <1>6, <1>8, <1>9, Zenon

\* A step of Requests accounts for every request.
LEMMA AccountedNext ==
    ASSUME ReqTypeOK, ReqTypeOK', \A d \in Conns : ReqInv(d) /\ Accounted(d),
           [Abs!Next]_Abs!vars
    PROVE  \A d \in Conns : Accounted(d)'
<1>1. CASE UNCHANGED Abs!vars
  <2>1. \A d \in Conns : Working(d)' = Working(d)
    <3>1. [d \in Conns |-> Working(d)]' = [d \in Conns |-> Working(d)]
      BY <1>1 DEF Abs!vars
    <3> QED BY <3>1, Zenon
  <2>2. out' = out /\ sent' = sent /\ oldtag' = oldtag
    BY <1>1 DEF Abs!vars
  <2> QED BY <2>1, <2>2, AccountedFrame, Zenon
<1>2. CASE Abs!Next
  <2>1. PICK c \in Conns :
            \/ \E t \in Tags, o \in Tags \cup {NOTAG} : Abs!Request(c, t, o)
            \/ Abs!Respond(c)
            \/ Abs!Receive(c)
            \/ Abs!Reset(c, {})
            \/ \E t \in Tags : Abs!Reset(c, {t})
    BY <1>2 DEF Abs!Next
  <2> DEFINE open == [d \in Conns |-> Working(d)]
             Only == /\ \E q : out' = [out EXCEPT ![c] = q]
                     /\ \E q : sent' = [sent EXCEPT ![c] = q]
                     /\ \E q : oldtag' = [oldtag EXCEPT ![c] = q]
                     /\ \E q : open' = [open EXCEPT ![c] = q]
  <2>2. Only
    <3>1. /\ sent = [sent EXCEPT ![c] = sent[c]]
          /\ oldtag = [oldtag EXCEPT ![c] = oldtag[c]]
          /\ open = [open EXCEPT ![c] = open[c]]
      BY DEF ReqTypeOK
    <3> HIDE DEF open
    <3>2. ASSUME NEW S, Abs!Serve(c, S)
          PROVE  /\ \E q : out' = [out EXCEPT ![c] = q]
                 /\ \E q : open' = [open EXCEPT ![c] = q]
      BY <3>2, Zenon DEF Abs!Serve, open
    <3>3. ASSUME NEW t \in Tags, NEW o \in Tags \cup {NOTAG}, Abs!Request(c, t, o)
          PROVE  Only
      <4>1. /\ \E q : out' = [out EXCEPT ![c] = q]
            /\ \E q : open' = [open EXCEPT ![c] = q]
        BY <3>2, <3>3, Zenon DEF Abs!Request
      <4>2. /\ sent' = [sent EXCEPT ![c] = sent[c] \cup {t}]
            /\ oldtag' = [oldtag EXCEPT ![c] = [oldtag[c] EXCEPT ![t] = o]]
        BY <3>3, Zenon DEF Abs!Request
      <4> QED BY <4>1, <4>2, Zenon
    <3>4. ASSUME Abs!Respond(c) PROVE Only
      BY <3>1, <3>2, <3>4, Zenon DEF Abs!Respond
    <3>5. ASSUME Abs!Receive(c) PROVE Only
      BY <3>1, <3>5, Zenon DEF Abs!Receive, open
    <3>6. ASSUME NEW ts, Abs!Reset(c, ts) PROVE Only
      BY <3>6, Zenon DEF Abs!Reset, open
    <3> QED BY <2>1, <3>3, <3>4, <3>5, <3>6, Zenon
  <2>3. ASSUME NEW d \in Conns, d # c PROVE Accounted(d)'
    <3>1. out'[d] = out[d] /\ sent'[d] = sent[d] /\ oldtag'[d] = oldtag[d] /\ open'[d] = open[d]
      BY <2>2, <2>3 DEF ReqTypeOK
    <3>2. Working(d)' = Working(d)
      BY <3>1
    <3> QED BY <3>1, <3>2, AccountedFrame
  <2>4. Accounted(c)'
    <3>1. ASSUME Abs!Respond(c) PROVE Accounted(c)'
      <4>1. /\ Abs!Serve(c, open[c]) /\ open[c] = Working(c)
            /\ sent' = sent /\ oldtag' = oldtag
        BY <3>1 DEF Abs!Respond
      <4>2. Abs!Serve(c, Working(c))
        BY <4>1, Zenon
      <4>3. \A u \in sent'[c] :
              \/ u \in Working(c)
              \/ \E i \in DOMAIN out[c] : u \in {out[c][i].tag, oldtag'[c][out[c][i].tag]}
        BY <4>1, Zenon DEF Accounted
      <4> QED BY <4>2, <4>3, AccountedServe
    <3>2. ASSUME Abs!Reset(c, {}) PROVE Accounted(c)'
      BY <3>2 DEF Abs!Reset, Accounted, ReqTypeOK
    <3>3. ASSUME NEW t \in Tags, Abs!Reset(c, {t}) PROVE Accounted(c)'
      <4>1. sent'[c] = {t} /\ out'[c] = <<[tag |-> t, type |-> "R"]>>
        <5>1. PICK u \in Tags : {t} = {u} /\ out' = [out EXCEPT ![c] = <<[tag |-> u, type |-> "R"]>>]
          BY <3>3 DEF Abs!Reset
        <5>2. u = t
          BY <5>1
        <5> QED BY <3>3, <5>1, <5>2 DEF Abs!Reset, ReqTypeOK
      <4>2. 1 \in DOMAIN out'[c] /\ out'[c][1].tag = t
        BY <4>1
      <4> QED BY <4>1, <4>2, Zenon DEF Accounted
    <3> QED BY <2>1, <3>1, <3>2, <3>3, AccountedRequest, AccountedReceive, Zenon
  <2> QED BY <2>3, <2>4
<1> QED BY <1>1, <1>2

\* srv->workreqs and the replies account for every request of every client.
THEOREM SpSrvNoRequestLost == Spec => []NoRequestLost
<1>1. Init => NoRequestLost
  BY DEF Init, NoRequestLost
<1>2. IInv /\ IInv' /\ NoRequestLost /\ [Next]_vars => NoRequestLost'
  <2> SUFFICES ASSUME IInv, IInv', NoRequestLost, [Next]_vars PROVE NoRequestLost'
    OBVIOUS
  <2>1. ReqTypeOK /\ ReqTypeOK' /\ \A d \in Conns : ReqInv(d)
    BY DEF IInv, TypeOK, ReqTypeOK
  <2>2. \A d \in Conns : Accounted(d)
    BY Zenon DEF NoRequestLost, Accounted
  <2>3. \A d \in Conns : Accounted(d)'
    BY <2>1, <2>2, NextRefines, AccountedNext
  <2> QED BY <2>3, Zenon DEF NoRequestLost, Accounted
<1> QED BY <1>1, <1>2, SpSrvInvariant, PTL DEF Spec

-----------------------------------------------------------------------------
(* The connections.                                                        *)

\* Nothing of connection d changes.
Same(d) == /\ fid'[d] = fid[d] /\ work'[d] = work[d]
           /\ out'[d] = out[d] /\ owned'[d] = owned[d]

\* A message about a fid touches its own connection only.
LEMMA FidMessageOne ==
    ASSUME TypeOK, NEW c \in Conns, NEW t \in Tags, NEW n \in Fids, FidMessage(c, t, n),
           NEW d \in Conns, d # c
    PROVE  Same(d)
<1>1. /\ fid \in [Conns -> [Fids -> Spfid]] /\ work \in [Conns -> [Tags -> Spreq]]
      /\ out \in [Conns -> Seq(Reply)] /\ owned \in [Conns -> SUBSET Fids]
  BY DEF TypeOK
<1>2. ASSUME NEW g, SetFid(c, n, g) \/ \E nn \in Fids : SetFid(c, nn, g) PROVE fid'[d] = fid[d]
  BY <1>1, <1>2 DEF SetFid
<1>3. ASSUME NEW nn, Grant(c, nn) \/ Withdraw(c, nn) PROVE owned'[d] = owned[d]
  BY <1>1, <1>3 DEF Grant, Withdraw
<1>4. Answer(c, t) => out'[d] = out[d]
  BY <1>1 DEF Answer
<1>5. sp_auth(c, t, n) => Same(d)
  BY <1>2, <1>3, <1>4, Zenon DEF sp_auth, Same
<1>6. \A a \in Fids \cup {NOFID} : sp_attach(c, t, n, a) => Same(d)
  BY <1>2, <1>3, <1>4, Zenon DEF sp_attach, Same
<1>7. \A nn \in Fids : sp_walk(c, t, n, nn) => Same(d)
  BY <1>2, <1>3, <1>4, Zenon DEF sp_walk, Same
<1>8. \A mode \in {"open", "rclose"} :
          sp_open(c, t, n, mode) \/ sp_create(c, t, n, mode) => Same(d)
  BY <1>2, <1>4, Zenon DEF sp_open, sp_create, Same
<1>9. SameFid(c, t, n) => Same(d)
  BY <1>1, <1>4 DEF SameFid, Same
<1>10. \A flushable \in FlushAnswers : Keep(c, t, n, flushable) => Same(d)
  BY <1>1, <1>2 DEF Keep, Same
<1>11. sp_clunk(c, t, n) => Same(d)
  BY <1>1, <1>3, <1>4 DEF sp_clunk, Same
<1>12. sp_clunk_rclose(c, t, n) => Same(d)
  BY <1>2, <1>3, <1>4, Zenon DEF sp_clunk_rclose, Same
<1>13. sp_remove(c, t, n) => Same(d)
  BY <1>2, <1>3, <1>4, <1>9, Zenon DEF sp_remove, Same
<1> QED BY <1>5, <1>6, <1>7, <1>8, <1>9, <1>10, <1>11, <1>12, <1>13, Zenon
        DEF FidMessage, sp_read, sp_write, sp_stat, sp_wstat

\* Every step is a step of one connection.
LEMMA NextOne ==
    ASSUME TypeOK, Next
    PROVE  \E c \in Conns : \A d \in Conns : d # c => Same(d)
<1>1. /\ fid \in [Conns -> [Fids -> Spfid]] /\ work \in [Conns -> [Tags -> Spreq]]
      /\ out \in [Conns -> Seq(Reply)] /\ owned \in [Conns -> SUBSET Fids]
  BY DEF TypeOK
<1>2. PICK c \in Conns :
          \/ Receive(c)
          \/ sp_conn_destroy(c)
          \/ \E t \in Tags :
                \/ sp_version(c, t)
                \/ sp_version_refused(c, t)
                \/ sp_respond(c, t)
                \/ \E n \in Fids : FidMessage(c, t, n)
                \/ \E o \in Tags : sp_flush(c, t, o)
  BY DEF Next
<1> SUFFICES ASSUME NEW d \in Conns, d # c PROVE Same(d)
  OBVIOUS
<1>3. Receive(c) => Same(d)
  BY <1>1 DEF Receive, Same
<1>4. sp_conn_reset(c) => fid'[d] = fid[d] /\ work'[d] = work[d] /\ owned'[d] = owned[d]
  BY <1>1 DEF sp_conn_reset
<1>5. sp_conn_destroy(c) => Same(d)
  BY <1>1, <1>4 DEF sp_conn_destroy, Loops, Same
<1>6. ASSUME NEW t \in Tags PROVE sp_version(c, t) => Same(d)
  BY <1>1, <1>4 DEF sp_version, Loops, Same
<1>7. ASSUME NEW t \in Tags PROVE sp_version_refused(c, t) => Same(d)
  BY <1>1 DEF sp_version_refused, Answer, Same
<1>8. ASSUME NEW ts PROVE Forget(c, ts) => work'[d] = work[d]
  BY <1>1 DEF Forget
<1>9. ASSUME NEW n, NEW g PROVE SetFid(c, n, g) => fid'[d] = fid[d]
  BY <1>1 DEF SetFid
<1>10. ASSUME NEW q PROVE out' = [out EXCEPT ![c] = q] => out'[d] = out[d]
  BY <1>1
<1>11. ASSUME NEW t \in Tags PROVE sp_respond(c, t) => Same(d)
  BY <1>8, <1>9, <1>10, Zenon DEF sp_respond, Same
<1>12. ASSUME NEW t \in Tags, NEW o \in Tags, sp_flush(c, t, o) PROVE Same(d)
  <2>1. owned' = owned
    BY <1>12 DEF sp_flush
  <2>2. CASE fid' = fid /\ work' = work /\ out' = [out EXCEPT ![c] = @ \o Rflushes(<<t>>)]
    BY <1>10, <2>1, <2>2, Zenon DEF Same
  <2>3. CASE /\ Forget(c, {o}) /\ out' = [out EXCEPT ![c] = @ \o Rflushes(<<t>>)]
             /\ SetFid(c, work[c][o].fid, Decref(fid[c][work[c][o].fid]))
    BY <1>8, <1>9, <1>10, <2>1, <2>3, Zenon DEF Same
  <2>4. CASE /\ fid' = fid /\ out' = out
             /\ \E h, q : work' = [work EXCEPT ![c][t] = FlushReq, ![c][h].flushreq = q]
    <3>1. work'[d] = work[d]
      BY <1>1, <2>4
    <3> QED BY <2>1, <2>4, <3>1, Zenon DEF Same
  <2> QED BY <1>12, <2>2, <2>3, <2>4, Zenon DEF sp_flush
<1> QED BY <1>2, <1>3, <1>5, <1>6, <1>7, <1>11, <1>12, FidMessageOne, Zenon

\* No message, completion, flush or loss of a connection reaches another one
\* through the shared srv->workreqs.
THEOREM SpSrvOthersUntouched == Spec => OthersUntouched
<1> DEFINE A == \A c, d \in Conns :
        c # d =>
          \/ <<fid[c], work[c], out[c], owned[c]>>' = <<fid[c], work[c], out[c], owned[c]>>
          \/ <<fid[d], work[d], out[d], owned[d]>>' = <<fid[d], work[d], out[d], owned[d]>>
<1>1. IInv /\ [Next]_vars => [A]_vars
  <2> SUFFICES ASSUME IInv, Next PROVE A
    OBVIOUS
  <2>1. PICK e \in Conns : \A d \in Conns : d # e => Same(d)
    BY NextOne DEF IInv
  <2>2. \A d \in Conns : Same(d) =>
           <<fid[d], work[d], out[d], owned[d]>>' = <<fid[d], work[d], out[d], owned[d]>>
    BY Zenon DEF Same
  <2> QED BY <2>1, <2>2, Zenon
<1> QED BY <1>1, SpSrvInvariant, PTL DEF Spec, OthersUntouched

-----------------------------------------------------------------------------
(* The reset of a connection.                                              *)

\* What the service keeps is answered when it is flushed, and so no flush waits.
NothingStuck ==
    \A c \in Conns, t \in Tags :
        /\ work[c][t].type # "flush"
        /\ work[c][t].type = "io" => work[c][t].flushable /\ work[c][t].flushreq = <<>>

\* A step keeps the requests free of chains.
LEMMA NothingStuckNext ==
    ASSUME FlushAnswers \subseteq {TRUE}, IInv, NothingStuck, srv # "looping", [Next]_vars
    PROVE  NothingStuck' /\ srv' # "looping"
<1>1. work \in [Conns -> [Tags -> Spreq]]
  BY DEF IInv, TypeOK
<1>2. ASSUME NEW c \in Conns PROVE Stuck(c) = {}
  <2>1. \A t \in Tags : work[c][t].type \in {"none", "io", "flush"}
    BY <1>1 DEF Spreq
  <2>2. \A t \in Tags : t \in Working(c) => work[c][t].type = "io" /\ work[c][t].flushable
    BY <2>1, Zenon DEF Working, NothingStuck
  <2>3. Working(c) \subseteq Tags
    BY DEF Working
  <2>4. \A t \in Working(c) : work[c][t].type # "flush" /\ work[c][t].flushable
    BY <2>2, <2>3
  <2> QED BY <2>4, Zenon DEF Stuck
<1>3. ASSUME work' = work PROVE NothingStuck'
  BY <1>3 DEF NothingStuck
<1>4. ASSUME NEW c \in Conns, NEW ts, Forget(c, ts) PROVE NothingStuck'
  <2>1. \A d \in Conns, u \in Tags : work'[d][u] = work[d][u] \/ work'[d][u] = NoReq
    BY <1>1, <1>4 DEF Forget
  <2>2. NoReq.type = "none"
    BY DEF NoReq
  <2> SUFFICES ASSUME NEW d \in Conns, NEW u \in Tags
               PROVE  /\ work'[d][u].type # "flush"
                      /\ work'[d][u].type = "io" => work'[d][u].flushable /\ work'[d][u].flushreq = <<>>
    BY DEF NothingStuck
  <2>3. CASE work'[d][u] = work[d][u]
    BY <2>3 DEF NothingStuck
  <2>4. CASE work'[d][u] = NoReq
    BY <2>2, <2>4
  <2> QED BY <2>1, <2>3, <2>4
<1>5. ASSUME NEW c \in Conns, sp_conn_reset(c) PROVE NothingStuck'
  <2>1. \A d \in Conns, u \in Tags : work'[d][u] = work[d][u] \/ work'[d][u] = NoReq
    BY <1>1, <1>5 DEF sp_conn_reset
  <2>2. NoReq.type = "none"
    BY DEF NoReq
  <2> SUFFICES ASSUME NEW d \in Conns, NEW u \in Tags
               PROVE  /\ work'[d][u].type # "flush"
                      /\ work'[d][u].type = "io" => work'[d][u].flushable /\ work'[d][u].flushreq = <<>>
    BY DEF NothingStuck
  <2>3. CASE work'[d][u] = work[d][u]
    BY <2>3 DEF NothingStuck
  <2>4. CASE work'[d][u] = NoReq
    BY <2>2, <2>4
  <2> QED BY <2>1, <2>3, <2>4
<1>6. ASSUME NEW c \in Conns, NEW t \in Tags, NEW n \in Fids, FidMessage(c, t, n)
      PROVE  NothingStuck' /\ srv' # "looping"
  <2>1. ASSUME NEW flushable \in FlushAnswers, Keep(c, t, n, flushable)
        PROVE  NothingStuck' /\ srv' # "looping"
    <3>1. /\ flushable = TRUE /\ srv' = srv
          /\ work' = [work EXCEPT ![c][t] = IoReq(n, flushable)]
      BY <2>1 DEF Keep, ClientSends
    <3>2. IoReq(n, TRUE).type = "io" /\ IoReq(n, TRUE).flushable /\ IoReq(n, TRUE).flushreq = <<>>
      BY DEF IoReq
    <3>3. \A d \in Conns, u \in Tags : work'[d][u] = work[d][u] \/ work'[d][u] = IoReq(n, TRUE)
      BY <1>1, <3>1
    <3> SUFFICES ASSUME NEW d \in Conns, NEW u \in Tags
                 PROVE  /\ work'[d][u].type # "flush"
                        /\ work'[d][u].type = "io" => work'[d][u].flushable /\ work'[d][u].flushreq = <<>>
      BY <3>1 DEF NothingStuck
    <3>4. CASE work'[d][u] = work[d][u]
      BY <3>4 DEF NothingStuck
    <3>5. CASE work'[d][u] = IoReq(n, TRUE)
      BY <3>2, <3>5
    <3> QED BY <3>3, <3>4, <3>5
  <2>2. CASE AnsweredStep(c, t) /\ srv' # "looping"
    BY <1>3, <2>2 DEF AnsweredStep
  <2>3. CASE StopStep /\ srv' # "looping"
    BY <1>3, <2>3 DEF StopStep
  <2>4. srv' # "looping"
    BY <1>6 DEF FidMessage, sp_auth, sp_attach, sp_walk, sp_open, sp_create, sp_read,
       sp_write, sp_clunk, sp_clunk_rclose, sp_remove, sp_stat, sp_wstat, SameFid,
       Keep, ClientSends
  <2> QED BY <1>6, <2>1, <2>2, <2>3, <2>4, FidMessageKinds
<1>7. ASSUME NEW c \in Conns, NEW t \in Tags, NEW o \in Tags, sp_flush(c, t, o)
      PROVE  NothingStuck' /\ srv' = srv
  <2>1. o \in Working(c) => AnsweredByFlush(c, o)
    <3>1. o \in Working(c) => work[c][o].type = "io"
      BY <1>1 DEF Working, NothingStuck, Spreq
    <3> QED BY <3>1, Zenon DEF NothingStuck, AnsweredByFlush
  <2>2. work' = work \/ Forget(c, {o})
    BY <1>7, <2>1, Zenon DEF sp_flush
  <2> QED BY <1>3, <1>4, <1>7, <2>2 DEF sp_flush
<1>8. CASE UNCHANGED vars
  BY <1>3, <1>8 DEF vars
<1>9. CASE Next
  <2>1. PICK c \in Conns :
          \/ Receive(c)
          \/ sp_conn_destroy(c)
          \/ \E t \in Tags :
                \/ sp_version(c, t)
                \/ sp_version_refused(c, t)
                \/ sp_respond(c, t)
                \/ \E n \in Fids : FidMessage(c, t, n)
                \/ \E o \in Tags : sp_flush(c, t, o)
    BY <1>9 DEF Next
  <2>2. Receive(c) => work' = work /\ srv' = srv
    BY DEF Receive
  <2>3. \A t \in Tags : sp_respond(c, t) => (\E ts : Forget(c, ts)) /\ srv' = srv
    BY Zenon DEF sp_respond
  <2>4. sp_conn_destroy(c) => sp_conn_reset(c) /\ srv' = srv
    BY <1>2, Zenon DEF sp_conn_destroy, Loops
  <2>5. \A t \in Tags : sp_version(c, t) => sp_conn_reset(c) /\ srv' = srv
    BY <1>2, Zenon DEF sp_version, Loops
  <2>6. \A t \in Tags : sp_version_refused(c, t) => work' = work /\ srv' # "looping"
    BY DEF sp_version_refused
  <2> QED BY <2>1, <2>2, <2>3, <2>4, <2>5, <2>6, <1>3, <1>4, <1>5, <1>6, <1>7
<1> QED BY <1>8, <1>9

\* A service that answers what it is asked to flush never makes sp_conn_reset
\* loop: there is then no chain of flushes, which the loop could not answer.
THEOREM SpSrvResetTerminates == Spec => []ResetTerminates
<1> DEFINE J == FlushAnswers \subseteq {TRUE} => NothingStuck /\ srv # "looping"
<1>1. Init => J
  BY DEF Init, NothingStuck, NoReq
<1>2. IInv /\ J /\ [Next]_vars => J'
  BY NothingStuckNext
<1>3. J => ResetTerminates
  BY DEF ResetTerminates
<1> QED BY <1>1, <1>2, <1>3, SpSrvInvariant, PTL DEF Spec

=============================================================================
