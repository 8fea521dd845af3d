------------------------------- MODULE SpSrv -------------------------------
(***************************************************************************)
(* The single-threaded 9P server library libspfs: the table of fids of a   *)
(* connection and their reference counts (fidpool.c), the requests a file  *)
(* service has not answered yet (srv.c), the message handlers (fcall.c)    *)
(* and the reset and the destruction of a connection (conn.c).             *)
(*                                                                         *)
(* The file service behind the library (the srv->open, srv->read, ...      *)
(* callbacks) is a nondeterministic choice over what it may do: succeed,   *)
(* fail, or, for Tread and Twrite, the only callbacks that are handed the  *)
(* request, keep it and answer it later through sp_respond.                *)
(*                                                                         *)
(* The peer is a 9P client that obeys four rules (the guards named Client- *)
(* below): a tag is used by one request at a time, and not before the      *)
(* flushes of that tag are answered; a new fid has a number the client     *)
(* does not own and that no request in progress names; an authentication   *)
(* fid is read, written, clunked and passed as afid, nothing else; a fid   *)
(* is clunked or removed once.  It sends Tversion first.                   *)
(***************************************************************************)
EXTENDS Integers, Sequences, FiniteSets, SequencesExt

CONSTANTS Conns,         \* the connections
          Tags,          \* the tags a client uses
          Fids,          \* the fid numbers a client uses
          NOFID,         \* no fid
          NOTAG,         \* no tag
          FlushAnswers   \* can srv->flush answer a request the service kept?

ASSUME SpSrvAssumption ==
    /\ IsFiniteSet(Tags)
    /\ NOFID \notin Fids
    /\ NOTAG \notin Tags
    /\ FlushAnswers \subseteq BOOLEAN

VARIABLES
    srv,      \* the process: running, looping in sp_conn_reset, or crashed
    pool,     \* connections with a fid table (conn->fidpool): after Tversion
    fid,      \* the fid tables
    work,     \* srv->workreqs: requests the service keeps, chained flushes
    out,      \* conn->ofcall_first ...: replies on their way to the client
    sent,     \* tags the client waits for
    oldtag,   \* for a Tflush the client waits for, the tag it flushes
    owned     \* fids the replies so far have given to the client

vars == <<srv, pool, fid, work, out, sent, oldtag, owned>>

-----------------------------------------------------------------------------
(* Spfid.  A number with no entry in the table has refcount 0: an entry    *)
(* leaves the table when its count comes to 0.                             *)

Spfid == [refcount : Int, omode : {"closed", "open", "rclose"}, auth : BOOLEAN]

NoSpfid == [refcount |-> 0, omode |-> "closed", auth |-> FALSE]

\* sp_fid_find
Found(c, n) == fid[c][n].refcount # 0

\* sp_fid_incref
Incref(f) == [f EXCEPT !.refcount = @ + 1]

\* sp_fid_decref, with sp_fid_destroy when nothing refers to the fid
Decref(f) == IF f.refcount = 1 THEN NoSpfid
                               ELSE [f EXCEPT !.refcount = @ - 1]

\* sp_fid_create: a new entry, to which nothing refers yet
Created == NoSpfid

\* Mutant: a clunk gives back the reference of the request only.
ClunkedLeaks(f) == Decref(Incref(f))

\* What Tclunk leaves of a fid: the reference of the client is dropped with
\* that of the request, but for an authentication fid.
Clunked(f) == IF f.auth THEN Decref(Incref(f)) ELSE Decref(Decref(Incref(f)))

\* Mutant: the request does not take a reference.
KeptBare(f) == f

\* What a request that the service keeps leaves of its fid.
Kept(f) == Incref(f)

-----------------------------------------------------------------------------
(* Spreq.  Between two messages srv->workreqs holds the Treads and Twrites *)
(* the service keeps ("io") and the Tflushes that wait for one of them     *)
(* ("flush").  flushreq is the chain of flushes of an io request, in the   *)
(* order of the links.                                                     *)

Spreq == [type : {"none", "io", "flush"}, fid : Fids \cup {NOFID},
          flushable : BOOLEAN, flushreq : Seq(Tags)]

NoReq == [type |-> "none", fid |-> NOFID, flushable |-> FALSE,
          flushreq |-> <<>>]

IoReq(n, flushable) == [type |-> "io", fid |-> n, flushable |-> flushable,
                        flushreq |-> <<>>]

FlushReq == [type |-> "flush", fid |-> NOFID, flushable |-> FALSE,
             flushreq |-> <<>>]

Reply == [tag : Tags, type : {"R", "Rflush"}]

\* The io requests of connection c on fid n.
Pending(c, n) == {t \in Tags : work[c][t].type = "io" /\ work[c][t].fid = n}

Working(c) == {t \in Tags : work[c][t].type # "none"}

\* The request whose chain of flushes the request of tag o is part of.
FlushHead(c, o) ==
    IF work[c][o].type = "io" THEN o
    ELSE CHOOSE h \in Tags : \E i \in DOMAIN work[c][h].flushreq :
                                work[c][h].flushreq[i] = o

\* sp_conn_respond
Answer(c, t) == out' = [out EXCEPT ![c] = Append(@, [tag |-> t, type |-> "R"])]

\* The replies of a chain of flushes.
Rflushes(s) == [i \in DOMAIN s |-> [tag |-> s[i], type |-> "Rflush"]]

-----------------------------------------------------------------------------
(* The rules the client obeys, and its part of sending a message.          *)

ClientTag(c, t) ==
    /\ srv = "running"
    /\ c \in pool
    /\ t \notin sent[c]
    /\ \A f \in sent[c] : oldtag[c][f] # t

ClientSends(c, t) ==
    /\ ClientTag(c, t)
    /\ sent' = [sent EXCEPT ![c] = @ \cup {t}]
    /\ UNCHANGED <<srv, pool, oldtag>>

ClientNewFid(c, n) == n \notin owned[c] /\ Pending(c, n) = {}

ClientFile(c, n) == ~fid[c][n].auth

ClientLastUse(c, n) == n \in owned[c] \/ ~Found(c, n)

Grant(c, n) == owned' = [owned EXCEPT ![c] = @ \cup {n}]

Withdraw(c, n) == owned' = [owned EXCEPT ![c] = @ \ {n}]

SetFid(c, n, f) == fid' = [fid EXCEPT ![c][n] = f]

-----------------------------------------------------------------------------
(* The handlers.  Each is a whole pass of sp_srv_process_fcall: the        *)
(* handler, and sp_respond, which gives back the reference to req->fid     *)
(* the handler took, unless the service keeps the request.                 *)

sp_auth(c, t, n) ==
    /\ ClientSends(c, t)
    /\ ClientNewFid(c, n)
    /\ Answer(c, t)
    /\ UNCHANGED work
    /\ \/ /\ Found(c, n)                    \* Einuse: a reference is dropped
          /\ SetFid(c, n, Decref(fid[c][n]))
          /\ UNCHANGED owned
       \/ /\ ~Found(c, n)                   \* startauth succeeds
          /\ SetFid(c, n, [Incref(Created) EXCEPT !.auth = TRUE])
          /\ Grant(c, n)
       \/ /\ ~Found(c, n)                   \* unknown user, no authentication
          /\ SetFid(c, n, Decref(Incref(Created)))
          /\ UNCHANGED owned

sp_attach(c, t, n, a) ==
    /\ ClientSends(c, t)
    /\ ClientNewFid(c, n)
    /\ a \in Fids => a # n /\ (Found(c, a) => fid[c][a].auth)
    /\ Answer(c, t)
    /\ UNCHANGED work
    /\ \/ /\ Found(c, n)                    \* Einuse
          /\ UNCHANGED <<fid, owned>>
       \/ /\ ~Found(c, n)                   \* srv->attach succeeds
          /\ a # NOFID => Found(c, a)
          /\ SetFid(c, n, Decref(Incref(Incref(Created))))
          /\ Grant(c, n)
       \/ /\ ~Found(c, n)                   \* unknown afid or user, refused
          /\ SetFid(c, n, Decref(Incref(Created)))
          /\ UNCHANGED owned

\* The walk of a fid to a new fid, or in place (nn = n).
sp_walk(c, t, n, nn) ==
    /\ ClientSends(c, t)
    /\ ClientFile(c, n)
    /\ nn = n \/ ClientNewFid(c, nn)
    /\ Answer(c, t)
    /\ UNCHANGED work
    /\ \/ /\ ~Found(c, n) \/ fid[c][n].omode # "closed" \/ nn = n
          /\ UNCHANGED <<fid, owned>>       \* an error, or a walk in place
       \/ /\ Found(c, n) /\ fid[c][n].omode = "closed" /\ nn # n
          /\ Found(c, nn)                   \* Einuse: a reference is dropped
          /\ SetFid(c, nn, Decref(fid[c][nn]))
          /\ UNCHANGED owned
       \/ /\ Found(c, n) /\ fid[c][n].omode = "closed" /\ nn # n
          /\ ~Found(c, nn)                  \* some or all the names are walked
          /\ SetFid(c, nn, Decref(Incref(Incref(Created))))
          /\ Grant(c, nn)
       \/ /\ Found(c, n) /\ fid[c][n].omode = "closed" /\ nn # n
          /\ ~Found(c, nn)                  \* the first name is not there
          /\ SetFid(c, nn, Decref(Incref(Created)))
          /\ UNCHANGED owned

\* srv->open; fid->omode is set whether or not it succeeds.
sp_open(c, t, n, mode) ==
    /\ ClientSends(c, t)
    /\ ClientFile(c, n)
    /\ Answer(c, t)
    /\ UNCHANGED <<work, owned>>
    /\ \/ UNCHANGED fid             \* unknown fid, already open, a directory
       \/ /\ Found(c, n) /\ fid[c][n].omode = "closed"
          /\ SetFid(c, n, Decref([Incref(fid[c][n]) EXCEPT !.omode = mode]))

sp_create(c, t, n, mode) ==
    /\ ClientSends(c, t)
    /\ ClientFile(c, n)
    /\ Answer(c, t)
    /\ UNCHANGED <<work, owned>>
    /\ \/ UNCHANGED fid             \* unknown fid, already open, refused
       \/ /\ Found(c, n) /\ fid[c][n].omode = "closed"
          /\ SetFid(c, n, Decref([Incref(fid[c][n]) EXCEPT !.omode = mode]))

\* A handler that leaves the fid as it was, whatever it answers.
SameFid(c, t, n) ==
    /\ ClientSends(c, t)
    /\ Answer(c, t)
    /\ fid' = IF Found(c, n)
                 THEN [fid EXCEPT ![c][n] = Decref(Incref(@))] ELSE fid
    /\ UNCHANGED <<work, owned>>

sp_stat(c, t, n) == ClientFile(c, n) /\ SameFid(c, t, n)

sp_wstat(c, t, n) == ClientFile(c, n) /\ SameFid(c, t, n)

\* The service keeps the request, which keeps its reference to the fid.
Keep(c, t, n, flushable) ==
    /\ ClientSends(c, t)
    /\ Found(c, n) /\ ~fid[c][n].auth /\ fid[c][n].omode # "closed"
    /\ SetFid(c, n, Kept(fid[c][n]))
    /\ work' = [work EXCEPT ![c][t] = IoReq(n, flushable)]
    /\ UNCHANGED <<out, owned>>

sp_read(c, t, n) ==
    \/ SameFid(c, t, n)
    \/ \E flushable \in FlushAnswers : Keep(c, t, n, flushable)

sp_write(c, t, n) ==
    \/ SameFid(c, t, n)
    \/ \E flushable \in FlushAnswers : Keep(c, t, n, flushable)

\* Tclunk of any other fid than the next action's.
sp_clunk(c, t, n) ==
    /\ ClientSends(c, t)
    /\ ClientLastUse(c, n)
    /\ fid[c][n].omode # "rclose"
    /\ Answer(c, t)
    /\ fid' = IF Found(c, n) THEN [fid EXCEPT ![c][n] = Clunked(@)] ELSE fid
    /\ Withdraw(c, n)
    /\ UNCHANGED work

\* Tclunk of a fid open with Orclose.  When srv->remove fails it returns no
\* reply, and the handler reads the type of that reply.
sp_clunk_rclose(c, t, n) ==
    /\ ClientTag(c, t)
    /\ ClientLastUse(c, n)
    /\ fid[c][n].omode = "rclose"
    /\ \/ /\ ClientSends(c, t)
          /\ Answer(c, t)
          /\ SetFid(c, n, Decref(Decref(Incref(fid[c][n]))))
          /\ Withdraw(c, n)
          /\ UNCHANGED work
       \/ /\ srv' = "crashed"
          /\ UNCHANGED <<pool, fid, work, out, sent, oldtag, owned>>

sp_remove(c, t, n) ==
    /\ ClientFile(c, n)
    /\ ClientLastUse(c, n)
    /\ \/ SameFid(c, t, n)          \* unknown fid, or srv->remove fails
       \/ /\ Found(c, n)
          /\ ClientSends(c, t)
          /\ Answer(c, t)
          /\ SetFid(c, n, Decref(Decref(Incref(fid[c][n]))))
          /\ Withdraw(c, n)
          /\ UNCHANGED work

-----------------------------------------------------------------------------
(* sp_respond for a request the service kept: the request and the flushes  *)
(* chained to it leave srv->workreqs, and the fid loses a reference.       *)

\* Mutant: requests are told apart by their tag only.
ForgetTag(c, ts) ==
    work' = [d \in Conns |-> [t \in Tags |-> IF t \in ts THEN NoReq ELSE work[d][t]]]

Forget(c, ts) ==
    work' = [work EXCEPT ![c] = [t \in Tags |-> IF t \in ts THEN NoReq ELSE @[t]]]

Chained(c, t) == {work[c][t].flushreq[i] : i \in DOMAIN work[c][t].flushreq}

\* Mutant: the flushes are answered ahead of the request they flush.
RepliesFlushFirst(c, t) ==
    Append(Rflushes(work[c][t].flushreq), [tag |-> t, type |-> "R"])

\* Mutant: the chained flushes are forgotten.
RepliesAlone(c, t) == <<[tag |-> t, type |-> "R"]>>

\* The reply to the request, and then those to the flushes chained to it.
Replies(c, t) ==
    <<[tag |-> t, type |-> "R"]>> \o Rflushes(work[c][t].flushreq)

sp_respond(c, t) ==
    /\ srv = "running"
    /\ work[c][t].type = "io"
    /\ Forget(c, {t} \cup Chained(c, t))
    /\ SetFid(c, work[c][t].fid, Decref(fid[c][work[c][t].fid]))
    /\ out' = [out EXCEPT ![c] = @ \o Replies(c, t)]
    /\ UNCHANGED <<srv, pool, sent, oldtag, owned>>

\* Mutant: a flush joins the chain at its head.
ChainAtHead(c, o, s) == 1

\* Where a flush of tag o joins the chain: at the head when o is the kept
\* request, behind o when o is itself a flush of the chain.
ChainAt(c, o, s) ==
    IF work[c][o].type = "io" THEN 1
    ELSE 1 + (CHOOSE i \in DOMAIN s : s[i] = o)

\* Mutant: the service is never asked to flush.
AnsweredByFlushNever(c, o) == FALSE

\* srv->flush is called unless a flush waits already, and answers o.
AnsweredByFlush(c, o) ==
    work[c][o].type = "io" /\ work[c][o].flushable /\ work[c][o].flushreq = <<>>

sp_flush(c, t, o) ==
    /\ ClientTag(c, t)
    /\ o # t
    /\ sent' = [sent EXCEPT ![c] = @ \cup {t}]
    /\ oldtag' = [oldtag EXCEPT ![c][t] = o]
    /\ UNCHANGED <<srv, pool, owned>>
    /\ \/ /\ o \notin Working(c)                \* nothing to flush
          /\ out' = [out EXCEPT ![c] = @ \o Rflushes(<<t>>)]
          /\ UNCHANGED <<fid, work>>
       \/ /\ AnsweredByFlush(c, o)              \* o ends with no reply
          /\ Forget(c, {o})
          /\ SetFid(c, work[c][o].fid, Decref(fid[c][work[c][o].fid]))
          /\ out' = [out EXCEPT ![c] = @ \o Rflushes(<<t>>)]
       \/ /\ o \in Working(c)                   \* t waits for o
          /\ ~AnsweredByFlush(c, o)
          /\ LET h == FlushHead(c, o)
                 s == work[c][h].flushreq
             IN  work' = [work EXCEPT
                     ![c][t] = FlushReq,
                     ![c][h].flushreq = InsertAt(s, ChainAt(c, o, s), t)]
          /\ UNCHANGED <<fid, out>>

-----------------------------------------------------------------------------
(* sp_conn_reset.  It asks srv->flush to answer the requests of the        *)
(* connection until none is left: a request srv->flush does not answer, or *)
(* a chained flush, which has no fid, keeps the server there for ever.     *)

Stuck(c) == {t \in Working(c) : work[c][t].type = "flush" \/ ~work[c][t].flushable}

sp_conn_reset(c) ==
    /\ fid' = [fid EXCEPT ![c] = [n \in Fids |-> NoSpfid]]
    /\ work' = [work EXCEPT ![c] = [t \in Tags |-> NoReq]]
    /\ owned' = [owned EXCEPT ![c] = {}]
    /\ oldtag' = [oldtag EXCEPT ![c] = [t \in Tags |-> NOTAG]]

Loops(c) ==
    /\ Stuck(c) # {}
    /\ srv' = "looping"
    /\ UNCHANGED <<pool, fid, work, out, sent, oldtag, owned>>

\* The first Tversion of a connection, or a later one, which starts it over.
sp_version(c, t) ==
    /\ srv = "running"
    /\ \/ Loops(c)
       \/ /\ Stuck(c) = {}
          /\ sp_conn_reset(c)
          /\ pool' = pool \cup {c}
          /\ sent' = [sent EXCEPT ![c] = {t}]
          /\ out' = [out EXCEPT ![c] = <<[tag |-> t, type |-> "R"]>>]
          /\ UNCHANGED srv

\* A version the server does not speak: sp_default_version sets the error and
\* returns a pointer it never assigned, which the caller frees unless it
\* happens to be null.
sp_version_refused(c, t) ==
    /\ srv = "running"
    /\ t \notin sent[c]
    /\ \A f \in sent[c] : oldtag[c][f] # t
    /\ UNCHANGED <<pool, fid, work, oldtag, owned>>
    /\ \/ /\ Answer(c, t)
          /\ sent' = [sent EXCEPT ![c] = @ \cup {t}]
          /\ UNCHANGED srv
       \/ /\ srv' = "crashed"
          /\ UNCHANGED <<out, sent>>

\* The client closes the connection, or it breaks.
sp_conn_destroy(c) ==
    /\ srv = "running"
    /\ c \in pool \/ sent[c] # {}
    /\ \/ Loops(c)
       \/ /\ Stuck(c) = {}
          /\ sp_conn_reset(c)
          /\ pool' = pool \ {c}
          /\ sent' = [sent EXCEPT ![c] = {}]
          /\ out' = [out EXCEPT ![c] = <<>>]
          /\ UNCHANGED srv

\* The client reads the next reply: a Rflush frees the tag that was flushed.
Receive(c) ==
    /\ out[c] # <<>>
    /\ LET r == Head(out[c]) IN
       /\ out' = [out EXCEPT ![c] = Tail(@)]
       /\ sent' = [sent EXCEPT ![c] = @ \ {r.tag, oldtag[c][r.tag]}]
       /\ oldtag' = [oldtag EXCEPT ![c] = [t \in Tags |->
                        IF t \in {r.tag, @[r.tag]} THEN NOTAG ELSE @[t]]]
    /\ UNCHANGED <<srv, pool, fid, work, owned>>

-----------------------------------------------------------------------------
Init ==
    /\ srv = "running"
    /\ pool = {}
    /\ fid = [c \in Conns |-> [n \in Fids |-> NoSpfid]]
    /\ work = [c \in Conns |-> [t \in Tags |-> NoReq]]
    /\ out = [c \in Conns |-> <<>>]
    /\ sent = [c \in Conns |-> {}]
    /\ oldtag = [c \in Conns |-> [t \in Tags |-> NOTAG]]
    /\ owned = [c \in Conns |-> {}]

FidMessage(c, t, n) ==
    \/ sp_auth(c, t, n)
    \/ \E a \in Fids \cup {NOFID} : sp_attach(c, t, n, a)
    \/ \E nn \in Fids : sp_walk(c, t, n, nn)
    \/ \E mode \in {"open", "rclose"} : sp_open(c, t, n, mode)
    \/ \E mode \in {"open", "rclose"} : sp_create(c, t, n, mode)
    \/ sp_read(c, t, n)
    \/ sp_write(c, t, n)
    \/ sp_clunk(c, t, n)
    \/ sp_clunk_rclose(c, t, n)
    \/ sp_remove(c, t, n)
    \/ sp_stat(c, t, n)
    \/ sp_wstat(c, t, n)

Next ==
    \E c \in Conns :
        \/ Receive(c)
        \/ sp_conn_destroy(c)
        \/ \E t \in Tags :
              \/ sp_version(c, t)
              \/ sp_version_refused(c, t)
              \/ sp_respond(c, t)
              \/ \E n \in Fids : FidMessage(c, t, n)
              \/ \E o \in Tags : sp_flush(c, t, o)

Spec == Init /\ [][Next]_vars

\* The service answers what it keeps, the client reads its replies.
Fairness ==
    \A c \in Conns :
        /\ WF_vars(Receive(c))
        /\ \A t \in Tags : WF_vars(sp_respond(c, t))

FairSpec == Spec /\ Fairness

-----------------------------------------------------------------------------
(* Properties                                                              *)

TypeOK ==
    /\ srv \in {"running", "looping", "crashed"}
    /\ pool \in SUBSET Conns
    /\ fid \in [Conns -> [Fids -> Spfid]]
    /\ work \in [Conns -> [Tags -> Spreq]]
    /\ out \in [Conns -> Seq(Reply)]
    /\ sent \in [Conns -> SUBSET Tags]
    /\ oldtag \in [Conns -> [Tags -> Tags \cup {NOTAG}]]
    /\ owned \in [Conns -> SUBSET Fids]

ClientRef(c, n) == IF n \in owned[c] \/ fid[c][n].auth THEN 1 ELSE 0

\* The reference count of a fid is exact: one for the client from the reply
\* that creates the fid to the reply that clunks it (for ever for an
\* authentication fid, which sp_clunk does not release), one for each request
\* the service keeps.  So a fid is in the table as long as the client or a
\* request needs it, and not longer.
FidRefcount ==
    \A c \in Conns, n \in Fids :
        fid[c][n].refcount = ClientRef(c, n) + Cardinality(Pending(c, n))

\* A request the service keeps never outlives its fid: the fid sp_respond
\* releases, and the service uses meanwhile, is still the one in the table,
\* still open, and no authentication fid.
KeptFid ==
    \A c \in Conns, t \in Tags : work[c][t].type = "io" =>
        /\ work[c][t].fid \in Fids
        /\ Found(c, work[c][t].fid)
        /\ fid[c][work[c][t].fid].omode # "closed"
        /\ ~fid[c][work[c][t].fid].auth

\* A reply the client gets is one it waits for, and a Rflush is final: no
\* reply to the flushed request is behind it, and no request is answered twice.
FlushIsFinal ==
    \A c \in Conns : \A j \in DOMAIN out[c] :
        /\ out[c][j].tag \in sent[c]
        /\ out[c][j].tag \notin Working(c)
        /\ \A i \in 1..(j - 1) :
              /\ out[c][i].tag # out[c][j].tag
              /\ oldtag[c][out[c][i].tag] # out[c][j].tag

\* The server forgets no request: what the client waits for is still being
\* worked on, or answered, or flushed with the Rflush on its way.
NoRequestLost ==
    \A c \in Conns : \A t \in sent[c] :
        \/ t \in Working(c)
        \/ \E i \in DOMAIN out[c] : t \in {out[c][i].tag, oldtag[c][out[c][i].tag]}

\* The list srv->workreqs is shared by all the connections, and tags and fids
\* mean something on their own connection only: a message, a completion, a
\* flush or the loss of one connection changes nothing of another.
OthersUntouched ==
    [][\A c, d \in Conns :
        c # d =>
          \/ <<fid[c], work[c], out[c], owned[c]>>' = <<fid[c], work[c], out[c], owned[c]>>
          \/ <<fid[d], work[d], out[d], owned[d]>>' = <<fid[d], work[d], out[d], owned[d]>>]_vars

\* What the comment in sp_conn_reset asks of a server is enough: when srv->flush
\* answers every request the service keeps, resetting or losing a connection
\* does not loop for ever.
ResetTerminates == FlushAnswers \subseteq {TRUE} => srv # "looping"

\* The requests of srv->workreqs, and the replies, behave as a client of a 9P
\* server expects: whatever is chained, kept, flushed or answered later, the
\* requests that are not in the list are exactly those that were answered, once,
\* or flushed, and no reply follows the Rflush of its request.
Abs == INSTANCE Requests WITH open <- [c \in Conns |-> Working(c)]

ImplementsRequests == Abs!Spec

\* Every request, and every Tflush, is eventually answered or flushed, unless
\* the server stops.
EveryTagReturns ==
    \A c \in Conns, t \in Tags :
        (t \in sent[c]) ~> (t \notin sent[c] \/ srv # "running")

=============================================================================
