-------------------------------- MODULE NpSrv --------------------------------
(***************************************************************************)
(* The multi-threaded 9P server library libnpfs: the queue of requests and *)
(* the worker threads (srv.c), Tflush (fcall.c), the reference counts and  *)
(* the reuse of request structures (srv.c), and the reset and the end of a *)
(* connection (conn.c), whose reader thread and whose Tversion reset it.   *)
(*                                                                         *)
(* One connection.  A step is what a thread does in one critical section   *)
(* of srv->lock, or between two accesses to what other threads change.     *)
(* The file service answers a request at once or keeps it for a thread of  *)
(* its own (echofs), and its srv->flush does nothing (np_default_flush).   *)
(*                                                                         *)
(* The client has one request per tag, flushes a request once, and uses   *)
(* neither tag again before the Rflush; a Tversion has no tag of its own   *)
(* (NOTAG), and nothing is sent behind it before its reply.                *)
(***************************************************************************)
EXTENDS Integers, Sequences, FiniteSets, SequencesExt

CONSTANTS Workers,    \* the threads of np_wthread_proc
          Service,    \* the thread of the service
          Reader,     \* the thread of np_conn_read_proc
          Tags,       \* the tags the client uses
          Objs,       \* the Npreq structures: the bound on those in use
          NIL,        \* no request, no tag
          Prompt,     \* np_respond follows a link before the structure is reused
          Careful     \* the client does not hang up while a Tversion is unanswered

ASSUME NpSrvAssumption ==
    /\ IsFiniteSet(Objs) /\ IsFiniteSet(Workers)
    /\ NIL \notin Objs \cup Tags \cup Workers \cup {Service, Reader}
    /\ Objs \cap (Workers \cup {Service, Reader}) = {}
    /\ Service # Reader /\ {Service, Reader} \cap Workers = {}
    /\ Prompt \in BOOLEAN /\ Careful \in BOOLEAN

VARIABLES
    srv,      \* running, crashed, or srv->lock is held for ever
    req,      \* the Npreq structures
    pool,     \* reqpool.reqlist, those malloc would give behind it
    reqs,     \* srv->reqs_first ...: requests no thread has taken
    work,     \* srv->workreqs: requests taken and not answered
    kept,     \* the working requests the service has
    conn,     \* the Npconn
    thr,      \* what each thread is doing
    open      \* the client: the tags it waits for a reply of

vars == <<srv, req, pool, reqs, work, kept, conn, thr, open>>

Threads == Workers \cup {Service, Reader}

Npreq == [type : {"io", "flush", "version"}, tag : Tags \cup {NIL},
          oldtag : Tags \cup {NIL}, refcount : Nat, flushreq : Objs \cup {NIL},
          answers : Nat]

\* trans: the transport is there; listed: in srv->conns.
Npconn == [trans : BOOLEAN, resetting : BOOLEAN, listed : BOOLEAN, refcount : Nat]

\* Where a thread is.  req: the request it processes or answers; cur: the
\* request np_respond is at, req or a flush chained to it; send: its reply is to
\* be written; held: requests it has a reference to of its own.
Thread == [pc : {"idle", "process", "flush", "flushed", "remove", "respond",
                 "write", "next", "unlist", "reset", "collect", "check", "sleep",
                 "finish", "gone"},
           req : Objs \cup {NIL}, cur : Objs \cup {NIL}, send : BOOLEAN,
           held : SUBSET Objs]

Idle == [pc |-> "idle", req |-> NIL, cur |-> NIL, send |-> FALSE, held |-> {}]

Unused == [type |-> "io", tag |-> NIL, oldtag |-> NIL, refcount |-> 0,
           flushreq |-> NIL, answers |-> 1]

-----------------------------------------------------------------------------
\* Mutant: the lists of the request are not cleared.
np_req_alloc_linked(type, t, o) ==
    [type |-> type, tag |-> t, oldtag |-> o, refcount |-> 1,
     flushreq |-> req[Head(pool)].flushreq, answers |-> 0]

\* np_req_alloc: the structure is taken from the head of the pool.
np_req_alloc(type, t, o) ==
    [type |-> type, tag |-> t, oldtag |-> o, refcount |-> 1, flushreq |-> NIL,
     answers |-> 0]

np_req_ref(o) == [req[o] EXCEPT !.refcount = @ + 1]

\* np_req_unref: the structure goes back to the pool with its last reference.
\* Of a pooled structure only the link is ever read again.
np_req_unref(o) ==
    IF req[o].refcount = 1
    THEN [Unused EXCEPT !.flushreq = req[o].flushreq, !.answers = req[o].answers]
    ELSE [req[o] EXCEPT !.refcount = @ - 1]

\* Mutant: the structure is freed whatever references are left.
FreedAll(S) == S

\* The requests of S that lose their last reference.
Freed(S) == {o \in S : req[o].refcount = 1}

\* np_req_unref of the requests of S, each with its reference to the connection.
Release(S) ==
    /\ req' = [o \in Objs |-> IF o \in S THEN np_req_unref(o) ELSE req[o]]
    /\ pool' = SetToSeq(Freed(S)) \o pool
    /\ conn' = [conn EXCEPT !.refcount = @ - Cardinality(Freed(S))]

\* Do the links of the requests of S stay in S?
Linked(S) == \A x \in S : req[x].flushreq \in S \cup {NIL}

\* The request o and the flushes chained to it.
Chain(o) == {x \in Objs : \A S \in SUBSET Objs : (o \in S \cup {NIL} /\ Linked(S)) => x \in S}

Queued == {reqs[i] : i \in DOMAIN reqs}

\* Requests that are neither answered nor dropped.
Live == {o \in Objs : \A i \in DOMAIN pool : pool[i] # o}

Step(w, pc) == thr' = [thr EXCEPT ![w].pc = pc]

-----------------------------------------------------------------------------
(* The reader thread and the client.                                       *)

\* The Tversion the client waits for.
Versions == {o \in Objs : req[o].type = "version" /\ req[o].answers = 0}

\* np_conn_read_proc: a message becomes a request at the end of the queue.
Read(type, t, o) ==
    /\ srv = "running" /\ thr[Reader].pc = "idle" /\ conn.trans
    /\ Versions = {}
    /\ pool # <<>>
    /\ Prompt => \A w \in Threads : thr[w].pc = "next" => thr[w].cur # Head(pool)
    /\ req' = [req EXCEPT ![Head(pool)] = np_req_alloc(type, t, o)]
    /\ reqs' = Append(reqs, Head(pool))
    /\ pool' = Tail(pool)
    /\ conn' = [conn EXCEPT !.refcount = @ + 1]
    /\ open' = [u \in Tags |-> CASE u = t -> type
                                 [] u = o -> "flushed"
                                 [] OTHER -> open[u]]
    /\ UNCHANGED <<srv, work, kept, thr>>

ReadIo(t) == open[t] = "free" /\ Read("io", t, NIL)
ReadFlush(t, o) == open[t] = "free" /\ open[o] = "io" /\ Read("flush", t, o)
ReadVersion == Read("version", NIL, NIL)

\* May the client hang up now?
MayHangup == Careful => Versions = {}

\* The read ends: the client hangs up, or a failed write has closed the transport.
Hangup ==
    /\ srv = "running" /\ thr[Reader].pc = "idle"
    /\ conn.trans => MayHangup
    /\ conn' = [conn EXCEPT !.trans = FALSE]
    /\ Step(Reader, "unlist")
    /\ UNCHANGED <<srv, req, pool, reqs, work, kept, open>>

np_srv_remove_conn ==
    /\ srv = "running" /\ thr[Reader].pc = "unlist"
    /\ conn' = [conn EXCEPT !.listed = FALSE, !.refcount = @ - 1]
    /\ Step(Reader, "reset")
    /\ UNCHANGED <<srv, req, pool, reqs, work, kept, open>>

-----------------------------------------------------------------------------
(* The worker threads.                                                     *)

\* np_wthread_proc takes the first request of the queue.
Take(w) ==
    /\ srv = "running" /\ thr[w].pc = "idle" /\ reqs # <<>>
    /\ reqs' = Tail(reqs)
    /\ work' = work \cup {Head(reqs)}
    /\ thr' = [thr EXCEPT ![w] = [Idle EXCEPT
                  !.req = Head(reqs),
                  !.pc = CASE req[Head(reqs)].type = "io" -> "process"
                           [] req[Head(reqs)].type = "flush" -> "flush"
                           [] req[Head(reqs)].type = "version" -> "reset"]]
    /\ UNCHANGED <<srv, req, pool, kept, conn, open>>

\* np_process_request: the service answers, or keeps the request.
np_process_request(w) ==
    /\ srv = "running" /\ thr[w].pc = "process"
    /\ \/ Step(w, "remove") /\ UNCHANGED kept
       \/ thr' = [thr EXCEPT ![w] = Idle] /\ kept' = kept \cup {thr[w].req}
    /\ UNCHANGED <<srv, req, pool, reqs, work, conn, open>>

\* The service answers a request it kept.
Complete(o) ==
    /\ srv = "running" /\ thr[Service].pc = "idle" /\ o \in kept
    /\ kept' = kept \ {o}
    /\ thr' = [thr EXCEPT ![Service] = [Idle EXCEPT !.pc = "remove", !.req = o]]
    /\ UNCHANGED <<srv, req, pool, reqs, work, conn, open>>

\* np_flush: the first request of the queue with the tag is dropped, by a call of
\* np_conn_respond that would lock srv->lock again on a connection in reset; or a
\* working one gets the flush in its chain, and a reference for srv->flush.
np_flush(w) ==
    /\ srv = "running" /\ thr[w].pc = "flush"
    /\ LET r == thr[w].req
           pending == {i \in DOMAIN reqs : req[reqs[i]].tag = req[r].oldtag}
           working == {o \in work : req[o].tag = req[r].oldtag}
       IN  \/ /\ pending # {} /\ conn.resetting
              /\ srv' = "locked"
              /\ UNCHANGED <<req, pool, reqs, conn, thr>>
           \/ /\ pending # {} /\ ~conn.resetting
              /\ reqs' = RemoveAt(reqs, Min(pending))
              /\ Release({reqs[Min(pending)]})
              /\ Step(w, "remove")
              /\ UNCHANGED srv
           \/ /\ pending = {} /\ working = {}
              /\ Step(w, "remove")
              /\ UNCHANGED <<srv, req, pool, reqs, conn>>
           \/ \E o \in working :
                 /\ pending = {}
                 /\ req' = [req EXCEPT ![r].flushreq = req[o].flushreq,
                                       ![o] = [np_req_ref(o) EXCEPT !.flushreq = r]]
                 /\ thr' = [thr EXCEPT ![w] = [Idle EXCEPT !.pc = "flushed",
                                                           !.held = {o}]]
                 /\ UNCHANGED <<srv, reqs, pool, conn>>
    /\ UNCHANGED <<work, kept, open>>

\* srv->flush has returned.
FlushDone(w) ==
    /\ srv = "running" /\ thr[w].pc = "flushed"
    /\ Release(thr[w].held)
    /\ thr' = [thr EXCEPT ![w] = Idle]
    /\ UNCHANGED <<srv, reqs, work, kept, open>>

-----------------------------------------------------------------------------
(* np_respond, of a worker or of the service.                              *)

\* Mutant: the chained flushes stay in srv->workreqs.
RemovedAlone(o) == {o}

\* What np_respond takes out of srv->workreqs.
Removed(o) == Chain(o)

np_respond_remove(w) ==
    /\ srv = "running" /\ thr[w].pc = "remove"
    /\ work' = work \ Removed(thr[w].req)
    /\ thr' = [thr EXCEPT ![w].pc = "respond", ![w].cur = thr[w].req]
    /\ UNCHANGED <<srv, req, pool, reqs, kept, conn, open>>

\* np_conn_respond: is the reply to be written?
np_conn_respond(w) ==
    /\ srv = "running" /\ thr[w].pc = "respond"
    /\ thr' = [thr EXCEPT ![w].pc = "write",
                          ![w].send = conn.trans /\ ~conn.resetting]
    /\ UNCHANGED <<srv, req, pool, reqs, work, kept, conn, open>>

\* Mutant: nobody is woken.
WokenNone(w, pc) == Step(w, pc)

\* pthread_cond_broadcast(&conn->resetcond), when conn->resetting is seen set.
Woken(w, pc) ==
    thr' = [v \in Threads |->
              CASE v = w -> [thr[w] EXCEPT !.pc = pc]
                [] thr[v].pc = "sleep" /\ conn.resetting /\ v # w ->
                       [thr[v] EXCEPT !.pc = "check"]
                [] OTHER -> thr[v]]

\* The client gets the reply of o and may use its tag again, but not while a Tflush
\* of it is unanswered.  An Rversion ends everything.
Received(o) ==
    open' = [t \in Tags |->
               IF \/ req[o].type = "version"
                  \/ t = req[o].oldtag
                  \/ t = req[o].tag /\ open[t] # "flushed"
               THEN "free" ELSE open[t]]

\* The end of np_conn_respond, and np_req_unref of a chained flush.
Answered(w) ==
    LET o == thr[w].cur IN
    /\ IF o = thr[w].req
       THEN /\ req' = [req EXCEPT ![o].answers = @ + 1]
            /\ UNCHANGED pool
       ELSE /\ req' = [req EXCEPT ![o] = [np_req_unref(o) EXCEPT !.answers = @ + 1]]
            /\ pool' = SetToSeq(Freed({o})) \o pool
    /\ Woken(w, "next")
    /\ UNCHANGED srv

\* What is left of the connection's references after it.
References(w) == conn.refcount - Cardinality(Freed({thr[w].cur} \ {thr[w].req}))

\* np_conn_respond: the reply is written, or the write fails and the transport is
\* closed, or is not to be sent.  A transport that went away since is NULL.
np_conn_respond_write(w) ==
    /\ srv = "running" /\ thr[w].pc = "write"
    /\ \/ /\ thr[w].send /\ ~conn.trans
          /\ srv' = "crashed"
          /\ UNCHANGED <<req, pool, conn, thr, open>>
       \/ /\ thr[w].send /\ conn.trans
          /\ Answered(w)
          /\ conn' = [conn EXCEPT !.refcount = References(w)]
          /\ Received(thr[w].cur)
       \/ /\ thr[w].send /\ conn.trans /\ MayHangup
          /\ Answered(w)
          /\ conn' = [conn EXCEPT !.refcount = References(w), !.trans = FALSE]
          /\ UNCHANGED open
       \/ /\ ~thr[w].send
          /\ Answered(w)
          /\ conn' = [conn EXCEPT !.refcount = References(w)]
          /\ UNCHANGED open
    /\ UNCHANGED <<reqs, work, kept>>

\* The next flush of the chain, by the link of the structure released above.
np_respond_next(w) ==
    /\ srv = "running" /\ thr[w].pc = "next"
    /\ LET f == req[thr[w].cur].flushreq IN
       \/ /\ f # NIL
          /\ thr' = [thr EXCEPT ![w].pc = "respond", ![w].cur = f]
          /\ UNCHANGED <<req, pool, conn>>
       \/ /\ f = NIL
          /\ Release({thr[w].req})
          /\ thr' = [thr EXCEPT ![w] = Idle]
    /\ UNCHANGED <<srv, reqs, work, kept, open>>

-----------------------------------------------------------------------------
(* np_conn_reset, of a worker with a Tversion or of the reader.            *)

\* Mutant: a Tversion waits for itself.
CountsAll(w, o) == TRUE

\* Does the reset of thread w wait for request o?
Counts(w, o) == w = Reader \/ req[o].type # "version"

np_conn_reset(w) ==
    /\ srv = "running" /\ thr[w].pc = "reset"
    /\ conn' = [conn EXCEPT !.resetting = TRUE]
    /\ Step(w, "collect")
    /\ UNCHANGED <<srv, req, pool, reqs, work, kept, open>>

\* The requests of the queue are dropped, the working ones are flushed.
np_conn_reset_flush(w) ==
    /\ srv = "running" /\ thr[w].pc = "collect"
    /\ LET N == {o \in work : Counts(w, o)} IN
       /\ req' = [o \in Objs |->
                    CASE o \in Queued -> np_req_unref(o)
                      [] o \in N -> np_req_ref(o)
                      [] OTHER -> req[o]]
       /\ pool' = SetToSeq(Freed(Queued)) \o pool
       /\ conn' = [conn EXCEPT !.refcount = @ - Cardinality(Freed(Queued))]
       /\ thr' = [thr EXCEPT ![w].pc = "check", ![w].held = N]
    /\ reqs' = <<>>
    /\ UNCHANGED <<srv, work, kept, open>>

np_conn_reset_wait(w) ==
    /\ srv = "running" /\ thr[w].pc = "check"
    /\ Step(w, IF \E o \in work : Counts(w, o) THEN "sleep" ELSE "finish")
    /\ UNCHANGED <<srv, req, pool, reqs, work, kept, conn, open>>

\* The fids are destroyed; a Tversion is then answered, the reader ends.
np_conn_reset_finish(w) ==
    /\ srv = "running" /\ thr[w].pc = "finish"
    /\ LET n == IF w = Reader THEN 1 ELSE 0
           S == thr[w].held
       IN  /\ req' = [o \in Objs |-> IF o \in S THEN np_req_unref(o) ELSE req[o]]
           /\ pool' = SetToSeq(Freed(S)) \o pool
           /\ conn' = [conn EXCEPT !.resetting = FALSE,
                                   !.refcount = @ - Cardinality(Freed(S)) - n]
    /\ thr' = [thr EXCEPT ![w].pc = IF w = Reader THEN "gone" ELSE "remove",
                          ![w].held = {}]
    /\ UNCHANGED <<srv, reqs, work, kept, open>>

-----------------------------------------------------------------------------
Init ==
    /\ srv = "running"
    /\ req = [o \in Objs |-> Unused]
    /\ pool = SetToSeq(Objs)
    /\ reqs = <<>>
    /\ work = {}
    /\ kept = {}
    /\ conn = [trans |-> TRUE, resetting |-> FALSE, listed |-> TRUE, refcount |-> 2]
    /\ thr = [w \in Threads |-> Idle]
    /\ open = [t \in Tags |-> "free"]

Respond(w) ==
    \/ np_respond_remove(w)
    \/ np_conn_respond(w)
    \/ np_conn_respond_write(w)
    \/ np_respond_next(w)

Reset(w) ==
    \/ np_conn_reset(w)
    \/ np_conn_reset_flush(w)
    \/ np_conn_reset_wait(w)
    \/ np_conn_reset_finish(w)

Work(w) ==
    \/ Take(w)
    \/ np_process_request(w)
    \/ np_flush(w)
    \/ FlushDone(w)
    \/ Respond(w)
    \/ Reset(w)

Next ==
    \/ \E t \in Tags : ReadIo(t)
    \/ ReadVersion
    \/ \E t, o \in Tags : ReadFlush(t, o)
    \/ Hangup
    \/ np_srv_remove_conn
    \/ Reset(Reader)
    \/ \E w \in Workers : Work(w)
    \/ \E o \in Objs : Complete(o)
    \/ Respond(Service)

Spec == Init /\ [][Next]_vars

\* The threads run, and the service answers what it keeps.
Fairness ==
    /\ WF_vars(~conn.trans /\ Hangup)
    /\ WF_vars(np_srv_remove_conn)
    /\ WF_vars(Reset(Reader))
    /\ \A w \in Workers : WF_vars(Work(w))
    /\ \A o \in Objs : SF_vars(Complete(o))
    /\ WF_vars(Respond(Service))

FairSpec == Spec /\ Fairness

-----------------------------------------------------------------------------
(* Properties                                                              *)

TypeOK ==
    /\ srv \in {"running", "crashed", "locked"}
    /\ req \in [Objs -> Npreq]
    /\ pool \in Seq(Objs)
    /\ reqs \in Seq(Objs)
    /\ work \in SUBSET Objs
    /\ kept \in SUBSET Objs
    /\ conn \in Npconn
    /\ thr \in [Threads -> Thread]
    /\ open \in [Tags -> {"free", "io", "flush", "flushed"}]

\* The requests thread w answers and has not released yet.
Answering(w) ==
    IF thr[w].pc \in {"respond", "write", "next"}
    THEN {thr[w].req} \cup
         (IF thr[w].pc = "next" THEN Chain(req[thr[w].cur].flushreq)
                                ELSE Chain(thr[w].cur))
    ELSE {}

Holders(o) ==
    {w \in Threads : o \in thr[w].held} \cup
    (IF o \in Queued \cup work \cup UNION {Answering(w) : w \in Threads}
     THEN {NIL} ELSE {})

\* The reference count of a request is exact, whatever threads answer it, flush
\* it and reset its connection at the same time: no structure is freed while a
\* list or a thread still has it, and none is leaked.
RequestRefs == TypeOK /\ \A o \in Objs : req[o].refcount = Cardinality(Holders(o))

\* The connection lives as long as its reader, its entry in srv->conns and its
\* requests, and not longer.
ConnRefs ==
    conn.refcount = Cardinality(Live)
                    + (IF conn.listed THEN 1 ELSE 0)
                    + (IF thr[Reader].pc = "gone" THEN 0 ELSE 1)

\* A request a thread has taken is given back to the pool with exactly one answer,
\* by the thread that has it or by the answer of the request it flushes.
AnsweredOnce ==
    [][\A o \in (Live \ Live') \ Queued : req'[o].answers = 1]_vars

\* The assertion of np_req_unref: a request is released only by a thread that has a
\* reference to it, so no count goes below 0.
AssertRefcount == \A o \in Objs : req[o].refcount >= 0

\* Every request is eventually answered, be it kept, flushed or reset.
RequestEnds == \A o \in Objs : (o \in Queued \cup work) ~> (o \notin Live \/ srv # "running")

\* The reader gets to the end of its reset: the wake-up of a thread that waits
\* for the last request is not lost.
HangupEnds == (~conn.trans) ~> (thr[Reader].pc = "gone" \/ srv # "running")

=============================================================================
