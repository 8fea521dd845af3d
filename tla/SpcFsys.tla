------------------------------- MODULE SpcFsys -------------------------------
(***************************************************************************)
(* The 9P client library libspclient: the requests of a mounted file       *)
(* system on their way to the server and back (fsys.c), their tags         *)
(* (pool.c), Tflush and the loss of the connection.                        *)
(*                                                                         *)
(* The program is in sp_poll_loop, so spc_flush_request does not wait.     *)
(* What a callback does to the library comes after the step that calls it. *)
(* A read of the socket is a step for each message it brings.  The file    *)
(* whose requests are flushed is not the first of the mount (fid 0), which *)
(* spc_close never gets, and has no request that is half written.          *)
(*                                                                         *)
(* Requests are numbered as they are made.  One is put at the end of the   *)
(* list of those to be sent, sent from the front of it, and put in front   *)
(* of those that were sent: the numbers rise along the one list and fall   *)
(* along the other, which are the sets pend and sent.                      *)
(***************************************************************************)
EXTENDS Integers, Sequences, FiniteSets, FiniteSetsExt

CONSTANTS Fids,      \* open files
          NTags,     \* the tags of fs->tagpool
          MaxReqs,   \* the bound on requests
          NIL        \* no request, no reply

ASSUME SpcFsysAssumption ==
    /\ NTags \in Nat \ {0}
    /\ MaxReqs \in Nat
    /\ NIL \notin Nat \cup Fids

VARIABLES
    fs,       \* the Spcfsys with its requests
    srvreqs,  \* the requests the server has
    replies   \* its replies on the way, each with the request it is for

vars == <<fs, srvreqs, replies>>

Reqs == 1..MaxReqs

\* calls, freed: how often the callback was called and the request freed; rc: what
\* the callback was given; old: the request a Tflush is for.
Spcreq == [fid : Fids \cup {NIL}, old : Reqs \cup {NIL}, tag : 0..NTags - 1, flushed : BOOLEAN,
           calls : 0..2, freed : 0..2, rc : Reqs \cup {NIL}]

\* spfd: is there a connection?  writable: spfd_can_write; half: pend_pos is not 0;
\* n: the requests made; tags: those taken from the pool.
Spcfsys == [spfd : BOOLEAN, writable : BOOLEAN, half : BOOLEAN, n : 0..MaxReqs,
            req : [Reqs -> Spcreq], pend : SUBSET Reqs, sent : SUBSET Reqs,
            tags : SUBSET (0..NTags - 1)]

IsFlush(r) == fs.req[r].old # NIL

-----------------------------------------------------------------------------
\* spc_get_id, the i-th time with none put back: the least free tags one after another.
\* The map has NTags bits, which is all of maxid; a full one gives its length in bytes.
spc_get_id(tags, i) ==
    LET free == (0..NTags - 1) \ tags
    IN  IF i > Cardinality(free) THEN NTags \div 8
        ELSE CHOOSE t \in free : Cardinality({u \in free : u <= t}) = i

\* The callback of request r, of the program.
Called(F, r, rc) ==
    [F EXCEPT !.req[r].calls = @ + 1, !.req[r].rc = rc]

Freed(F, r) == [F EXCEPT !.req[r].freed = @ + 1]

spc_put_id(F, r) == [F EXCEPT !.tags = @ \ {F.req[r].tag}]

\* A flushed request without an answer: its callback gets no reply.
Flushed(F, r) == [Called(F, r, NIL) EXCEPT !.sent = @ \ {r}]

spc_request_flushed(F, r) ==
    Freed(spc_put_id(IF r \in F.sent THEN Flushed(F, r) ELSE F, r), r)

\* (*req->cb)(req->cba, rc), which is spc_flush_cb for a Tflush.
cb(F, r, rc) ==
    IF F.req[r].old # NIL THEN spc_request_flushed(F, F.req[r].old) ELSE Called(F, r, rc)

\* New requests at the end of the list, each for its request of olds.
Spcreq_new(F, fid, olds) ==
    LET k == Len(olds)
        new(i) == [fid |-> fid, old |-> olds[i], tag |-> spc_get_id(F.tags, i),
                   flushed |-> FALSE, calls |-> 0, freed |-> 0, rc |-> NIL]
    IN  [F EXCEPT !.n = @ + k,
                  !.req = [r \in Reqs |-> IF r \in F.n + 1..F.n + k THEN new(r - F.n)
                                          ELSE F.req[r]],
                  !.tags = @ \cup {spc_get_id(F.tags, i) : i \in 1..k},
                  !.pend = @ \cup F.n + 1..F.n + k]

\* spc_fd_write: what it may come to.  spfd_write clears Writable; it takes all that
\* is left of the first request, or only a part, or nothing.
spc_fd_write(F) ==
    IF F.pend = {} THEN {F}
    ELSE LET r == Min(F.pend)
         IN  {[F EXCEPT !.writable = FALSE, !.half = FALSE, !.pend = @ \ {r},
                        !.sent = @ \cup {r}],
              [F EXCEPT !.writable = FALSE, !.half = TRUE],
              [F EXCEPT !.writable = FALSE]}

\* Mutant: the request waits for the next POLLOUT.
Started_later(F) == {F}

\* A request that is alone in the list is written at once when the connection is known
\* to take it.
Started(F) == IF F.pend = {F.n} /\ F.writable THEN spc_fd_write(F) ELSE {F}

\* The server gets what was written.
Arrived == srvreqs' = srvreqs \cup (fs'.sent \ fs.sent)

-----------------------------------------------------------------------------
\* spc_rpcnb, of spc_readnb or spc_writenb; without a connection no request is made
\* and the callback is called at once.
spc_rpcnb(fid) ==
    /\ fs.n < MaxReqs
    /\ \/ /\ fs.spfd
          /\ fs' \in Started(Spcreq_new(fs, fid, <<NIL>>))
       \/ /\ ~fs.spfd
          /\ fs' = [fs EXCEPT !.n = @ + 1,
                              !.req[fs.n + 1] = [fid |-> fid, old |-> NIL, tag |-> 0,
                                                 flushed |-> FALSE, calls |-> 1,
                                                 freed |-> 1, rc |-> NIL]]
    /\ Arrived
    /\ UNCHANGED replies

GivenUp(x) == [x EXCEPT !.calls = @ + 1, !.freed = @ + 1, !.rc = NIL]

\* Requests that were not sent yet: their tags are not put back.
Unsent(F, S) ==
    [F EXCEPT !.pend = @ \ S,
              !.req = [r \in Reqs |-> IF r \in S THEN GivenUp(F.req[r]) ELSE F.req[r]]]

\* The i-th of the requests S, along the list of those sent.
Along(S, i) == CHOOSE r \in S : Cardinality({q \in S : q >= r}) = i

\* spc_flush_request, of each of S.
spc_flush_request(F, S) ==
    Spcreq_new([F EXCEPT !.req = [r \in Reqs |-> IF r \in S
                                                 THEN [F.req[r] EXCEPT !.flushed = TRUE]
                                                 ELSE F.req[r]]],
               NIL, [i \in 1..Cardinality(S) |-> Along(S, i)])

\* spc_flush_requests: those not sent are dropped, and a Tflush is made for the others.
\* Only the first Tflush can find the list empty.
spc_flush_requests(fid) ==
    LET waiting == {r \in fs.pend : fs.req[r].fid = fid}
        running == {r \in fs.sent : fs.req[r].fid = fid /\ ~fs.req[r].flushed}
    IN  /\ fs.spfd /\ waiting \cup running # {}
        /\ fs.half => Min(fs.pend) \notin waiting
        /\ fs.n + Cardinality(running) <= MaxReqs
        /\ \/ running = {} /\ fs' = Unsent(fs, waiting)
           \/ /\ running # {}
              /\ \E F \in Started(spc_flush_request(Unsent(fs, waiting), {Max(running)})) :
                    fs' = spc_flush_request(F, running \ {Max(running)})
        /\ Arrived
        /\ UNCHANGED replies

\* Mutant: a request goes with its answer, flushed or not.
Done_always(F, r) == Freed(spc_put_id(F, r), r)

\* An answered request; one that is flushed goes with the Rflush.
Done(F, r) == IF F.req[r].flushed THEN F ELSE Freed(spc_put_id(F, r), r)

\* spc_fd_read: the request with the tag of the reply is answered; a reply that
\* nothing waits for is dropped.
spc_fd_read ==
    /\ fs.spfd /\ replies # <<>>
    /\ LET rc == Head(replies)
           match == {r \in fs.sent : fs.req[r].tag = rc.tag}
           r == Max(match)
       IN  fs' = IF match = {} THEN fs
                 ELSE Done(cb([fs EXCEPT !.sent = @ \ {r}], r, rc.of), r)
    /\ replies' = Tail(replies)
    /\ UNCHANGED srvreqs

\* spc_notify, when poll reports POLLOUT, which it is asked for after a write.
spc_notify_write ==
    /\ fs.spfd /\ ~fs.writable
    /\ fs' \in spc_fd_write([fs EXCEPT !.writable = TRUE])
    /\ Arrived
    /\ UNCHANGED replies

Listed == fs.pend \cup fs.sent

\* The Tflushes for r that are given up.
FlushesOf(r) == {f \in Listed : fs.req[f].old = r}

\* Mutant: a callback is called for each request of the lists as they were.
TakenOut_never(r) == FALSE

\* Is r taken out by the callback of a Tflush before its turn comes?
TakenOut(r) == r \in fs.sent /\ \E f \in FlushesOf(r) : f \in fs.pend \/ f > r

\* A request is given up in its turn, and by the callback of a Tflush for it, which calls
\* its callback when it was sent.
Lost(r) ==
    LET turn == IF r \in Listed /\ ~TakenOut(r) THEN 1 ELSE 0
        called == (IF IsFlush(r) THEN 0 ELSE turn)
                  + (IF r \in fs.sent /\ FlushesOf(r) # {} THEN 1 ELSE 0)
    IN  [fs.req[r] EXCEPT !.calls = @ + called,
                          !.freed = @ + turn + Cardinality(FlushesOf(r)),
                          !.rc = IF called = 0 THEN @ ELSE NIL]

\* spc_disconnect_fsys: the server hangs up, the connection breaks, or spc_umount.  The
\* requests to be sent are given up, and then those sent.
spc_disconnect_fsys ==
    /\ fs.spfd
    /\ fs' = [fs EXCEPT !.spfd = FALSE, !.pend = {}, !.sent = {},
                        !.req = [r \in Reqs |-> Lost(r)],
                        !.tags = @ \ {fs.req[r].tag : r \in {q \in Reqs : FlushesOf(q) # {}}}]
    /\ srvreqs' = {}
    /\ replies' = <<>>

-----------------------------------------------------------------------------
(* The server answers in any order.  With the Rflush it forgets the request that *)
(* has the tag.                                                                   *)
Reply(r) ==
    /\ r \in srvreqs
    /\ srvreqs' = srvreqs \ ({r} \cup
          (IF IsFlush(r) THEN {q \in srvreqs : fs.req[q].tag = fs.req[fs.req[r].old].tag}
                         ELSE {}))
    /\ replies' = Append(replies, [tag |-> fs.req[r].tag, of |-> r])
    /\ UNCHANGED fs

-----------------------------------------------------------------------------
\* spc_create_fsys
Init ==
    /\ fs = [spfd |-> TRUE, writable |-> FALSE, half |-> FALSE, n |-> 0,
             req |-> [r \in Reqs |-> [fid |-> NIL, old |-> NIL, tag |-> 0,
                                      flushed |-> FALSE, calls |-> 0, freed |-> 0,
                                      rc |-> NIL]],
             pend |-> {}, sent |-> {}, tags |-> {}]
    /\ srvreqs = {}
    /\ replies = <<>>

Next ==
    \/ \E fid \in Fids : spc_rpcnb(fid) \/ spc_flush_requests(fid)
    \/ spc_fd_read
    \/ spc_notify_write
    \/ spc_disconnect_fsys
    \/ \E r \in Reqs : Reply(r)

Spec == Init /\ [][Next]_vars

\* The poll loop reads and writes, and sooner or later the connection takes the rest
\* of a request; the server answers or forgets what it has.
Fairness ==
    /\ WF_vars(spc_fd_read)
    /\ SF_vars(spc_notify_write /\ fs'.sent # fs.sent)
    /\ WF_vars(spc_notify_write)
    /\ \A r \in Reqs : WF_vars(Reply(r))

FairSpec == Spec /\ Fairness

-----------------------------------------------------------------------------
(* Properties                                                              *)

TypeOK ==
    /\ fs \in Spcfsys
    /\ srvreqs \in SUBSET Reqs
    /\ replies \in Seq([tag : 0..NTags - 1, of : Reqs])

Made == 1..fs.n

\* Whichever comes first of the reply, the Rflush, the flush of a request that was
\* not sent and the loss of the connection, the callback of a request is called once,
\* when it leaves the lists, and the request is freed once, when besides no Tflush
\* that is still to be answered refers to it.
CompletedOnce ==
    /\ TypeOK
    /\ \A r \in Made :
          /\ ~IsFlush(r) => fs.req[r].calls = (IF r \in Listed THEN 0 ELSE 1)
          /\ fs.req[r].freed =
                (IF r \in Listed \/ \E f \in Listed : fs.req[f].old = r THEN 0 ELSE 1)

\* The program gets its own reply: no tag is given to a second request while the
\* server, or a reply on its way, may still use it.
OwnReply == \A r \in Made : fs.req[r].rc \in {r, NIL}

\* Every request is answered, flushed or given up in the end: none waits for a POLLOUT
\* that poll will not report again, and none is lost by a flush.
EveryCallback == \A r \in Reqs : (r \in Made /\ ~IsFlush(r)) ~> (fs.req[r].calls = 1)

=============================================================================
