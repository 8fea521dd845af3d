------------------------------- MODULE XPipe -------------------------------
(***************************************************************************)
(* A standard I/O pipe of an xcpufs session (pipe.c): the reads of stdout  *)
(* or stderr, or the writes of stdin, that clients have queued, the buffer *)
(* in front of the pipe, and the flags of its descriptor in the poll loop  *)
(* (poll.c).  At the other end of the pipe is the process.                 *)
(*                                                                         *)
(* Everything a callback changes is in the record pipe: the Xfilepipe, the *)
(* pipe in the kernel, and the replies.  Byte i of the write with number   *)
(* id is <<id, i>>, and byte i of what the process writes is <<0, i>>.     *)
(*                                                                         *)
(* All reads and writes have the same length, which is not zero.  Careful  *)
(* clients also obey three rules: a fid has one read at a time, only one   *)
(* fid has writes that wait, and a write of which a part is in the pipe is *)
(* not flushed.                                                            *)
(***************************************************************************)
EXTENDS Integers, Sequences, FiniteSets, SequencesExt

CONSTANTS Readers, Writers,   \* the fids of stdout, and of stdin
          Careful,            \* do clients obey the three rules?
          Count,              \* bytes of a read or a write
          BufSize,            \* p->bufsize (256)
          Cap,                \* room in a pipe
          MaxReqs, MaxBytes   \* bounds: requests, and bytes the process writes

ASSUME XPipeAssumption ==
    /\ Readers \cup Writers \subseteq Nat \ {0}
    /\ Careful \in BOOLEAN
    /\ {Count, BufSize, Cap, MaxReqs, MaxBytes} \subseteq Nat \ {0}

VARIABLE pipe

Ids == 1..MaxReqs

Bytes == ({0} \X (0..MaxBytes)) \cup (Ids \X (1..Count))

\* A byte of p->buf that was never set.
Uninitialized == <<0, 0>>

Xpipereq == [fid : Readers \cup Writers, id : Ids]

Replies == [type : {"unsent", "waiting", "Rread", "Rwrite", "Rerror", "Rflush"},
            fid : Readers \cup Writers \cup {0}, data : Seq(Bytes), count : 0..Count]

Xfilepipe == [direction : {"Read", "Write"},
              lspfd : BOOLEAN,                    \* is it in the poll table?
              flags : SUBSET {"Readable", "Writable", "Error"},
              buf : Seq(Bytes),                   \* buflen is its length
              reqs : Seq(Xpipereq),
              stream : Seq(Bytes), taken : Nat,   \* written to, read from the pipe
              peer : BOOLEAN,                     \* has the process its end open?
              reply : [Ids -> Replies]]

\* The number of bytes in the pipe.
Fill(x) == Len(x.stream) - x.taken

\* The requests in the queue
QueuedIds(x) == {r.id : r \in ToSet(x.reqs)}

Rread(reply, data) == [reply EXCEPT !.type = "Rread", !.data = data]

Rwrite(reply, n) == [reply EXCEPT !.type = "Rwrite", !.count = n]

\* Mutant: the descriptor is not polled again.
ClearedNot(flags, flag) == flags

\* spfd_read and spfd_write clear the flag, and poll asks for the event again.
Cleared(flags, flag) == flags \ {flag}

-----------------------------------------------------------------------------
(* pip_read_buf.  The reads of one fid share the buffer, those of each fid *)
(* get it from the start; what the fid that read least has read is dropped *)
(* from the buffer.                                                        *)

\* How far k reads of a fid get in the buffer.
Reached(x, k) == Min({Len(x.buf), k * Count})

\* Mutant: the reads of all fids share the buffer.
ReadsOfAll(x, f, n) == n

\* The number of reads of fid f among the first n of the queue
ReadsOf(x, f, n) == Cardinality({i \in 1..n : x.reqs[i].fid = f})

ReachedByFids(x) ==
    {Reached(x, ReadsOf(x, x.reqs[i].fid, Len(x.reqs))) : i \in DOMAIN x.reqs}

\* Mutant: the whole buffer is dropped.
DroppedAll(x) == Len(x.buf)

Dropped(x) == Min(ReachedByFids(x))

pip_read_buf(x) ==
    LET Data(i) == LET k == ReadsOf(x, x.reqs[i].fid, i)
                   IN  SubSeq(x.buf, Reached(x, k - 1) + 1, Reached(x, k))
        Answer(id) == LET i == CHOOSE j \in DOMAIN x.reqs : x.reqs[j].id = id
                      IN  Rread(x.reply[id], Data(i))
    IN  IF x.reqs = <<>> THEN x
        ELSE [x EXCEPT !.reply = [id \in Ids |-> IF id \in QueuedIds(x)
                                                 THEN Answer(id) ELSE @[id]],
                       !.buf = SubSeq(@, Dropped(x) + 1, Len(@)),
                       !.reqs = <<>>]

\* spfd_read of at most n bytes
spfd_read(x, n) ==
    LET k == IF x.direction # "Read" THEN 0 ELSE IF Fill(x) < n THEN Fill(x) ELSE n
    IN  [x EXCEPT !.buf = @ \o SubSeq(x.stream, x.taken + 1, x.taken + k),
                  !.taken = @ + k, !.flags = Cleared(@, "Readable")]

\* The buffer grows until the pipe is empty.
pip_read_eof(x) == spfd_read(x, Fill(x))

pip_read(x) ==
    IF "Error" \in x.flags THEN pip_read_buf(pip_read_eof(x))
    ELSE IF x.direction # "Read" THEN x
    ELSE pip_read_buf(IF Len(x.buf) < BufSize THEN spfd_read(x, BufSize - Len(x.buf)) ELSE x)

\* The write at the head of the queue is complete.
Written(x) ==
    [x EXCEPT !.reply[Head(x.reqs).id] = Rwrite(@, Count), !.reqs = Tail(@), !.buf = <<>>]

\* pip_write: p->buflen counts the bytes of the first write that are in the pipe,
\* and p->buf is not set.  Without a reader the write fails.
pip_write(x) ==
    LET id   == Head(x.reqs).id
        todo == Count - Len(x.buf)
        n    == IF ~x.peer THEN 0 ELSE IF Cap - Fill(x) < todo THEN Cap - Fill(x) ELSE todo
        data == [i \in 1..n |-> <<id, Len(x.buf) + i>>]
        y    == [x EXCEPT !.buf = @ \o [i \in 1..n |-> Uninitialized], !.stream = @ \o data,
                          !.flags = Cleared(@, "Writable")]
    IN  IF x.reqs = <<>> \/ x.direction # "Write" THEN x
        ELSE IF n > 0 /\ n = todo THEN Written(y) ELSE y

\* The queued writes: the first is answered with what was written of it.
RefuseWrites(x) ==
    LET Done(id) == IF id = Head(x.reqs).id THEN Len(x.buf) ELSE 0
    IN  IF x.reqs = <<>> THEN x
        ELSE [x EXCEPT !.reply = [id \in Ids |-> IF id \in QueuedIds(x)
                                                 THEN Rwrite(@[id], Done(id)) ELSE @[id]],
                       !.reqs = <<>>, !.buf = <<>>]

\* Mutant: the reads that wait are left alone.
pip_disconnect_only(x) ==
    LET y == [x EXCEPT !.lspfd = FALSE]
    IN  IF x.direction = "Read" THEN y ELSE RefuseWrites(y)

pip_disconnect(x) ==
    LET y == [x EXCEPT !.lspfd = FALSE]
    IN  IF x.direction = "Read" THEN pip_read_buf(y) ELSE RefuseWrites(y)

\* Mutant: the descriptor is read whether or not poll has said it can be.
ReadsAlways(x) == x.direction = "Read"

Reads(x) == x.buf # <<>> \/ (x.direction = "Read" /\ "Readable" \in x.flags)

pip_notify(x) ==
    LET y == IF Reads(x) THEN pip_read(x) ELSE x
        z == IF "Writable" \in y.flags THEN pip_write(y) ELSE y
    IN  IF "Error" \in z.flags THEN pip_disconnect(pip_read_eof(z)) ELSE z

-----------------------------------------------------------------------------
\* Mutant: the requests of one fid are in reverse order.
QueuedBefore(s, r) ==
    LET later == {i \in DOMAIN s : s[i].fid >= r.fid}
    IN  InsertAt(s, IF later = {} THEN Len(s) + 1 ELSE Min(later), r)

\* pip_addreq: the queue is sorted by fid.
Queued(s, r) ==
    LET later == {i \in DOMAIN s : s[i].fid > r.fid}
    IN  InsertAt(s, IF later = {} THEN Len(s) + 1 ELSE Min(later), r)

\* Once the descriptor is out of the poll table the request is answered, and
\* stays in the queue all the same unless the buffer is not empty.
Added(x, r) ==
    LET y == [x EXCEPT !.reqs = Queued(@, r), !.reply[r.id].type = "waiting",
                       !.reply[r.id].fid = r.fid]
    IN  IF x.lspfd THEN pip_notify(y)
        ELSE IF x.direction = "Write" THEN [y EXCEPT !.reply[r.id].type = "Rerror"]
        ELSE IF x.buf = <<>> THEN [y EXCEPT !.reply[r.id] = Rread(@, <<>>)]
        ELSE pip_read_buf(y)

Waiting(x, id) == x.reply[id].type = "waiting"

\* The client sends its requests in the order of their numbers.
ClientNext(id) == \A i \in Ids : pipe.reply[i].type = "unsent" <=> i >= id

filepipe_read(f, id) ==
    /\ pipe.direction = "Read"
    /\ ClientNext(id)
    /\ Careful => \A i \in Ids : Waiting(pipe, i) => pipe.reply[i].fid # f
    /\ pipe' = Added(pipe, [fid |-> f, id |-> id])

filepipe_write(f, id) ==
    /\ pipe.direction = "Write"
    /\ ClientNext(id)
    /\ Careful => \A i \in Ids : Waiting(pipe, i) => pipe.reply[i].fid = f
    /\ pipe' = Added(pipe, [fid |-> f, id |-> id])

\* pip_flushreq
pip_flushreq(id) ==
    /\ Waiting(pipe, id)
    /\ \E i \in DOMAIN pipe.reqs :
          /\ pipe.reqs[i].id = id
          /\ Careful => pipe.direction = "Read" \/ i # 1 \/ pipe.buf = <<>>
          /\ pipe' = [pipe EXCEPT !.reqs = RemoveAt(@, i), !.reply[id].type = "Rflush"]

\* sp_poll_once, for this descriptor: an event that was reported is not asked
\* for again before the descriptor is read or written.
revents(x) ==
    (IF x.direction = "Read" /\ Fill(x) > 0 /\ "Readable" \notin x.flags
        THEN {"Readable"} ELSE {}) \cup
    (IF x.direction = "Write" /\ Fill(x) < Cap /\ "Writable" \notin x.flags
        THEN {"Writable"} ELSE {}) \cup
    (IF x.peer THEN {} ELSE {"Error"})

\* Does poll report an event of this descriptor?
Polled == pipe.lspfd /\ revents(pipe) # {}

sp_poll_once ==
    /\ Polled
    /\ pipe' = pip_notify([pipe EXCEPT !.flags = @ \cup revents(pipe)])

-----------------------------------------------------------------------------
(* The process                                                             *)

produce ==
    /\ pipe.direction = "Read" /\ pipe.peer
    /\ Len(pipe.stream) < MaxBytes /\ Fill(pipe) < Cap
    /\ pipe' = [pipe EXCEPT !.stream = Append(@, <<0, Len(@) + 1>>)]

consume ==
    /\ pipe.direction = "Write" /\ pipe.peer
    /\ Fill(pipe) > 0
    /\ pipe' = [pipe EXCEPT !.taken = @ + 1]

exit ==
    /\ pipe.peer
    /\ pipe' = [pipe EXCEPT !.peer = FALSE]

\* pip_create
pip_create(direction) ==
    [direction |-> direction, lspfd |-> TRUE, flags |-> {}, buf |-> <<>>,
     reqs |-> <<>>, stream |-> <<>>, taken |-> 0, peer |-> TRUE,
     reply |-> [id \in Ids |-> [type |-> "unsent", fid |-> 0, data |-> <<>>, count |-> 0]]]

Init == \E direction \in {"Read", "Write"} : pipe = pip_create(direction)

Next ==
    \/ \E f \in Readers, id \in Ids : filepipe_read(f, id)
    \/ \E f \in Writers, id \in Ids : filepipe_write(f, id)
    \/ \E id \in Ids : pip_flushreq(id)
    \/ sp_poll_once
    \/ produce
    \/ consume
    \/ exit

Spec == Init /\ [][Next]_pipe

\* The poll loop runs, and the process reads its standard input until it ends.
\* The first is weak fairness of sp_poll_once, with Polled for its ENABLED, which
\* TLC would take long to evaluate: a step that notifies changes the pipe.
FairSpec ==
    /\ Spec
    /\ []<>~Polled \/ []<><<sp_poll_once>>_pipe
    /\ WF_pipe(consume)

-----------------------------------------------------------------------------
(* Properties                                                              *)

TypeOK == pipe \in Xfilepipe

\* doc/xcpu.tex:341-342: "The read operations blocks until the main session
\* process writes some data to its standard output."  A read is answered with no
\* data, which means end of file, only when the process has closed its end and
\* all its output was read.
EofOnlyAtEnd ==
    \A id \in Ids :
        (pipe.reply[id].type = "Rread" /\ pipe.reply[id].data = <<>> /\ pipe.direction = "Read")
            => ~pipe.peer /\ Fill(pipe) = 0

\* Output is never dropped unread: what was taken from the pipe is in the buffer
\* or was sent to a reader, also when several readers share the pipe and when
\* the process ends; and a reader gets it in order and no byte twice, whatever
\* the others read.
OutputDelivered ==
    pipe.direction = "Read" =>
        /\ \A i \in 1..pipe.taken :
               \/ <<0, i>> \in ToSet(pipe.buf)
               \/ \E id \in Ids : <<0, i>> \in ToSet(pipe.reply[id].data)
        /\ \A i, j \in Ids :
               (i < j /\ pipe.reply[i].fid = pipe.reply[j].fid) =>
                   \A a \in ToSet(pipe.reply[i].data), b \in ToSet(pipe.reply[j].data) :
                       a[2] < b[2]

\* doc/xcpu.tex:344-346: "If the file is opened more than once, and there are
\* blocked read operations for these files when some data is available from the
\* standard output, xcpufs sends the data to every open file."  Reads that wait on
\* different fids are answered together and with the same data.
SentToEveryReader ==
    [][\A i, j \in Ids :
          (/\ Waiting(pipe, i) /\ Waiting(pipe, j)
           /\ pipe.reply[i].fid # pipe.reply[j].fid
           /\ pipe'.reply[i].type = "Rread") =>
              /\ pipe'.reply[j].type = "Rread"
              /\ pipe'.reply[j].data = pipe'.reply[i].data]_pipe

\* doc/xcpu.tex:332-333: "The data from the write operation is passed to the
\* standard input of the main session process."  A write that is answered with n
\* has put its first n bytes in the pipe, in order, and nothing else.
WritePassed ==
    \A id \in Ids : pipe.reply[id].type = "Rwrite" =>
        LET places == {k \in DOMAIN pipe.stream : pipe.stream[k][1] = id}
        IN  /\ {pipe.stream[k][2] : k \in places} = 1..pipe.reply[id].count
            /\ \A k, l \in places : k < l => pipe.stream[k][2] < pipe.stream[l][2]

\* While the pipe is open the queue holds exactly the requests that wait, and
\* afterwards none waits: a request is neither lost nor answered twice, however
\* notifications, flushes and the end of the process are ordered.
RequestsKept ==
    /\ TypeOK
    /\ {id \in Ids : Waiting(pipe, id)} = IF pipe.lspfd THEN QueuedIds(pipe) ELSE {}

\* A read that waits while there is output, a write whose process goes on reading,
\* and any request once the process has closed its end, is answered.
RequestReturns ==
    \A id \in Ids :
        (Waiting(pipe, id) /\ (Fill(pipe) > 0 \/ ~pipe.peer \/ pipe.direction = "Write"))
            ~> ~Waiting(pipe, id)

=============================================================================
