------------------------------ MODULE XSession ------------------------------
(***************************************************************************)
(* The sessions of xcpufs (xcpufs.c): a session is created when a client   *)
(* opens "clone", is reached through the fids of its directory, runs a     *)
(* process, and ends when it is wiped or when nothing refers to it.        *)
(*                                                                         *)
(* A session has two reference counts.  xs->refcount counts the open       *)
(* "clone" fid, the fids of the session and its process.  sroot->refcount  *)
(* (here sref) counts the references to the session's directory: the       *)
(* entry in the root directory, the NFiles files in it, the fids that      *)
(* point to it.  The session is freed with its directory.                  *)
(*                                                                         *)
(* Children are reaped through a pipe: the SIGCHLD handler closes its      *)
(* write end, the poll loop sees the hangup of the read end and calls      *)
(* sigchld_notify.  The server is one thread: while it is in               *)
(* sigchld_notify it handles no message, but a child may exit, and the     *)
(* signal handler run, between any two of its steps.                       *)
(*                                                                         *)
(* The clients obey two rules beyond 9P: they walk down, from a fid to a   *)
(* new fid (as libspclient does: no walk in place and no ".."), and do not *)
(* clunk a fid while their write to "ctl" is not answered.  The loss of a  *)
(* connection is a flush of its requests and a clunk of its fids.          *)
(***************************************************************************)
EXTENDS Integers, FiniteSets, Sequences

CONSTANTS Sessions,      \* room for sessions
          Fids,          \* the fids of all the clients
          Pids,          \* room for processes
          NFiles,        \* files in a session directory (11)
          NOSESSION, NOFID, NOPID,
          Uses           \* what the clients do beyond the plain life cycle

ASSUME XSessionAssumption ==
    /\ IsFiniteSet(Fids) /\ IsFiniteSet(Pids)
    /\ NFiles \in Nat \ {0}
    /\ NOSESSION \notin Sessions
    /\ NOFID \notin Fids
    /\ NOPID \notin Pids
    /\ Uses \subseteq {"persistent", "reexec", "flushctl"}

VARIABLES
    sess,      \* the sessions
    fid,       \* the fids
    proc,      \* the processes: none, running, or zombie
    owner,     \* the session a process was started for
    termed,    \* the processes that were sent SIGTERM
    chld_fd,   \* is the write end of the SIGCHLD pipe open?
    notify     \* where sigchld_notify is; 0 in the poll loop

vars == <<sess, fid, proc, owner, termed, chld_fd, notify>>

-----------------------------------------------------------------------------
(* Xsession.  "none" is a free slot, "freed" a session that was freed while *)
(* the root directory still lists it.                                       *)

Xsession == [state : {"none", "Initializing", "Running", "Finished", "Wiped", "freed"},
             mode : {"Normal", "Persistent"}, refcount : Int, sref : Int,
             listed : BOOLEAN, pid : Pids \cup {NOPID},
             waitreqs : SUBSET Fids, ctlreq : Fids \cup {NOFID}]

NoSession == [state |-> "none", mode |-> "Normal", refcount |-> 0, sref |-> 0,
              listed |-> FALSE, pid |-> NOPID, waitreqs |-> {}, ctlreq |-> NOFID]

\* session_create and session_add_dir
session_create == [NoSession EXCEPT !.state = "Initializing", !.refcount = 1,
                                    !.sref = 1 + NFiles, !.listed = TRUE]

Exists(s) == sess[s].state \notin {"none", "freed"}

session_remove_dir(x) == [x EXCEPT !.listed = FALSE, !.sref = @ - NFiles]

\* session_wipe, but for the signal and the answers to the wait requests
session_wipe(x) ==
    IF x.state = "Wiped" THEN x
    ELSE session_remove_dir([x EXCEPT !.state = "Wiped", !.waitreqs = {}])

session_incref(x) == [x EXCEPT !.refcount = @ + 1]

\* Mutant: a session whose process has not started is not wiped.
WipesFinished(x) == x.mode = "Normal" /\ x.state = "Finished"

Wipes(x) == x.mode = "Normal" /\ x.state # "Running"

\* session_decref: the last reference takes one to the directory with it.
session_decref(x) ==
    LET y == [x EXCEPT !.refcount = @ - 1]
        z == IF Wipes(y) THEN session_wipe(y) ELSE y
    IN  IF y.refcount # 0 THEN y ELSE [z EXCEPT !.sref = @ - 1]

\* session_destroy, when the last reference to the directory is gone
Settled(x) ==
    IF x.sref # 0 \/ x.state = "none" THEN x
    ELSE [NoSession EXCEPT !.state = IF x.listed THEN "freed" ELSE "none",
                           !.mode = x.mode, !.listed = x.listed]

-----------------------------------------------------------------------------
(* Fids.  "clone" is the open clone file, "dir" the session's directory,   *)
(* "ctl", "wait" and "file" files in it, "fs" a file of its fs directory.  *)
(* req is a request that waits for its answer on the fid; the fid stays    *)
(* until then, even when the client has clunked it.                        *)

Places == {"dir", "ctl", "wait", "file", "fs"}

Xfid == [at : {"none", "root", "clone"} \cup Places, s : Sessions \cup {NOSESSION},
         req : {"none", "wait", "ctl"}, clunked : BOOLEAN]

NoFid == [at |-> "none", s |-> NOSESSION, req |-> "none", clunked |-> FALSE]

FidAt(at, s) == [NoFid EXCEPT !.at = at, !.s = s]

\* Mutant: a fid in the fs directory is not counted.
RefNotFs(x, at) == IF at = "fs" THEN x
                   ELSE LET y == session_incref(x)
                        IN  IF at = "dir" THEN [y EXCEPT !.sref = @ + 1] ELSE y

\* reftrack_ref (ufs_attach, ufs_clone) and spfile_incref for a fid that comes to a place
Ref(x, at) == LET y == session_incref(x)
              IN  IF at = "dir" THEN [y EXCEPT !.sref = @ + 1] ELSE y

\* reftrack_unref (clone_closefid, ufs_fiddestroy) and spfile_decref for a
\* fid that leaves a place
Unref(x, at) == LET y == session_decref(x)
                IN  IF at = "dir" THEN [y EXCEPT !.sref = @ - 1] ELSE y

\* spfile_walk of a fid from the directory to a place in it
WalkTo(x, at) == IF at = "dir" THEN x ELSE Ref(Unref(x, "dir"), at)

\* The fid after an answer, and the session it leaves if it was clunked.
FidAnswered(g) == IF g.clunked THEN NoFid ELSE [g EXCEPT !.req = "none"]

\* Mutant: a wipe leaves the process alone.
KillsNone(s, x) == UNCHANGED termed

\* session_wipe and session_destroy send SIGTERM to the process.
Kills(s, x) ==
    termed' = IF x.state \in {"none", "freed", "Wiped"}
                 THEN termed \cup ({sess[s].pid} \ {NOPID}) ELSE termed

SetSession(s, x) == sess' = [sess EXCEPT ![s] = Settled(x)]

Polls == notify = 0

-----------------------------------------------------------------------------
(* The messages                                                            *)

attach(f) ==
    /\ Polls
    /\ fid[f] = NoFid
    /\ fid' = [fid EXCEPT ![f] = FidAt("root", NOSESSION)]
    /\ UNCHANGED <<sess, proc, owner, termed, chld_fd, notify>>

clone_openfid(f, s) ==
    /\ Polls
    /\ fid[f].at = "root"
    /\ sess[s] = NoSession
    /\ sess' = [sess EXCEPT ![s] = session_create]
    /\ fid' = [fid EXCEPT ![f] = FidAt("clone", s)]
    /\ UNCHANGED <<proc, owner, termed, chld_fd, notify>>

\* A walk to a new fid g from the root, through the directory of s.
WalkFromRoot(f, g, s, at) ==
    /\ Polls
    /\ fid[f].at = "root"
    /\ fid[g] = NoFid
    /\ Exists(s) /\ sess[s].listed
    /\ SetSession(s, WalkTo(Ref(sess[s], "dir"), at))
    /\ fid' = [fid EXCEPT ![g] = FidAt(at, s)]
    /\ UNCHANGED <<proc, owner, termed, chld_fd, notify>>

\* A walk to a new fid g from a fid of the session: to the same place, or from
\* the directory, which is empty once the session is wiped, to one in it.
WalkFromSession(f, g, at) ==
    /\ Polls
    /\ fid[f].at \in Places /\ fid[f].req = "none"
    /\ fid[g] = NoFid
    /\ at = fid[f].at \/ (fid[f].at = "dir" /\ sess[fid[f].s].listed)
    /\ LET x == Ref(sess[fid[f].s], fid[f].at)
       IN  SetSession(fid[f].s, IF at = fid[f].at THEN x ELSE WalkTo(x, at))
    /\ fid' = [fid EXCEPT ![g] = FidAt(at, fid[f].s)]
    /\ UNCHANGED <<proc, owner, termed, chld_fd, notify>>

\* spfile_fiddestroy, ufs_fiddestroy: the fid leaves its session.
Leave(f) ==
    LET s == fid[f].s
        x == Unref(sess[s], fid[f].at)
    IN  /\ SetSession(s, x)
        /\ Kills(s, Settled(x))
        /\ fid' = [fid EXCEPT ![f] = NoFid]

\* Tclunk.  A request that waits for its answer holds on to the fid.
clunk(f) ==
    /\ Polls
    /\ fid[f].at # "none" /\ ~fid[f].clunked
    /\ fid[f].req # "ctl"
    /\ \/ /\ fid[f].at = "root"
          /\ fid' = [fid EXCEPT ![f] = NoFid]
          /\ UNCHANGED <<sess, termed>>
       \/ /\ fid[f].at # "root" /\ fid[f].req = "none"
          /\ Leave(f)
       \/ /\ fid[f].req = "wait"
          /\ fid' = [fid EXCEPT ![f].clunked = TRUE]
          /\ UNCHANGED <<sess, termed>>
    /\ UNCHANGED <<proc, owner, chld_fd, notify>>

\* Mutant: only the end of the process is known not to come.
WaitsWiped(x) == x.state # "Finished"

\* A read of "wait" is queued; once the session is over it is answered at once.
Waits(x) == x.state \notin {"Finished", "Wiped"}

wait_read(f) ==
    /\ Polls
    /\ fid[f].at = "wait" /\ fid[f].req = "none"
    /\ Waits(sess[fid[f].s])
    /\ sess' = [sess EXCEPT ![fid[f].s].waitreqs = @ \cup {f}]
    /\ fid' = [fid EXCEPT ![f].req = "wait"]
    /\ UNCHANGED <<proc, owner, termed, chld_fd, notify>>

\* xflush of a read of "wait"
wait_flush(f) ==
    /\ Polls
    /\ fid[f].req = "wait"
    /\ LET s == fid[f].s
           x == [sess[s] EXCEPT !.waitreqs = @ \ {f}]
           y == IF fid[f].clunked THEN Unref(x, "wait") ELSE x
       IN  SetSession(s, y) /\ Kills(s, Settled(y))
    /\ fid' = [fid EXCEPT ![f] = FidAnswered(@)]
    /\ UNCHANGED <<proc, owner, chld_fd, notify>>

\* xflush of a write to "ctl".  The case that resets ctlreq names Qctl, the
\* control file of the server, so that of a session keeps its value.
sctl_flush(f) ==
    /\ Polls
    /\ "flushctl" \in Uses
    /\ fid[f].req = "ctl"
    /\ fid' = [fid EXCEPT ![f].req = "none"]
    /\ UNCHANGED <<sess, proc, owner, termed, chld_fd, notify>>

-----------------------------------------------------------------------------
(* Writes to "ctl": execute_session_command.  The commands signal, close,  *)
(* id and redirect leave this state alone.                                 *)

\* A write is refused while the answer to a clone command is due.
sctl_write(f) ==
    /\ Polls
    /\ fid[f].at = "ctl" /\ fid[f].req = "none"
    /\ sess[fid[f].s].ctlreq = NOFID

\* exec.  Nothing keeps a client from starting a second process.
xexec(f, p) ==
    /\ sctl_write(f)
    /\ LET s == fid[f].s IN
       /\ sess[s].state # "Wiped"
       /\ "reexec" \in Uses \/ sess[s].pid = NOPID
       /\ proc[p] = "none"
       /\ sess' = [sess EXCEPT ![s] = [session_incref(@) EXCEPT !.state = "Running",
                                                                !.pid = p]]
       /\ owner' = [owner EXCEPT ![p] = s]
    /\ proc' = [proc EXCEPT ![p] = "running"]
    /\ UNCHANGED <<fid, termed, chld_fd, notify>>

\* Mutant: the reads are taken off the list and not answered.
AnsweredNone(s) == fid

\* The answers to the reads of "wait" of s: the fids among them that were
\* clunked leave the session, to which another reference is left.
Answered(s) == [f \in Fids |-> IF f \in sess[s].waitreqs THEN FidAnswered(fid[f]) ELSE fid[f]]

Clunked(s) == Cardinality({f \in sess[s].waitreqs : fid[f].clunked})

wipe(f) ==
    /\ sctl_write(f)
    /\ LET s == fid[f].s IN
       /\ sess[s].state # "Wiped"
       /\ fid' = Answered(s)
       /\ SetSession(s, session_wipe([sess[s] EXCEPT !.refcount = @ - Clunked(s)]))
       /\ Kills(s, session_wipe(sess[s]))
    /\ UNCHANGED <<proc, owner, chld_fd, notify>>

type(f, mode) ==
    /\ sctl_write(f)
    /\ mode = "Persistent" => "persistent" \in Uses
    /\ sess' = [sess EXCEPT ![fid[f].s].mode = mode]
    /\ UNCHANGED <<fid, proc, owner, termed, chld_fd, notify>>

\* clone: the answer comes when tspawn has copied the session.
tspawn(f) ==
    /\ sctl_write(f)
    /\ sess' = [sess EXCEPT ![fid[f].s].ctlreq = f]
    /\ fid' = [fid EXCEPT ![f].req = "ctl"]
    /\ UNCHANGED <<proc, owner, termed, chld_fd, notify>>

\* tspawn_done, sctl_execute_commands.  The reply to a request that was flushed
\* meanwhile goes nowhere that this model knows of.
tspawn_done(s) ==
    /\ Polls
    /\ sess[s].ctlreq # NOFID
    /\ sess' = [sess EXCEPT ![s].ctlreq = NOFID]
    /\ fid' = [f \in Fids |->
                 IF f = sess[s].ctlreq /\ fid[f].s = s /\ fid[f].req = "ctl"
                    THEN FidAnswered(fid[f]) ELSE fid[f]]
    /\ UNCHANGED <<proc, owner, termed, chld_fd, notify>>

-----------------------------------------------------------------------------
(* Processes                                                               *)

\* A child exits, and sigchld_handler closes the pipe.
sigchld_handler(p) ==
    /\ proc[p] = "running"
    /\ proc' = [proc EXCEPT ![p] = "zombie"]
    /\ chld_fd' = FALSE
    /\ UNCHANGED <<sess, fid, owner, termed, notify>>

\* sigchld_notify closes the read end, then makes a new pipe, then reaps.
Steps == <<"setup", "reap">>

Advance == notify' = IF notify = Len(Steps) THEN 0 ELSE notify + 1

sigchld_notify ==
    /\ Polls
    /\ ~chld_fd
    /\ Advance
    /\ UNCHANGED <<sess, fid, proc, owner, termed, chld_fd>>

sigchld_setup_pipe ==
    /\ ~Polls /\ Steps[notify] = "setup"
    /\ chld_fd' = TRUE
    /\ Advance
    /\ UNCHANGED <<sess, fid, proc, owner, termed>>

\* Mutant: the end of the process makes a wiped session finished.
EndedAnyway(x) == [x EXCEPT !.state = "Finished", !.pid = NOPID, !.waitreqs = {}]

\* The end of the process of a session
Ended(x) == [x EXCEPT !.state = IF @ = "Wiped" THEN @ ELSE "Finished",
                      !.pid = NOPID, !.waitreqs = {}]

waitpid(p) ==
    /\ ~Polls /\ Steps[notify] = "reap"
    /\ proc[p] = "zombie"
    /\ proc' = [proc EXCEPT ![p] = "none"]
    /\ owner' = [owner EXCEPT ![p] = NOSESSION]
    /\ termed' = termed \ {p}
    /\ \/ /\ \A s \in Sessions : sess[s].pid # p
          /\ UNCHANGED <<sess, fid>>
       \/ \E s \in Sessions :
             /\ sess[s].pid = p
             /\ fid' = Answered(s)
             /\ SetSession(s, session_decref(
                    [Ended(sess[s]) EXCEPT !.refcount = @ - Clunked(s)]))
    /\ UNCHANGED <<chld_fd, notify>>

\* Mutant: waitpid is not called until it finds no child.
sigchld_done_early ==
    /\ ~Polls /\ Steps[notify] = "reap"
    /\ Advance
    /\ UNCHANGED <<sess, fid, proc, owner, termed, chld_fd>>

\* waitpid finds no child that has exited.
sigchld_done ==
    /\ ~Polls /\ Steps[notify] = "reap"
    /\ \A p \in Pids : proc[p] # "zombie"
    /\ Advance
    /\ UNCHANGED <<sess, fid, proc, owner, termed, chld_fd>>

-----------------------------------------------------------------------------
Init ==
    /\ sess = [s \in Sessions |-> NoSession]
    /\ fid = [f \in Fids |-> NoFid]
    /\ proc = [p \in Pids |-> "none"]
    /\ owner = [p \in Pids |-> NOSESSION]
    /\ termed = {}
    /\ chld_fd = TRUE
    /\ notify = 0

Message(f) ==
    \/ attach(f)
    \/ \E s \in Sessions : clone_openfid(f, s)
    \/ \E g \in Fids, s \in Sessions, at \in Places : WalkFromRoot(f, g, s, at)
    \/ \E g \in Fids, at \in Places : WalkFromSession(f, g, at)
    \/ clunk(f)
    \/ wait_read(f)
    \/ wait_flush(f)
    \/ sctl_flush(f)
    \/ \E p \in Pids : xexec(f, p)
    \/ wipe(f)
    \/ \E mode \in {"Normal", "Persistent"} : type(f, mode)
    \/ tspawn(f)

Notify ==
    \/ sigchld_notify
    \/ sigchld_setup_pipe
    \/ \E p \in Pids : waitpid(p)
    \/ sigchld_done

Next ==
    \/ \E f \in Fids : Message(f)
    \/ \E s \in Sessions : tspawn_done(s)
    \/ \E p \in Pids : sigchld_handler(p)
    \/ Notify

Spec == Init /\ [][Next]_vars

\* The poll loop serves its descriptors, and a process ends when it is told to.
Fairness ==
    /\ WF_vars(Notify)
    /\ \A p \in Pids : WF_vars(p \in termed /\ sigchld_handler(p))

FairSpec == Spec /\ Fairness

-----------------------------------------------------------------------------
(* Properties                                                              *)

TypeOK ==
    /\ sess \in [Sessions -> Xsession]
    /\ fid \in [Fids -> Xfid]
    /\ proc \in [Pids -> {"none", "running", "zombie"}]
    /\ owner \in [Pids -> Sessions \cup {NOSESSION}]
    /\ termed \subseteq Pids
    /\ chld_fd \in BOOLEAN
    /\ notify \in 0..Len(Steps)

FidsOf(s) == {f \in Fids : fid[f].s = s}

ProcsOf(s) == {p \in Pids : owner[p] = s}

\* A session counts exactly what refers to it: its fids, those that are only
\* held by a queued read of "wait" included, and its process until it is reaped.
SessionRefcount ==
    \A s \in Sessions :
        sess[s].refcount = Cardinality(FidsOf(s)) + Cardinality(ProcsOf(s))

\* The directory of a session, which owns the session, counts exactly its entry
\* in the root, its files and its fids: the session is not freed under a fid or
\* a process, and wiping it, by hand or at the last reference, happens once.
SrootRefcount ==
    \A s \in Sessions : Exists(s) =>
        sess[s].sref = 1 + (IF sess[s].listed THEN NFiles ELSE 0)
                         + Cardinality({f \in FidsOf(s) : fid[f].at = "dir"})

\* A read of "wait" never sleeps through the end of the session, whichever of
\* the exit of the process, a wipe, a flush and a clunk comes first; and what
\* the session has queued is what its clients wait for.
WaitEnds ==
    /\ \A s \in Sessions : sess[s].waitreqs # {} =>
          sess[s].state \in {"Initializing", "Running"}
    /\ \A f \in Fids : fid[f].req = "wait" <=>
          \E s \in Sessions : f \in sess[s].waitreqs
    /\ \A s \in Sessions : \A f \in sess[s].waitreqs : fid[f].s = s

\* man/man4/xcpufs.t2m:76-78: "Normal sessions will disappear once all files in
\* their session directories are closed and there are no more binaries running."
NormalDisappears ==
    \A s \in Sessions :
        (Exists(s) /\ sess[s].mode = "Normal") => FidsOf(s) # {} \/ ProcsOf(s) # {}

\* man/man4/xcpufs.t2m:78-79: "Persistent sessions will remain until explicitly
\* wipe-d."  A session that the root directory lists is there.
PersistentRemains ==
    \A s \in Sessions : sess[s].listed => Exists(s)

\* The SIGCHLD pipe loses no child: while a child waits to be reaped, the poll
\* loop has a hangup to see, or sigchld_notify has not looked for the last time.
NoChildLost ==
    (\E p \in Pids : proc[p] = "zombie") => ~Polls \/ ~chld_fd

\* A wiped session that no client holds on to ends with its process.
WipedGoes ==
    \A s \in Sessions :
        (sess[s].state = "Wiped") ~> (sess[s].state # "Wiped" \/ FidsOf(s) # {})

\* A read of "wait" is answered, or flushed, once the process of the session has
\* exited, whatever the server is doing when the signal comes.
WaitReturns ==
    \A f \in Fids, p \in Pids :
        (fid[f].req = "wait" /\ proc[p] = "zombie" /\ sess[fid[f].s].pid = p)
            ~> fid[f].req # "wait"

=============================================================================
