----------------------------- MODULE Bjs_proofs -----------------------------
(***************************************************************************)
(* Proofs about the scheduler bjs, for any number of jobs, nodes, crashes  *)
(* and changes of the cluster: no accepted job is lost, no job that is not *)
(* restartable runs twice, no node has two jobs, the plans of the policies *)
(* are of their types, and a job starts with the nodes it asked for.       *)
(***************************************************************************)
EXTENDS Bjs, FiniteSetTheorems, WellFoundedInduction, TLAPS

-----------------------------------------------------------------------------
(* The inductive invariant.                                                *)

\* The part of the type invariant the proofs need.
DaemonTypeOK ==
    /\ job \in [Ids -> Job \cup {NoJob}]
    /\ job_id \in 0..MaxId
    /\ spool \in [Ids -> Reqs \cup {NoFile, Torn}]
    /\ ran \in [Ids -> 0..2]
    /\ owed \in SUBSET Ids
    /\ pass \in [rest : SUBSET Ids, cur : Ids \cup {-1}, se : {pass.se},
                 places : {pass.places}, idx : {pass.idx}]
    /\ DOMAIN pass.places \subseteq Nat

Restartable(req) == req.kind = "restartable"

\* The file of a job is what the job asked for, and it goes before a job that is not
\* restartable runs: so that a file of such a job means that it did not run.
FileInv(j) ==
    /\ spool[j] \in Reqs => Restartable(spool[j]) \/ ran[j] = 0
    /\ j \in owed => spool[j] \in Reqs
    /\ (pc # "down" /\ j \in Jobs /\ spool[j] \in Reqs) => spool[j] = job[j].req

\* A job that waits did not run unless it was restarted; one that started, but for the
\* one that is being started, ran at most once.
RunInv(j) ==
    /\ j \in Waiting => Restartable(job[j].req) \/ ran[j] = 0
    /\ j \in Jobs => Restartable(job[j].req) \/ ran[j] <= 1
    /\ (pc # "down" /\ j \in owed) => j \in Waiting
    /\ (pc \in {"pass", "fork"} /\ j \in pass.rest) => j \in Waiting

\* The job being started, whose file is gone unless it is restartable.
CurInv ==
    pc = "fork" =>
        /\ pass.cur \in Started
        /\ Restartable(job[pass.cur].req) \/ (ran[pass.cur] = 0 /\ spool[pass.cur] = NoFile)

\* The job being saved, and the IDs that are still to be given.
IdInv ==
    /\ pc = "save" => job_id - 1 \in Waiting
    /\ pc # "down" => \A j \in Ids : j >= job_id =>
                          job[j] = NoJob /\ spool[j] = NoFile /\ ran[j] = 0

\* No two jobs have a node in common.
NodeInv ==
    policy # "shared" =>
        \A i, j \in Started : i # j => job[i].nodes \cap job[j].nodes = {}

IInv ==
    /\ DaemonTypeOK
    /\ \A j \in Ids : FileInv(j) /\ RunInv(j)
    /\ CurInv
    /\ IdInv
    /\ NodeInv

-----------------------------------------------------------------------------
(* Lemmas.                                                                 *)

\* A set of natural numbers has a least element, the one Min chooses.
LEMMA MinLemma ==
    ASSUME NEW S \in SUBSET Nat, S # {}
    PROVE  /\ Min(S) \in S
           /\ \A x \in S : Min(S) <= x
  <1>1. \E x \in S : \A y \in S : ~(<<y, x>> \in OpToRel(<, Nat))
    BY NatLessThanWellFounded, WFMin, Zenon
  <1>2. PICK x \in S : \A y \in S : ~(<<y, x>> \in OpToRel(<, Nat))
    BY <1>1, Zenon
  <1>3. ASSUME NEW y \in S
        PROVE  x <= y
    <2>1. ~(<<y, x>> \in {ss \in Nat \X Nat : ss[1] < ss[2]})
      BY <1>2 DEF OpToRel
    <2> QED
      BY <2>1
  <1>4. \E z \in S : \A y \in S : z <= y
    BY <1>3
  <1> QED
    BY <1>4 DEF Min

\* A bounded one has a greatest element, the one Max chooses.
LEMMA MaxLemma ==
    ASSUME NEW S, S # {}, NEW n \in Nat, S \subseteq 0..n
    PROVE  /\ Max(S) \in S
           /\ \A x \in S : x <= Max(S)
  <1> DEFINE T == {i \in 0..n : n - i \in S}
  <1>1. T \in SUBSET Nat /\ T # {}
    <2>1. PICK s \in S : TRUE
      OBVIOUS
    <2>2. s \in 0..n /\ n - s \in 0..n /\ n - (n - s) = s
      OBVIOUS
    <2>3. n - s \in T
      BY <2>1, <2>2
    <2>4. T \subseteq Nat
      OBVIOUS
    <2> QED
      BY <2>3, <2>4
  <1>2. Min(T) \in T /\ \A x \in T : Min(T) <= x
    BY <1>1, MinLemma
  <1> DEFINE m == n - Min(T)
  <1>3. m \in S
    BY <1>2
  <1>4. ASSUME NEW x \in S
        PROVE  m >= x
    <2>1. n - x \in T
      BY n - (n - x) = x
    <2> QED
      BY <1>2, <2>1
  <1>5. \E x \in S : \A y \in S : x >= y
    BY <1>3, <1>4
  <1> HIDE DEF m, T
  <1>6. Max(S) \in S /\ \A y \in S : Max(S) >= y
    BY <1>5 DEF Max
  <1> QED
    BY <1>6

\* The marks for no job and for a file that can not be loaded are none of the others.
LEMMA Marks ==
    /\ NoJob \notin Job
    /\ NoFile \notin Reqs /\ Torn \notin Reqs /\ NoFile # Torn
  <1>1. \A x \in Job : x.state # "none"
    BY DEF Job
  <1>2. NoJob.state = "none"
    BY DEF NoJob
  <1>3. NoFile # Torn
    BY DEF NoFile, Torn
  <1>4. \A x \in Reqs : "state" \notin DOMAIN x
    BY DEF Reqs
  <1>5. "state" \in DOMAIN NoFile /\ "state" \in DOMAIN Torn
    BY DEF NoFile, Torn
  <1> QED
    BY <1>1, <1>2, <1>3, <1>4, <1>5

\* A job that is queued.
LEMMA QueueType ==
    ASSUME NEW req \in Reqs
    PROVE  /\ Queue(req) \in Job
           /\ Queue(req).state = "queued" /\ Queue(req).req = req
  BY DEF Queue, Job, Reqs

\* The record of a job, and what the changes of one field of it leave alone.
LEMMA JobRecord ==
    ASSUME NEW x \in Job
    PROVE  x.req \in Reqs /\ x.left \in Nat
  BY DEF Job

\* update_cluster_status takes the nodes.
LEMMA JobNodes ==
    ASSUME NEW x \in Job, NEW nodes \in SUBSET Nat
    PROVE  /\ [x EXCEPT !.nodes = nodes] \in Job
           /\ [x EXCEPT !.nodes = nodes].state = x.state
           /\ [x EXCEPT !.nodes = nodes].req = x.req
           /\ [x EXCEPT !.nodes = nodes].nodes = nodes
  BY DEF Job

\* Time goes by.
LEMMA JobLeft ==
    ASSUME NEW x \in Job, NEW n \in Nat
    PROVE  /\ [x EXCEPT !.left = n] \in Job
           /\ [x EXCEPT !.left = n].state = x.state
           /\ [x EXCEPT !.left = n].req = x.req
           /\ [x EXCEPT !.left = n].nodes = x.nodes
  BY DEF Job

\* The child is forked.
LEMMA JobProcess ==
    ASSUME NEW x \in Job
    PROVE  /\ [x EXCEPT !.process = TRUE] \in Job
           /\ [x EXCEPT !.process = TRUE].state = x.state
           /\ [x EXCEPT !.process = TRUE].req = x.req
           /\ [x EXCEPT !.process = TRUE].nodes = x.nodes
  BY DEF Job

\* The job is started on nodes.
LEMMA JobStart ==
    ASSUME NEW x \in Job, NEW nodes \in SUBSET Nat
    PROVE  /\ [x EXCEPT !.state = "started", !.nodes = nodes] \in Job
           /\ [x EXCEPT !.state = "started", !.nodes = nodes].state = "started"
           /\ [x EXCEPT !.state = "started", !.nodes = nodes].req = x.req
           /\ [x EXCEPT !.state = "started", !.nodes = nodes].nodes = nodes
  BY DEF Job

LEMMA JobStarted ==
    ASSUME NEW nodes \in SUBSET Nat
    PROVE  \A x \in Job :
               /\ [x EXCEPT !.state = "started", !.nodes = nodes] \in Job
               /\ [x EXCEPT !.state = "started", !.nodes = nodes].state = "started"
               /\ [x EXCEPT !.state = "started", !.nodes = nodes].req = x.req
               /\ [x EXCEPT !.state = "started", !.nodes = nodes].nodes = nodes
  BY JobStart

\* client_submit_job gives an ID that no job and no file has.
LEMMA Step_client_submit_job ==
    ASSUME BjsAssumption, IInv, NEW req \in Submissions, client_submit_job(req)
    PROVE  IInv'
  <1> USE Marks DEF IInv, client_submit_job
  <1>0. /\ req \in Reqs /\ Queue(req) \in Job
        /\ Queue(req).state = "queued" /\ Queue(req).req = req
        /\ job_id \in Ids /\ job_id' - 1 = job_id /\ job_id' \in 0..MaxId
    <2>1. req \in Reqs
      BY DEF BjsAssumption, Reqs
    <2>2. /\ Queue(req) \in Job
          /\ Queue(req).state = "queued" /\ Queue(req).req = req
      BY <2>1, QueueType
    <2>3. job_id \in Ids /\ job_id' - 1 = job_id /\ job_id' \in 0..MaxId
      <3>1. job_id < MaxId /\ job_id' = job_id + 1 /\ job_id \in 0..MaxId /\ MaxId \in Nat
        BY DEF BjsAssumption, DaemonTypeOK
      <3> HIDE DEF client_submit_job
      <3> QED
        BY <3>1 DEF Ids
    <2> QED
      BY <2>1, <2>2, <2>3
  <1>1. DaemonTypeOK'
    BY <1>0 DEF DaemonTypeOK
  <1>2. ASSUME NEW j \in Ids
        PROVE  FileInv(j)'
    BY <1>0 DEF DaemonTypeOK, FileInv, RunInv, CurInv, IdInv,
           Jobs, Started, Waiting, Restartable
  <1>3. ASSUME NEW j \in Ids
        PROVE  RunInv(j)'
    BY <1>0 DEF DaemonTypeOK, FileInv, RunInv, CurInv, IdInv,
           Jobs, Started, Waiting, Restartable
  <1>4. CurInv'
    BY <1>0 DEF DaemonTypeOK, FileInv, RunInv, CurInv, IdInv,
           Jobs, Started, Waiting, Restartable
  <1>5. IdInv'
    <2>1. job_id \in Waiting' \/ pc' = "io"
      BY <1>0 DEF DaemonTypeOK, Waiting, Jobs
    <2>2. ASSUME NEW j \in Ids, j >= job_id'
          PROVE  job'[j] = NoJob /\ spool'[j] = NoFile /\ ran'[j] = 0
      <3>1. j >= job_id /\ j # job_id
        BY <1>0, <2>2 DEF DaemonTypeOK, Ids
      <3> QED
        BY <3>1 DEF DaemonTypeOK, IdInv
    <2> QED
      BY <1>0, <2>1, <2>2 DEF IdInv
  <1>6. NodeInv'
    <2>1. Started' = Started /\ \A j \in Started : job'[j] = job[j]
      BY <1>0 DEF DaemonTypeOK, IdInv, Started, Jobs
    <2> QED
      BY <2>1 DEF NodeInv
  <1> QED
    BY <1>1, <1>2, <1>3, <1>4, <1>5, <1>6

\* persistent_job_add writes the file of the job that waits to be saved.
LEMMA Step_persistent_job_add ==
    ASSUME BjsAssumption, IInv, persistent_job_add
    PROVE  IInv'
  <1> USE Marks DEF IInv, persistent_job_add
  <1>0. job_id - 1 \in Ids /\ job[job_id - 1] \in Job /\ job[job_id - 1].req \in Reqs
    <2>1. job_id - 1 \in Ids /\ job[job_id - 1] \in Job
      BY DEF DaemonTypeOK, IdInv, Waiting, Jobs
    <2> QED
      BY <2>1, JobRecord
  <1>1. DaemonTypeOK'
    BY <1>0 DEF DaemonTypeOK
  <1>2. ASSUME NEW j \in Ids
        PROVE  FileInv(j)'
    BY <1>0 DEF DaemonTypeOK, FileInv, RunInv, CurInv, IdInv,
           Jobs, Started, Waiting, Restartable
  <1>3. ASSUME NEW j \in Ids
        PROVE  RunInv(j)'
    BY DEF DaemonTypeOK, FileInv, RunInv, CurInv, IdInv, Jobs, Started, Waiting, Restartable
  <1>4. CurInv'
    BY DEF DaemonTypeOK, FileInv, RunInv, CurInv, IdInv, Jobs, Started, Waiting, Restartable
  <1>5. IdInv'
    BY DEF DaemonTypeOK, FileInv, RunInv, CurInv, IdInv, Jobs, Started, Waiting, Restartable
  <1>6. NodeInv'
    BY DEF DaemonTypeOK, NodeInv, Jobs, Started
  <1> QED
    BY <1>1, <1>2, <1>3, <1>4, <1>5, <1>6

\* update_cluster_status takes the nodes of every job.
LEMMA Step_update_cluster_status ==
    ASSUME BjsAssumption, IInv, NEW c \in Clusters, update_cluster_status(c)
    PROVE  IInv'
  <1> USE Marks DEF IInv, update_cluster_status
  <1>0. ASSUME NEW j \in Ids
        PROVE  \/ /\ j \in Jobs /\ job[j] \in Job /\ job'[j] \in Job
                  /\ job'[j].state = job[j].state /\ job'[j].req = job[j].req
                  /\ job'[j].nodes = {}
               \/ j \notin Jobs /\ job[j] = NoJob /\ job'[j] = NoJob
    <2>1. CASE job[j] = NoJob
      BY <2>1 DEF Jobs
    <2>2. CASE job[j] # NoJob
      <3>1. j \in Jobs /\ job[j] \in Job
        BY <2>2 DEF DaemonTypeOK, Jobs
      <3>2. job'[j] = [job[j] EXCEPT !.nodes = {}]
        BY <3>1
      <3> QED
        BY <3>1, <3>2, JobNodes, {} \in SUBSET Nat
    <2> QED
      BY <2>1, <2>2
  <1>1. DaemonTypeOK'
    BY <1>0 DEF DaemonTypeOK
  <1>2. ASSUME NEW j \in Ids
        PROVE  FileInv(j)'
    BY <1>0 DEF DaemonTypeOK, FileInv, RunInv, CurInv, IdInv,
           Jobs, Started, Waiting, Restartable
  <1>3. ASSUME NEW j \in Ids
        PROVE  RunInv(j)'
    BY <1>0 DEF DaemonTypeOK, FileInv, RunInv, CurInv, IdInv,
           Jobs, Started, Waiting, Restartable
  <1>4. CurInv'
    BY <1>0 DEF DaemonTypeOK, FileInv, RunInv, CurInv, IdInv,
           Jobs, Started, Waiting, Restartable
  <1>5. IdInv'
    BY <1>0 DEF DaemonTypeOK, FileInv, RunInv, CurInv, IdInv,
           Jobs, Started, Waiting, Restartable
  <1>6. NodeInv'
    BY <1>0 DEF NodeInv, Jobs, Started
  <1> QED
    BY <1>1, <1>2, <1>3, <1>4, <1>5, <1>6

\* A second changes neither states nor nodes.
LEMMA Step_Tick ==
    ASSUME BjsAssumption, IInv, Tick
    PROVE  IInv'
  <1> USE Marks DEF IInv, Tick
  <1>0. ASSUME NEW j \in Ids
        PROVE  \/ /\ j \in Jobs /\ job[j] \in Job /\ job'[j] \in Job
                  /\ job'[j].state = job[j].state /\ job'[j].req = job[j].req
                  /\ job'[j].nodes = job[j].nodes
               \/ j \notin Jobs /\ job[j] = NoJob /\ job'[j] = NoJob
    <2>1. CASE job[j] = NoJob
      BY <2>1 DEF Jobs, Started
    <2>2. CASE job[j] # NoJob
      <3>1. j \in Jobs /\ job[j] \in Job /\ job[j].left \in Nat
        BY <2>2, JobRecord DEF DaemonTypeOK, Jobs
      <3>2. CASE job[j].left > 0 /\ j \in Started
        <4>1. job[j].left - 1 \in Nat
          BY <3>1, <3>2
        <4>2. job'[j] = [job[j] EXCEPT !.left = job[j].left - 1]
          BY <3>2
        <4> QED
          BY <3>1, <4>1, <4>2, JobLeft
      <3>3. CASE ~(job[j].left > 0 /\ j \in Started)
        BY <3>1, <3>3
      <3> QED
        BY <3>2, <3>3
    <2> QED
      BY <2>1, <2>2
  <1>1. DaemonTypeOK'
    BY <1>0 DEF DaemonTypeOK
  <1>2. ASSUME NEW j \in Ids
        PROVE  FileInv(j)'
    BY <1>0 DEF DaemonTypeOK, FileInv, RunInv, CurInv, IdInv,
           Jobs, Started, Waiting, Restartable
  <1>3. ASSUME NEW j \in Ids
        PROVE  RunInv(j)'
    BY <1>0 DEF DaemonTypeOK, FileInv, RunInv, CurInv, IdInv,
           Jobs, Started, Waiting, Restartable
  <1>4. CurInv'
    BY <1>0 DEF DaemonTypeOK, FileInv, RunInv, CurInv, IdInv,
           Jobs, Started, Waiting, Restartable
  <1>5. IdInv'
    BY <1>0 DEF DaemonTypeOK, FileInv, RunInv, CurInv, IdInv,
           Jobs, Started, Waiting, Restartable
  <1>6. NodeInv'
    BY <1>0 DEF NodeInv, Jobs, Started
  <1> QED
    BY <1>1, <1>2, <1>3, <1>4, <1>5, <1>6

\* A call of the schedule callback starts.
LEMMA Step_Schedule ==
    ASSUME BjsAssumption, IInv, Schedule
    PROVE  IInv'
  <1> USE Marks DEF IInv, Schedule
  <1>1. DaemonTypeOK'
    BY DEF DaemonTypeOK, NoPass
  <1>2. ASSUME NEW j \in Ids
        PROVE  FileInv(j)'
    BY DEF DaemonTypeOK, FileInv, RunInv, CurInv, IdInv, Jobs, Started, Waiting, Restartable
  <1>3. ASSUME NEW j \in Ids
        PROVE  RunInv(j)'
    BY DEF DaemonTypeOK, FileInv, RunInv, CurInv, IdInv, Jobs, Started, Waiting, Restartable
  <1>4. CurInv'
    BY DEF DaemonTypeOK, FileInv, RunInv, CurInv, IdInv, Jobs, Started, Waiting, Restartable
  <1>5. IdInv'
    BY DEF DaemonTypeOK, FileInv, RunInv, CurInv, IdInv, Jobs, Started, Waiting, Restartable
  <1>6. NodeInv'
    BY DEF DaemonTypeOK, NodeInv, Jobs, Started
  <1> QED
    BY <1>1, <1>2, <1>3, <1>4, <1>5, <1>6

\* bjs_job_remove, called by a client, for a child that exited or for one whose time is up.
LEMMA Remove ==
    ASSUME IInv, NEW k, bjs_job_remove(k), pc \in {"io", "expire"},
           UNCHANGED <<policy, job_id, pc, pass>>
    PROVE  IInv'
  <1> USE Marks DEF IInv, bjs_job_remove
  <1>1. DaemonTypeOK'
    <2>1. job' \in [Ids -> Job \cup {NoJob}]
      BY DEF DaemonTypeOK
    <2>2. spool' \in [Ids -> Reqs \cup {NoFile, Torn}]
      BY DEF DaemonTypeOK
    <2>3. owed' \in SUBSET Ids
      BY DEF DaemonTypeOK
    <2>4. ran' \in [Ids -> 0..2]
      <3>1. ran' = [ran EXCEPT ![k] = 0] /\ ran \in [Ids -> 0..2] /\ 0 \in 0..2
        BY DEF DaemonTypeOK
      <3> QED
        BY <3>1, Zenon
    <2> QED
      BY <2>1, <2>2, <2>3, <2>4 DEF DaemonTypeOK
  <1>2. ASSUME NEW j \in Ids
        PROVE  FileInv(j)'
    BY DEF DaemonTypeOK, FileInv, RunInv, CurInv, IdInv, Jobs, Started, Waiting, Restartable
  <1>3. ASSUME NEW j \in Ids
        PROVE  RunInv(j)'
    BY DEF DaemonTypeOK, FileInv, RunInv, CurInv, IdInv, Jobs, Started, Waiting, Restartable
  <1>4. CurInv'
    BY DEF DaemonTypeOK, FileInv, RunInv, CurInv, IdInv, Jobs, Started, Waiting, Restartable
  <1>5. IdInv'
    BY DEF DaemonTypeOK, FileInv, RunInv, CurInv, IdInv, Jobs, Started, Waiting, Restartable
  <1>6. NodeInv'
    BY DEF DaemonTypeOK, NodeInv, Jobs, Started
  <1> QED
    BY <1>1, <1>2, <1>3, <1>4, <1>5, <1>6

\* A policy looks only at jobs that wait.
LEMMA Step_BeginPass ==
    ASSUME BjsAssumption, IInv, BeginPass
    PROVE  IInv'
  <1> USE Marks DEF IInv, BeginPass
  <1>0. /\ pass'.rest = Runnable /\ pass'.cur = -1 /\ DOMAIN pass'.places \subseteq Nat
        /\ Runnable \subseteq Waiting /\ Waiting \subseteq Ids
        /\ pass' \in [rest : SUBSET Ids, cur : Ids \cup {-1}, se : {pass'.se},
                      places : {pass'.places}, idx : {pass'.idx}]
    <2>1. Up \subseteq Nat
      BY DEF Up, Nodes, BjsAssumption
    <2>2. Runnable \subseteq Waiting /\ Waiting \subseteq Ids
      BY DEF Runnable, Waiting, Jobs
    <2>3. DOMAIN pass'.places \subseteq Nat
      BY <2>1
    <2> QED
      BY <2>2, <2>3
  <1>1. DaemonTypeOK'
    BY <1>0 DEF DaemonTypeOK
  <1>2. ASSUME NEW j \in Ids
        PROVE  FileInv(j)'
    BY DEF DaemonTypeOK, FileInv, RunInv, CurInv, IdInv, Jobs, Started, Waiting, Restartable
  <1>3. ASSUME NEW j \in Ids
        PROVE  RunInv(j)'
    <2>1. (pc' \in {"pass", "fork"} /\ j \in pass'.rest) => j \in Waiting'
      BY <1>0 DEF Waiting, Jobs
    <2> QED
      BY <2>1 DEF DaemonTypeOK, FileInv, RunInv, CurInv, IdInv,
             Jobs, Started, Waiting, Restartable
  <1>4. CurInv'
    BY DEF DaemonTypeOK, FileInv, RunInv, CurInv, IdInv, Jobs, Started, Waiting, Restartable
  <1>5. IdInv'
    BY DEF DaemonTypeOK, FileInv, RunInv, CurInv, IdInv, Jobs, Started, Waiting, Restartable
  <1>6. NodeInv'
    BY DEF DaemonTypeOK, NodeInv, Jobs, Started
  <1> QED
    BY <1>1, <1>2, <1>3, <1>4, <1>5, <1>6

\* A job with a place in the queue is started: its file goes unless it is restartable.
LEMMA Start ==
    ASSUME IInv, NEW k \in pass.rest, NEW nodes \in SUBSET Nat, bjs_start_job(k, nodes),
           policy # "shared" => \A i \in Started : nodes \cap job[i].nodes = {},
           pc = "pass", pass'.rest = pass.rest \ {k}, pass'.cur = k,
           pass' \in [rest : SUBSET Ids, cur : Ids \cup {-1}, se : {pass'.se},
                      places : {pass'.places}, idx : {pass'.idx}],
           DOMAIN pass'.places \subseteq Nat,
           UNCHANGED <<policy, job_id, ran>>
    PROVE  IInv'
  <1> USE Marks DEF IInv
  <1>0. /\ k \in Ids /\ k \in Waiting /\ job[k] \in Job /\ job[k] # NoJob
        /\ job[k].state = "queued"
    BY DEF DaemonTypeOK, RunInv, Waiting, Jobs
  <1>a. /\ job'[k] = [job[k] EXCEPT !.state = "started", !.nodes = nodes]
        /\ \A i \in Ids \ {k} : job'[i] = job[i]
        /\ job' = [i \in Ids |-> job'[i]]
    BY <1>0 DEF bjs_start_job, DaemonTypeOK
  <1>b. /\ job'[k] \in Job /\ job'[k] # NoJob /\ job'[k].state = "started"
        /\ job'[k].req = job[k].req /\ job'[k].nodes = nodes
    <2> DEFINE x == job[k]
    <2>1. x \in Job
      BY <1>0
    <2>2. /\ [x EXCEPT !.state = "started", !.nodes = nodes] \in Job
          /\ [x EXCEPT !.state = "started", !.nodes = nodes].state = "started"
          /\ [x EXCEPT !.state = "started", !.nodes = nodes].req = x.req
          /\ [x EXCEPT !.state = "started", !.nodes = nodes].nodes = nodes
      BY <2>1, JobStarted
    <2> QED
      BY <1>a, <2>2
  <1>c. /\ \A i \in Ids \ {k} : spool'[i] = spool[i]
        /\ IF Restartable(job[k].req) THEN spool'[k] = spool[k] ELSE spool'[k] = NoFile
        /\ spool' = [i \in Ids |-> spool'[i]]
    BY <1>0 DEF bjs_start_job, StartedFile, Restartable, DaemonTypeOK
  <1>d. owed' = owed \ {k} /\ pc' = "fork"
    BY DEF bjs_start_job
  <1>1. DaemonTypeOK'
    <2>1. \A i \in Ids : job'[i] \in Job \cup {NoJob}
      BY <1>a, <1>b DEF DaemonTypeOK
    <2>2. \A i \in Ids : spool'[i] \in Reqs \cup {NoFile, Torn}
      BY <1>c DEF DaemonTypeOK
    <2>3. job' \in [Ids -> Job \cup {NoJob}] /\ spool' \in [Ids -> Reqs \cup {NoFile, Torn}]
      BY <1>a, <1>c, <2>1, <2>2
    <2> QED
      BY <1>d, <2>3 DEF DaemonTypeOK
  <1>2. ASSUME NEW j \in Ids
        PROVE  FileInv(j)'
    <2>1. CASE j = k
      <3>1. CASE Restartable(job[k].req)
        BY <1>0, <1>b, <1>c, <1>d, <2>1, <3>1 DEF FileInv, Restartable, Jobs
      <3>2. CASE ~Restartable(job[k].req)
        BY <1>c, <1>d, <2>1, <3>2 DEF FileInv
      <3> QED
        BY <3>1, <3>2
    <2>2. CASE j # k
      BY <1>a, <1>c, <1>d, <2>2 DEF FileInv, Restartable, Jobs
    <2> QED
      BY <2>1, <2>2
  <1>3. ASSUME NEW j \in Ids
        PROVE  RunInv(j)'
    <2>1. CASE j = k
      BY <1>0, <1>b, <1>d, <2>1 DEF RunInv, Restartable, Jobs, Waiting
    <2>2. CASE j # k
      BY <1>a, <1>d, <2>2 DEF RunInv, Restartable, Jobs, Waiting
    <2> QED
      BY <2>1, <2>2
  <1>4. CurInv'
    BY <1>0, <1>b, <1>c DEF CurInv, RunInv, Restartable, Jobs, Started
  <1>5. IdInv'
    BY <1>0, <1>a, <1>c, <1>d DEF IdInv, Jobs, Waiting
  <1>6. NodeInv'
    <2>1. ASSUME NEW i \in Ids, i \in Started'
          PROVE  i = k \/ (i \in Started /\ job'[i] = job[i])
      BY <1>a, <2>1 DEF Started, Jobs
    <2>2. Started' \subseteq Ids
      BY DEF Started, Jobs
    <2> QED
      BY <1>b, <2>1, <2>2 DEF NodeInv
  <1> QED
    BY <1>1, <1>2, <1>3, <1>4, <1>5, <1>6

\* The nodes a policy that is not shared gives a job are those of no other.
LEMMA IdleNodes ==
    ASSUME NEW n
    PROVE  /\ Least(Idle, n) \in SUBSET Nat
           /\ MaxId \in Nat => \A i \in Started : Least(Idle, n) \cap job[i].nodes = {}
  <1>1. Least(Idle, n) \subseteq Idle
    BY DEF Least
  <1>2. Idle \subseteq Nat
    BY DEF Idle, Nodes
  <1>3. ASSUME MaxId \in Nat, NEW x \in Idle, NEW i \in Started
        PROVE  x \notin job[i].nodes
    <2> DEFINE S == {j \in Started : x \in job[j].nodes}
    <2>1. S \subseteq Ids
      BY DEF Started, Jobs
    <2>2. IsFiniteSet(Ids)
      BY <1>3, FS_Interval DEF Ids
    <2>3. IsFiniteSet(S)
      BY <2>1, <2>2, FS_Subset
    <2>4. Cardinality(S) = 0
      BY DEF Idle, bjs_node_idle, Load
    <2>5. S = {}
      BY <2>3, <2>4, FS_EmptySet, Zenon
    <2> QED
      BY <2>5
  <1> QED
    BY <1>1, <1>2, <1>3

\* Of the jobs of the pass some are passed over.
LEMMA PassOver ==
    ASSUME IInv, pc = "pass", pass'.rest \subseteq pass.rest,
           pass' \in [rest : SUBSET Ids, cur : Ids \cup {-1}, se : {pass'.se},
                      places : {pass'.places}, idx : {pass'.idx}],
           DOMAIN pass'.places \subseteq Nat,
           UNCHANGED <<policy, job, job_id, spool, pc, owed, ran>>
    PROVE  IInv'
  <1> USE DEF IInv
  <1>1. DaemonTypeOK'
    BY DEF DaemonTypeOK
  <1>2. ASSUME NEW j \in Ids
        PROVE  FileInv(j)' /\ RunInv(j)'
    BY DEF FileInv, RunInv, Jobs, Waiting, Restartable
  <1>3. CurInv' /\ IdInv' /\ NodeInv'
    BY DEF CurInv, IdInv, NodeInv, Jobs, Started, Waiting
  <1> QED
    BY <1>1, <1>2, <1>3

\* The job a policy looks at is one of the pass.
LEMMA FirstOfPass ==
    ASSUME DaemonTypeOK, BjsAssumption, pass.rest # {}
    PROVE  Min(pass.rest) \in pass.rest /\ Min(pass.rest) \in Ids
  <1>1. pass.rest \in SUBSET Ids /\ pass.rest \in SUBSET Nat
    BY DEF DaemonTypeOK, Ids, BjsAssumption
  <1> QED
    BY <1>1, MinLemma

\* The job that is started runs for the first time, unless it is restartable.
LEMMA Step_start_job ==
    ASSUME BjsAssumption, IInv, start_job
    PROVE  IInv'
  <1> USE Marks DEF IInv, start_job
  <1>0. /\ pass.cur \in Ids /\ job[pass.cur] \in Job /\ job[pass.cur].state = "started"
        /\ ran[pass.cur] \in 0..2
    BY DEF DaemonTypeOK, CurInv, Started, Jobs
  <1>a. \/ job' = job
        \/ job' = [job EXCEPT ![pass.cur].process = TRUE]
    OBVIOUS
  <1>b. /\ job' \in [Ids -> Job \cup {NoJob}]
        /\ \A i \in Ids : job[i] = NoJob <=> job'[i] = NoJob
        /\ \A i \in Ids : job[i] # NoJob =>
              /\ job'[i].state = job[i].state /\ job'[i].req = job[i].req
              /\ job'[i].nodes = job[i].nodes
    <2>1. CASE job' = job
      BY <2>1 DEF DaemonTypeOK
    <2>2. CASE job' = [job EXCEPT ![pass.cur].process = TRUE]
      <3>1. /\ job'[pass.cur] = [job[pass.cur] EXCEPT !.process = TRUE]
            /\ \A i \in Ids \ {pass.cur} : job'[i] = job[i]
            /\ DOMAIN job' = Ids /\ job' = [i \in Ids |-> job'[i]]
        BY <1>0, <2>2 DEF DaemonTypeOK
      <3>2. /\ job'[pass.cur] \in Job
            /\ job'[pass.cur].state = job[pass.cur].state
            /\ job'[pass.cur].req = job[pass.cur].req
            /\ job'[pass.cur].nodes = job[pass.cur].nodes
        BY <1>0, <3>1, JobProcess
      <3> HIDE DEF start_job
      <3>3. ASSUME NEW i \in Ids
            PROVE  /\ job'[i] \in Job \cup {NoJob}
                   /\ job[i] = NoJob <=> job'[i] = NoJob
                   /\ job[i] # NoJob =>
                         /\ job'[i].state = job[i].state /\ job'[i].req = job[i].req
                         /\ job'[i].nodes = job[i].nodes
        <4>1. CASE i = pass.cur
          BY <1>0, <3>2, <4>1
        <4>2. CASE i # pass.cur
          BY <3>1, <4>2 DEF DaemonTypeOK
        <4> QED
          BY <4>1, <4>2
      <3> QED
        BY <3>1, <3>3
    <2> QED
      BY <1>a, <2>1, <2>2
  <1>c. /\ ran' \in [Ids -> 0..2]
        /\ \A i \in Ids : i # pass.cur => ran'[i] = ran[i]
        /\ ran[pass.cur] = 0 => ran'[pass.cur] <= 1
    <2>1. /\ Min({ran[pass.cur] + 1, 2}) \in 0..2
          /\ ran[pass.cur] = 0 => Min({ran[pass.cur] + 1, 2}) = 1
      <3>1. {ran[pass.cur] + 1, 2} \in SUBSET Nat
        BY <1>0
      <3> QED
        BY <1>0, <3>1, MinLemma
    <2> QED
      BY <1>0, <2>1 DEF DaemonTypeOK
  <1>d. pc = "fork" /\ pc' = "pass" /\ UNCHANGED <<policy, job_id, spool, pass, owed>>
    OBVIOUS
  <1> HIDE DEF start_job
  <1>1. DaemonTypeOK'
    BY <1>b, <1>c, <1>d DEF DaemonTypeOK
  <1>2. ASSUME NEW j \in Ids
        PROVE  FileInv(j)'
    BY <1>0, <1>b, <1>c, <1>d DEF DaemonTypeOK, FileInv, RunInv, CurInv, IdInv,
           Jobs, Started, Waiting, Restartable
  <1>3. ASSUME NEW j \in Ids
        PROVE  RunInv(j)'
    BY <1>0, <1>b, <1>c, <1>d DEF DaemonTypeOK, FileInv, RunInv, CurInv, IdInv,
           Jobs, Started, Waiting, Restartable
  <1>4. CurInv'
    BY <1>d DEF CurInv
  <1>5. IdInv'
    <2>1. ASSUME NEW j \in Ids, j >= job_id
          PROVE  j # pass.cur
      BY <1>0, <1>d, <2>1 DEF IdInv
    <2> QED
      BY <1>b, <1>c, <1>d, <2>1 DEF IdInv
  <1>6. NodeInv'
    BY <1>b, <1>d DEF NodeInv, Started, Jobs
  <1> QED
    BY <1>1, <1>2, <1>3, <1>4, <1>5, <1>6

\* A call of the schedule callback ends.
LEMMA Step_EndPass ==
    ASSUME BjsAssumption, IInv, EndPass
    PROVE  IInv'
  <1> USE Marks DEF IInv, EndPass
  <1>1. DaemonTypeOK'
    BY DEF DaemonTypeOK, NoPass
  <1>2. ASSUME NEW j \in Ids
        PROVE  FileInv(j)'
    BY DEF DaemonTypeOK, FileInv, RunInv, CurInv, IdInv, Jobs, Started, Waiting, Restartable
  <1>3. ASSUME NEW j \in Ids
        PROVE  RunInv(j)'
    BY DEF DaemonTypeOK, FileInv, RunInv, CurInv, IdInv, Jobs, Started, Waiting, Restartable
  <1>4. CurInv'
    BY DEF DaemonTypeOK, FileInv, RunInv, CurInv, IdInv, Jobs, Started, Waiting, Restartable
  <1>5. IdInv'
    BY DEF DaemonTypeOK, FileInv, RunInv, CurInv, IdInv, Jobs, Started, Waiting, Restartable
  <1>6. NodeInv'
    BY DEF DaemonTypeOK, NodeInv, Jobs, Started
  <1> QED
    BY <1>1, <1>2, <1>3, <1>4, <1>5, <1>6

\* The daemon dies: the files are left, and the counts of runs.
LEMMA Step_Crash ==
    ASSUME BjsAssumption, IInv, Crash
    PROVE  IInv'
  <1> USE Marks DEF IInv, Crash
  <1>1. DaemonTypeOK'
    BY DEF DaemonTypeOK, NoPass
  <1>2. ASSUME NEW j \in Ids
        PROVE  FileInv(j)'
    BY DEF DaemonTypeOK, FileInv, RunInv, CurInv, IdInv, Jobs, Started, Waiting, Restartable
  <1>3. ASSUME NEW j \in Ids
        PROVE  RunInv(j)'
    BY DEF DaemonTypeOK, FileInv, RunInv, CurInv, IdInv, Jobs, Started, Waiting, Restartable
  <1>4. CurInv'
    BY DEF DaemonTypeOK, FileInv, RunInv, CurInv, IdInv, Jobs, Started, Waiting, Restartable
  <1>5. IdInv'
    BY DEF DaemonTypeOK, FileInv, RunInv, CurInv, IdInv, Jobs, Started, Waiting, Restartable
  <1>6. NodeInv'
    BY DEF DaemonTypeOK, NodeInv, Jobs, Started
  <1> QED
    BY <1>1, <1>2, <1>3, <1>4, <1>5, <1>6

\* The files that can be loaded are the jobs the daemon starts with.
LEMMA Step_persistent_job_load ==
    ASSUME BjsAssumption, IInv, NEW c \in Clusters, persistent_job_load(c)
    PROVE  IInv'
  <1> USE Marks DEF IInv, persistent_job_load
  <1>0. /\ NextId \in 0..MaxId
        /\ \A j \in Ids : j >= NextId => spool[j] = NoFile
    <2> DEFINE S == {0} \cup {j + 1 : j \in {i \in Ids : spool[i] # NoFile}}
    <2>1. S # {} /\ S \subseteq 0..MaxId /\ MaxId \in Nat
      BY DEF Ids, BjsAssumption
    <2>2. Max(S) \in S /\ \A x \in S : x <= Max(S)
      BY <2>1, MaxLemma, Zenon
    <2>3. NextId = Max(S)
      BY DEF NextId
    <2>4. ASSUME NEW j \in Ids, spool[j] # NoFile
          PROVE  j < NextId
      <3>1. j + 1 \in S
        BY <2>4
      <3>2. j + 1 <= NextId
        BY <2>2, <2>3, <3>1
      <3>3. NextId \in 0..MaxId
        BY <2>1, <2>2, <2>3
      <3> HIDE DEF S
      <3> QED
        BY <2>1, <3>2, <3>3 DEF Ids
    <2>5. NextId \in 0..MaxId
      BY <2>1, <2>2, <2>3
    <2> HIDE DEF S
    <2>6. ASSUME NEW j \in Ids, j >= NextId
          PROVE  spool[j] = NoFile
      BY <2>4, <2>5, <2>6 DEF Ids, BjsAssumption
    <2> QED
      BY <2>5, <2>6
  <1>a. ASSUME NEW j \in Ids
        PROVE  \/ /\ spool[j] \in Reqs /\ job'[j] \in Job /\ job'[j] # NoJob
                  /\ job'[j].state = "queued" /\ job'[j].req = spool[j]
                  /\ ran'[j] = ran[j]
               \/ spool[j] \in {NoFile, Torn} /\ job'[j] = NoJob /\ ran'[j] = 0
    BY QueueType DEF DaemonTypeOK, Loadable
  <1>b. /\ job' = [j \in Ids |-> job'[j]]
        /\ ran' = [j \in Ids |-> ran'[j]]
        /\ job_id' = NextId
        /\ pc' = "io" /\ UNCHANGED <<policy, spool, pass, owed>>
    OBVIOUS
  <1> HIDE DEF persistent_job_load
  <1>1. DaemonTypeOK'
    BY <1>0, <1>a, <1>b DEF DaemonTypeOK
  <1>2. ASSUME NEW j \in Ids
        PROVE  FileInv(j)'
    BY <1>a, <1>b DEF DaemonTypeOK, FileInv, RunInv, CurInv, IdInv,
           Jobs, Started, Waiting, Restartable
  <1>3. ASSUME NEW j \in Ids
        PROVE  RunInv(j)'
    BY <1>a, <1>b DEF DaemonTypeOK, FileInv, RunInv, CurInv, IdInv,
           Jobs, Started, Waiting, Restartable
  <1>4. CurInv'
    BY <1>b DEF CurInv
  <1>5. IdInv'
    BY <1>0, <1>a, <1>b DEF IdInv
  <1>6. NodeInv'
    BY <1>a, <1>b DEF NodeInv, Started, Jobs
  <1> QED
    BY <1>1, <1>2, <1>3, <1>4, <1>5, <1>6

\* simple_schedule gives idle nodes, or leaves the rest of the pass.
LEMMA Step_simple_schedule ==
    ASSUME BjsAssumption, IInv, simple_schedule
    PROVE  IInv'
  <1> DEFINE k == Min(pass.rest)
             n == job[k].req.nodes
  <1> USE DEF IInv
  <1>1. k \in pass.rest /\ k \in Ids /\ pc = "pass"
    BY FirstOfPass DEF simple_schedule
  <1>2. /\ UNCHANGED <<policy, job_id, ran>>
        /\ \/ /\ pass' = [pass EXCEPT !.rest = {}]
              /\ UNCHANGED <<job, spool, owed, pc>>
           \/ /\ pass' = [pass EXCEPT !.rest = @ \ {k}, !.cur = k]
              /\ bjs_start_job(k, Least(Idle, n))
    BY DEF simple_schedule
  <1> HIDE DEF k, n
  <1>3. CASE pass' = [pass EXCEPT !.rest = {}] /\ UNCHANGED <<job, spool, owed, pc>>
    <2>1. /\ pass'.rest \subseteq pass.rest /\ DOMAIN pass'.places \subseteq Nat
          /\ pass' \in [rest : SUBSET Ids, cur : Ids \cup {-1}, se : {pass'.se},
                       places : {pass'.places}, idx : {pass'.idx}]
      BY <1>3 DEF DaemonTypeOK
    <2> QED
      BY <1>1, <1>2, <1>3, <2>1, PassOver
  <1>4. CASE /\ pass' = [pass EXCEPT !.rest = @ \ {k}, !.cur = k]
             /\ bjs_start_job(k, Least(Idle, n))
    <2>1. /\ pass'.rest = pass.rest \ {k} /\ pass'.cur = k /\ DOMAIN pass'.places \subseteq Nat
          /\ pass' \in [rest : SUBSET Ids, cur : Ids \cup {-1}, se : {pass'.se},
                       places : {pass'.places}, idx : {pass'.idx}]
      BY <1>1, <1>4 DEF DaemonTypeOK
    <2>2. /\ Least(Idle, n) \in SUBSET Nat
          /\ \A i \in Started : Least(Idle, n) \cap job[i].nodes = {}
      BY IdleNodes DEF BjsAssumption
    <2> QED
      BY <1>1, <1>2, <1>4, <2>1, <2>2, Start
  <1> QED
    BY <1>2, <1>3, <1>4

\* filler_schedule gives idle nodes, or puts the job into its schedule.
LEMMA Step_filler_schedule ==
    ASSUME BjsAssumption, IInv, filler_schedule
    PROVE  IInv'
  <1> DEFINE k == Min(pass.rest)
             n == job[k].req.nodes
             se == Placed(k, find_hole(pass.se, job[k].req.secs, n))
  <1> USE DEF IInv
  <1>1. k \in pass.rest /\ k \in Ids /\ pc = "pass"
    BY FirstOfPass DEF filler_schedule
  <1>2. /\ UNCHANGED <<policy, job_id, ran>>
        /\ pass' = [pass EXCEPT !.rest = @ \ {k}, !.cur = k, !.se = se]
        /\ \/ UNCHANGED <<job, spool, owed, pc>>
           \/ bjs_start_job(k, Least(Idle, n))
    BY DEF filler_schedule
  <1> HIDE DEF k, n, se
  <1>3. /\ pass'.rest = pass.rest \ {k} /\ pass'.cur = k /\ DOMAIN pass'.places \subseteq Nat
        /\ pass' \in [rest : SUBSET Ids, cur : Ids \cup {-1}, se : {pass'.se},
                       places : {pass'.places}, idx : {pass'.idx}]
    BY <1>1, <1>2 DEF DaemonTypeOK
  <1>4. CASE UNCHANGED <<job, spool, owed, pc>>
    BY <1>1, <1>2, <1>3, <1>4, PassOver
  <1>5. CASE bjs_start_job(k, Least(Idle, n))
    <2>1. /\ Least(Idle, n) \in SUBSET Nat
          /\ \A i \in Started : Least(Idle, n) \cap job[i].nodes = {}
      BY IdleNodes DEF BjsAssumption
    <2> QED
      BY <1>1, <1>2, <1>3, <1>5, <2>1, Start
  <1> QED
    BY <1>2, <1>4, <1>5

\* shared_schedule gives nodes of the list it has made of those that are up.
LEMMA Step_shared_schedule ==
    ASSUME BjsAssumption, IInv, shared_schedule
    PROVE  IInv'
  <1> DEFINE k == Min(pass.rest)
             n == job[k].req.nodes
             size == Cardinality(DOMAIN pass.places)
             nodes == {x \in DOMAIN pass.places : (pass.places[x] - pass.idx) % size < n}
  <1> USE DEF IInv
  <1>1. k \in pass.rest /\ k \in Ids /\ pc = "pass" /\ policy = "shared"
    BY FirstOfPass DEF shared_schedule
  <1>2. /\ UNCHANGED <<policy, job_id, ran>>
        /\ pass' = [pass EXCEPT !.rest = @ \ {k}, !.cur = k, !.idx = After(n)]
        /\ bjs_start_job(k, nodes)
    BY DEF shared_schedule
  <1>3. nodes \in SUBSET Nat
    BY DEF DaemonTypeOK
  <1> HIDE DEF k, n, nodes
  <1>4. /\ pass'.rest = pass.rest \ {k} /\ pass'.cur = k /\ DOMAIN pass'.places \subseteq Nat
        /\ pass' \in [rest : SUBSET Ids, cur : Ids \cup {-1}, se : {pass'.se},
                       places : {pass'.places}, idx : {pass'.idx}]
    BY <1>1, <1>2 DEF DaemonTypeOK
  <1> QED
    BY <1>1, <1>2, <1>3, <1>4, Start

-----------------------------------------------------------------------------
(* Theorems.                                                               *)

\* The daemon starts with an empty spool directory.
LEMMA InitIInv ==
    ASSUME BjsAssumption, Init
    PROVE  IInv
  <1>1. DaemonTypeOK
    BY DEF Init, DaemonTypeOK, NoPass, BjsAssumption
  <1>2. Jobs = {} /\ Started = {} /\ Waiting = {}
    BY DEF Init, Jobs, Started, Waiting
  <1>3. \A j \in Ids : spool[j] = NoFile /\ ran[j] = 0 /\ job[j] = NoJob
    BY DEF Init
  <1> QED
    BY <1>1, <1>2, <1>3, Marks DEF Init, IInv, FileInv, RunInv, CurInv, IdInv, NodeInv

\* Every step keeps the invariant.
LEMMA NextIInv ==
    ASSUME BjsAssumption, IInv, [Next]_vars
    PROVE  IInv'
  <1>1. CASE Loop
    <2>1. CASE Expire
      BY <2>1, Remove DEF Expire
    <2> QED
      BY <1>1, <2>1, Step_persistent_job_add, Step_Schedule, Step_BeginPass,
         Step_simple_schedule, Step_shared_schedule, Step_filler_schedule, Step_start_job,
         Step_EndPass, Step_persistent_job_load DEF Loop
  <1>2. ASSUME NEW req \in Submissions, client_submit_job(req)
        PROVE  IInv'
    BY <1>2, Step_client_submit_job
  <1>3. ASSUME NEW j \in Ids, client_remove_job(j) \/ client_destroy(j) \/ wait_on_children(j)
        PROVE  IInv'
    BY <1>3, Remove DEF client_remove_job, client_destroy, wait_on_children
  <1>4. ASSUME NEW c \in Clusters, update_cluster_status(c)
        PROVE  IInv'
    BY <1>4, Step_update_cluster_status
  <1>5. CASE Tick
    BY <1>5, Step_Tick
  <1>6. CASE Crash
    BY <1>6, Step_Crash
  <1>7. CASE UNCHANGED vars
    BY <1>7 DEF vars, IInv, DaemonTypeOK, FileInv, RunInv, CurInv, IdInv, NodeInv,
                Jobs, Started, Waiting
  <1> QED
    BY <1>1, <1>2, <1>3, <1>4, <1>5, <1>6, <1>7 DEF Next

\* The inductive invariant holds in every reachable state of bjs.c's main loop, with
\* its crashes and restarts.
THEOREM BjsInvariant == Spec => []IInv
  <1>1. Init => IInv
    BY InitIInv, BjsAssumption
  <1>2. IInv /\ [Next]_vars => IInv'
    BY NextIInv, BjsAssumption
  <1> QED
    BY <1>1, <1>2, PTL DEF Spec

\* A batch job whose client was told ok survives every crash of the daemon until it is
\* started or removed: persistent_job_add comes before the answer, and a file goes only
\* with its job or with the start.
THEOREM BjsAcceptedSurvives == Spec => []AcceptedSurvives
  <1>1. IInv => AcceptedSurvives
    BY DEF IInv, DaemonTypeOK, FileInv, RunInv, AcceptedSurvives
  <1> QED
    BY <1>1, BjsInvariant, PTL

\* No job that is not restartable runs twice: bjs_start_job unlinks its file before the
\* fork, and job IDs of files are not given again (persistent_job_load).
THEOREM BjsRunsOnce == Spec => []RunsOnce
  <1>1. IInv => RunsOnce
    BY DEF IInv, RunInv, RunsOnce, Jobs, Restartable
  <1> QED
    BY <1>1, BjsInvariant, PTL

\* A set without two members has at most one.
LEMMA AtMostOne ==
    ASSUME NEW S, IsFiniteSet(S), \A x, y \in S : x = y
    PROVE  Cardinality(S) <= 1
  <1>1. CASE S = {}
    BY <1>1, FS_EmptySet
  <1>2. CASE S # {}
    <2>1. PICK x : S = {x}
      BY <1>2
    <2> QED
      BY <2>1, FS_Singleton
  <1> QED
    BY <1>1, <1>2

\* Under simple and filler no node ever has two jobs: bjs_node_allocate is asked only for
\* nodes without jobs (bjs_node_idle), whatever the pool, the cluster and the jobs are.
THEOREM BjsNodeExclusive == Spec => []NodeExclusive
  <1>1. IInv => NodeExclusive
    <2> SUFFICES ASSUME IInv, policy # "shared", NEW n \in 1..PoolNodes
                 PROVE  Load(n) <= 1
      BY DEF NodeExclusive
    <2> DEFINE S == {j \in Started : n \in job[j].nodes}
    <2>1. \A i, j \in S : i = j
      BY DEF IInv, NodeInv
    <2>2. S \subseteq Ids
      BY DEF Started, Jobs
    <2>3. IsFiniteSet(Ids)
      BY BjsAssumption, FS_Interval DEF Ids, BjsAssumption
    <2>4. IsFiniteSet(S)
      BY <2>2, <2>3, FS_Subset
    <2>5. Load(n) = Cardinality(S)
      BY DEF Load
    <2> HIDE DEF S
    <2> QED
      BY <2>1, <2>4, <2>5, AtMostOne
  <1> QED
    BY <1>1, BjsInvariant, PTL

-----------------------------------------------------------------------------
(* The nodes a job gets: lemmas.                                           *)

\* Of a set with that many members, Least takes n.
LEMMA LeastCount ==
    ASSUME NEW S \in SUBSET Nat, IsFiniteSet(S), NEW n \in Nat, n <= Cardinality(S)
    PROVE  IsFiniteSet(Least(S, n)) /\ Cardinality(Least(S, n)) = n
  <1> DEFINE Below(x) == {y \in S : y < x}
             B == {k \in Nat : k <= Cardinality(S) /\ Cardinality(Least(S, k)) # k}
  <1>1. \A k : Least(S, k) = {x \in S : Cardinality(Below(x)) < k}
    BY DEF Least
  <1>2. Cardinality(S) \in Nat /\ \A x : IsFiniteSet(Below(x)) /\ Cardinality(Below(x)) \in Nat
    <2>1. \A x : Below(x) \in SUBSET S
      OBVIOUS
    <2> HIDE DEF Below
    <2> QED
      BY <2>1, FS_Subset, FS_CardinalityType
  <1>3. \A k : Least(S, k) \subseteq S /\ IsFiniteSet(Least(S, k))
    <2> HIDE DEF Below
    <2>1. \A k : Least(S, k) \in SUBSET S
      BY <1>1
    <2> QED
      BY <2>1, FS_Subset
  <1>4. ASSUME B # {}
        PROVE  FALSE
    <2>1. PICK b \in B : \A k \in B : b <= k
      BY <1>4, MinLemma
    <2>2. b # 0
      <3>1. Least(S, 0) = {}
        <4> HIDE DEF Below
        <4> QED
          BY <1>1, <1>2
      <3> QED
        BY <2>1, <3>1, FS_EmptySet
    <2>3. PICK a \in Nat : b = a + 1
      <3>1. b - 1 \in Nat /\ b = (b - 1) + 1
        BY <2>1, <2>2
      <3> QED
        BY <3>1
    <2>4. Cardinality(Least(S, a)) = a /\ a < Cardinality(S)
      BY <1>2, <2>1, <2>3
    <2> DEFINE A == Least(S, a)
    <2>5. A \subseteq S /\ IsFiniteSet(A) /\ Cardinality(A) = a /\ A # S
      BY <1>2, <1>3, <2>4
    <2>6. \A x \in S : x \in A <=> Cardinality(Below(x)) < a
      BY <1>1
    <2>7. \A x \in S : x \in Least(S, b) <=> Cardinality(Below(x)) < a + 1
      BY <1>1, <2>3
    <2> HIDE DEF A, B
    <2>8. PICK m \in S \ A : \A y \in S \ A : m <= y
      <3>1. S \ A \in SUBSET Nat /\ S \ A # {}
        BY <2>5
      <3> QED
        BY <3>1, MinLemma
    <2>9. ASSUME NEW y \in A
          PROVE  y < m
      <3> SUFFICES ASSUME ~(y < m) PROVE FALSE
        OBVIOUS
      <3>1. Below(m) \in SUBSET Below(y)
        <4>1. m \in S /\ y \in S
          BY <2>5
        <4>2. ASSUME NEW z \in S, z < m
              PROVE  z < y
          BY <4>1, <4>2
        <4> QED
          BY <4>2
      <3>2. Cardinality(Below(m)) <= Cardinality(Below(y))
        <4> HIDE DEF Below
        <4> QED
          BY <1>2, <3>1, FS_Subset
      <3> HIDE DEF Below
      <3>3. Cardinality(Below(m)) < a
        BY <1>2, <2>5, <2>6, <3>2
      <3> QED
        BY <2>6, <2>8, <3>3
    <2>10. Below(m) = A
      <3>1. ASSUME NEW y \in S, y < m
            PROVE  y \in A
        BY <2>8, <3>1
      <3> QED
        BY <2>5, <2>9, <3>1
    <2>11. ASSUME NEW y \in S, y \notin A, y # m
           PROVE  y \notin Least(S, b)
      <3>1. m < y
        BY <2>8, <2>11
      <3>2. A \cup {m} \in SUBSET Below(y)
        BY <2>5, <2>8, <2>9, <3>1
      <3> HIDE DEF Below
      <3>3. Cardinality(A \cup {m}) <= Cardinality(Below(y))
        BY <1>2, <3>2, FS_Subset
      <3>4. Cardinality(A \cup {m}) = a + 1
        BY <2>5, <2>8, FS_AddElement
      <3> QED
        BY <1>2, <2>7, <3>3, <3>4
    <2> HIDE DEF Below
    <2>12. Least(S, b) = A \cup {m}
      <3>1. \A y \in A : y \in Least(S, b)
        BY <1>2, <2>5, <2>6, <2>7
      <3>2. m \in Least(S, b)
        BY <2>5, <2>7, <2>8, <2>10
      <3> QED
        BY <1>3, <2>11, <3>1, <3>2
    <2>13. Cardinality(A \cup {m}) = a + 1
      BY <2>5, <2>8, FS_AddElement
    <2>14. b \in B => Cardinality(Least(S, b)) # b
      BY DEF B
    <2> QED
      BY <2>1, <2>3, <2>12, <2>13, <2>14
  <1>5. n \notin B
    BY <1>4
  <1> QED
    BY <1>3, <1>5

\* Whatever the number, Least does not take more.
LEMMA LeastBound ==
    ASSUME NEW S \in SUBSET Nat, IsFiniteSet(S)
    PROVE  \A n : IsFiniteSet(Least(S, n))
  <1>1. \A n : Least(S, n) \in SUBSET S
    BY DEF Least
  <1> QED
    BY <1>1, FS_Subset

\* The remainder of a number near zero
LEMMA Remainder ==
    ASSUME NEW s \in Nat, s > 0, NEW a \in Int, -s <= a, a < s
    PROVE  a % s = IF a >= 0 THEN a ELSE a + s
  OBVIOUS

\* Of the places 0..s - 1, those that come next from idx on: they are n.
Following(s, idx, n) == {q \in 0..(s - 1) : (q - idx) % s < n}

LEMMA NextPlaces ==
    ASSUME NEW s \in Nat, NEW idx \in 0..(s - 1), NEW n \in 0..s
    PROVE  LET Q == Following(s, idx, n)
           IN  IsFiniteSet(Q) /\ Cardinality(Q) = n
  <1> DEFINE Q == Following(s, idx, n)
  <1>1. \A q \in 0..(s - 1) : (q - idx) % s = IF q >= idx THEN q - idx ELSE q - idx + s
    <2> SUFFICES ASSUME NEW q \in 0..(s - 1)
                 PROVE  (q - idx) % s = IF q >= idx THEN q - idx ELSE q - idx + s
      OBVIOUS
    <2>1. PICK a \in Int : a = q - idx
      OBVIOUS
    <2>2. s > 0 /\ -s <= a /\ a < s /\ (a >= 0 <=> q >= idx)
      BY <2>1
    <2>3. a % s = IF a >= 0 THEN a ELSE a + s
      BY <2>2, Remainder
    <2> QED
      BY <2>1, <2>2, <2>3
  <1>2. Q = {q \in 0..(s - 1) : IF q >= idx THEN q - idx < n ELSE q - idx + s < n}
    BY <1>1 DEF Following
  <1> HIDE DEF Q
  <1>3. CASE idx + n <= s
    <2>1. Q = idx..(idx + n - 1)
      BY <1>2, <1>3
    <2>2. idx \in Int /\ idx + n - 1 \in Int
      OBVIOUS
    <2> QED
      <3>1. IsFiniteSet(Q) /\ Cardinality(Q) = n
        BY <2>1, <2>2, FS_Interval
      <3> QED
        BY <3>1 DEF Q
  <1>4. CASE ~(idx + n <= s)
    <2> DEFINE X == idx..(s - 1)
               Y == 0..(idx + n - s - 1)
    <2>1. Q = X \cup Y
      BY <1>2, <1>4
    <2>2. X \cap Y = {}
      OBVIOUS
    <2>3. IsFiniteSet(X) /\ Cardinality(X) = s - idx
      BY FS_Interval
    <2>4. IsFiniteSet(Y) /\ Cardinality(Y) = idx + n - s
      <3>1. 0 \in Int /\ idx + n - s - 1 \in Int
        OBVIOUS
      <3> QED
        BY <1>4, <3>1, FS_Interval
    <2> HIDE DEF X, Y
    <2>5. IsFiniteSet(Q) /\ Cardinality(Q) = (s - idx) + (idx + n - s) - 0
      BY <2>1, <2>2, <2>3, <2>4, FS_Union, FS_EmptySet
    <2> QED
      BY <2>5 DEF Q
  <1> QED
    BY <1>3, <1>4

\* shared_schedule: the nodes at the next n places are n.
LEMMA NextNodes ==
    ASSUME NEW D, IsFiniteSet(D), NEW s \in Nat, s = Cardinality(D),
           NEW p \in Injection(D, 0..(s - 1)), NEW idx \in 0..(s - 1), NEW n \in 0..s
    PROVE  LET X == {x \in D : (p[x] - idx) % s < n}
           IN  IsFiniteSet(X) /\ Cardinality(X) = n
  <1> DEFINE X == {x \in D : (p[x] - idx) % s < n}
             Q == Following(s, idx, n)
             f == [q \in X |-> p[q]]
  <1>1. IsFiniteSet(0..(s - 1)) /\ Cardinality(0..(s - 1)) = s
    BY FS_Interval
  <1>2. p \in Surjection(D, 0..(s - 1))
    BY <1>1, FS_Injection
  <1>3. f \in Bijection(X, Q)
    <2>1. /\ p \in [D -> 0..(s - 1)]
          /\ \A x, y \in D : p[x] = p[y] => x = y
          /\ \A q \in 0..(s - 1) : \E x \in D : p[x] = q
      BY <1>2 DEF Injection, IsInjective, Surjection
    <2>2. \A x \in X : x \in D /\ f[x] = p[x] /\ p[x] \in Q
      BY <2>1 DEF Following
    <2>3. \A q \in Q : \E x \in X : p[x] = q
      BY <2>1 DEF Following
    <2> HIDE DEF X, Q
    <2>4. f \in [X -> Q]
      BY <2>2
    <2> QED
      BY <2>1, <2>2, <2>3, <2>4 DEF Bijection, Injection, IsInjective, Surjection
  <1>4. IsFiniteSet(Q) /\ Cardinality(Q) = n
    BY NextPlaces
  <1>5. IsFiniteSet(X)
    <2>1. X \in SUBSET D
      OBVIOUS
    <2> HIDE DEF X
    <2> QED
      BY <2>1, FS_Subset
  <1> HIDE DEF X, Q, f
  <1>6. ExistsBijection(X, Q)
    BY <1>3 DEF ExistsBijection
  <1>7. Cardinality(X) = n
    BY <1>4, <1>5, <1>6, FS_Bijection
  <1> QED
    BY <1>5, <1>7 DEF X

\* What a job that was accepted asks for.
Asking(req) == req.nodes \in 1..PoolNodes /\ req.secs > 0

\* The nodes are numbered, and there is an end to them.
LEMMA NodeNumbers ==
    ASSUME BjsAssumption
    PROVE  /\ Up \in SUBSET Nat /\ Idle \in SUBSET Up
           /\ IsFiniteSet(Up) /\ Cardinality(Up) \in 0..PoolNodes
           /\ IsFiniteSet(Idle) /\ Cardinality(Idle) \in Nat
           /\ IsFiniteSet(Ids) /\ PoolNodes \in Nat /\ MaxId \in Nat
  <1>1. PoolNodes \in Nat /\ MaxId \in Nat
    BY DEF BjsAssumption
  <1>2. Up \in SUBSET (1..PoolNodes) /\ Idle \in SUBSET Up
    BY DEF Up, Idle, Nodes, bjs_node_idle
  <1>3. IsFiniteSet(1..PoolNodes) /\ Cardinality(1..PoolNodes) = PoolNodes
    BY <1>1, FS_Interval
  <1>4. IsFiniteSet(Up) /\ Cardinality(Up) <= PoolNodes /\ Cardinality(Up) \in Nat
    BY <1>2, <1>3, FS_Subset, FS_CardinalityType
  <1>5. IsFiniteSet(Idle) /\ Cardinality(Idle) \in Nat
    BY <1>2, <1>4, FS_Subset, FS_CardinalityType
  <1>6. IsFiniteSet(Ids)
    BY <1>1, FS_Interval DEF Ids
  <1> QED
    BY <1>1, <1>2, <1>4, <1>5, <1>6

\* The jobs on a node can be counted.
LEMMA LoadNumber ==
    ASSUME BjsAssumption, NEW n
    PROVE  /\ Load(n) \in Nat
           /\ Load(n) = 0 <=> \A j \in Started : n \notin job[j].nodes
  <1> DEFINE S == {j \in Started : n \in job[j].nodes}
  <1>1. S \in SUBSET Ids
    BY DEF Started, Jobs
  <1>2. Load(n) = Cardinality(S) /\ (S = {} <=> \A j \in Started : n \notin job[j].nodes)
    BY DEF Load
  <1> HIDE DEF S
  <1>3. IsFiniteSet(S)
    BY <1>1, NodeNumbers, FS_Subset
  <1> QED
    BY <1>2, <1>3, FS_CardinalityType, FS_EmptySet

\* shared_schedule: the nodes that are up have places of their own.
LEMMA Places ==
    ASSUME BjsAssumption
    PROVE  [n \in Up |-> Place(n)] \in Injection(Up, 0..(Cardinality(Up) - 1))
  <1> DEFINE Ahead(n) == {m \in Up : Load(m) < Load(n) \/ (Load(m) = Load(n) /\ m < n)}
             s == Cardinality(Up)
  <1>1. \A n : Place(n) = Cardinality(Ahead(n))
    BY DEF Place
  <1>2. Up \in SUBSET Nat /\ IsFiniteSet(Up) /\ s \in Nat /\ \A n : Load(n) \in Nat
    BY NodeNumbers, LoadNumber
  <1>3. \A n : IsFiniteSet(Ahead(n)) /\ Cardinality(Ahead(n)) \in Nat
    <2>1. \A n : Ahead(n) \in SUBSET Up
      OBVIOUS
    <2> HIDE DEF Ahead
    <2> QED
      BY <1>2, <2>1, FS_Subset, FS_CardinalityType
  <1>4. ASSUME NEW n \in Up
        PROVE  Place(n) \in 0..(s - 1)
    <2>1. Ahead(n) \in SUBSET (Up \ {n})
      BY <1>2
    <2>2. IsFiniteSet(Up \ {n}) /\ Cardinality(Up \ {n}) = s - 1
      BY <1>2, FS_RemoveElement
    <2> HIDE DEF Ahead
    <2>3. Cardinality(Ahead(n)) <= s - 1
      BY <2>1, <2>2, FS_Subset
    <2> QED
      BY <1>1, <1>2, <1>3, <2>3
  <1>5. ASSUME NEW n \in Up, NEW m \in Up, m \in Ahead(n)
        PROVE  Place(m) # Place(n)
    <2>1. Ahead(m) \cup {m} \in SUBSET Ahead(n) /\ m \notin Ahead(m)
      <3>1. Load(m) \in Nat /\ Load(n) \in Nat /\ m \in Nat /\ n \in Nat
        BY <1>2
      <3>2. Load(m) < Load(n) \/ (Load(m) = Load(n) /\ m < n)
        BY <1>5
      <3>3. ASSUME NEW k \in Up, Load(k) < Load(m) \/ (Load(k) = Load(m) /\ k < m)
            PROVE  Load(k) < Load(n) \/ (Load(k) = Load(n) /\ k < n)
        <4>1. Load(k) \in Nat /\ k \in Nat
          BY <1>2
        <4> QED
          BY <3>1, <3>2, <3>3, <4>1
      <3>4. Ahead(m) \subseteq Ahead(n)
        BY <3>3
      <3>5. m \notin Ahead(m)
        BY <3>1
      <3> QED
        BY <1>5, <3>4, <3>5
    <2> HIDE DEF Ahead
    <2>2. Cardinality(Ahead(m) \cup {m}) = Cardinality(Ahead(m)) + 1
      BY <1>3, <2>1, FS_AddElement
    <2>3. Cardinality(Ahead(m) \cup {m}) <= Cardinality(Ahead(n))
      BY <1>3, <2>1, FS_Subset
    <2> QED
      BY <1>1, <1>3, <2>2, <2>3
  <1>6. ASSUME NEW n \in Up, NEW m \in Up, m # n
        PROVE  m \in Ahead(n) \/ n \in Ahead(m)
    BY <1>2, <1>6
  <1>7. \A n, m \in Up : Place(n) = Place(m) => n = m
    BY <1>5, <1>6
  <1> QED
    BY <1>4, <1>7 DEF Injection, IsInjective

\* What finitely many jobs ask for is finite.
LEMMA AskedFinite ==
    ASSUME BjsAssumption, NEW J \in SUBSET Ids, \A j \in J : Asking(job[j].req)
    PROVE  IsFiniteSet(Asked(J)) /\ Cardinality(Asked(J)) \in Nat
  <1>1. Asked(J) \in SUBSET (Ids \X (1..PoolNodes))
    <2> SUFFICES ASSUME NEW j \in J
                 PROVE  {j} \X (1..job[j].req.nodes) \subseteq Ids \X (1..PoolNodes)
      BY DEF Asked
    <2>1. PICK r \in 1..PoolNodes : r = job[j].req.nodes
      BY DEF Asking
    <2>2. 1..r \subseteq 1..PoolNodes
      BY NodeNumbers
    <2> QED
      BY <2>1, <2>2
  <1>2. IsFiniteSet(1..PoolNodes)
    BY NodeNumbers, FS_Interval
  <1>3. IsFiniteSet(Ids \X (1..PoolNodes))
    BY <1>2, NodeNumbers, FS_Product
  <1> QED
    BY <1>1, <1>3, FS_Subset, FS_CardinalityType

\* Jobs that have no more nodes than they asked for have together no more than that.
LEMMA AskedCovers ==
    ASSUME BjsAssumption, NEW J \in SUBSET Ids, \A j \in J : Asking(job[j].req),
           \A j \in J : /\ IsFiniteSet(job[j].nodes)
                        /\ Cardinality(job[j].nodes) <= job[j].req.nodes
    PROVE  LET V == UNION {job[j].nodes : j \in J}
           IN  IsFiniteSet(V) /\ Cardinality(V) <= Cardinality(Asked(J))
  <1> DEFINE V == UNION {job[j].nodes : j \in J}
             Numbering(j) == {f \in [job[j].nodes -> 1..job[j].req.nodes] :
                                 \A x, y \in job[j].nodes : f[x] = f[y] => x = y}
             number(j) == CHOOSE f \in Numbering(j) : TRUE
             of(x) == CHOOSE j \in J : x \in job[j].nodes
             pair(x) == <<of(x), number(of(x))[x]>>
             g == [x \in V |-> pair(x)]
  <1>1. ASSUME NEW j \in J
        PROVE  number(j) \in Numbering(j)
    <2>1. PICK N : N = job[j].nodes
      OBVIOUS
    <2>2. PICK r \in 1..PoolNodes : r = job[j].req.nodes
      BY DEF Asking
    <2>3. IsFiniteSet(N) /\ Cardinality(N) <= r /\ Cardinality(N) \in Nat
      BY <2>1, <2>2, FS_CardinalityType
    <2>4. IsFiniteSet(1..Cardinality(N)) /\ Cardinality(1..Cardinality(N)) = Cardinality(N)
      BY <2>3, FS_Interval
    <2>5. ExistsBijection(N, 1..Cardinality(N))
      BY <2>3, <2>4, FS_SameCardinalityBij
    <2>6. PICK f \in Bijection(N, 1..Cardinality(N)) : TRUE
      BY <2>5 DEF ExistsBijection
    <2>7. f \in [N -> 1..Cardinality(N)] /\ \A x, y \in N : f[x] = f[y] => x = y
      BY <2>6 DEF Bijection, Injection, IsInjective, Surjection
    <2>8. 1..Cardinality(N) \subseteq 1..r
      BY <2>2, <2>3, NodeNumbers
    <2>9. f \in Numbering(j)
      BY <2>1, <2>2, <2>7, <2>8
    <2> HIDE DEF Numbering
    <2> QED
      BY <2>9
  <1>2. ASSUME NEW x \in V
        PROVE  of(x) \in J /\ x \in job[of(x)].nodes
    BY <1>2
  <1>3. ASSUME NEW x \in V
        PROVE  number(of(x))[x] \in 1..job[of(x)].req.nodes
    <2>1. PICK j \in J : j = of(x)
      BY <1>2
    <2>2. x \in job[j].nodes
      BY <1>2, <2>1
    <2>3. number(j) \in Numbering(j)
      BY <1>1
    <2> HIDE DEF number, of
    <2>4. number(j)[x] \in 1..job[j].req.nodes
      BY <2>2, <2>3
    <2> QED
      BY <2>1, <2>4
  <1>4. ASSUME NEW x \in V
        PROVE  pair(x) \in Asked(J)
    <2> HIDE DEF number, of
    <2>1. PICK j \in J : j = of(x)
      BY <1>2
    <2>2. <<j, number(j)[x]>> \in {j} \X (1..job[j].req.nodes)
      BY <1>3, <2>1
    <2> QED
      BY <2>1, <2>2 DEF Asked
  <1>5. ASSUME NEW x \in V, NEW y \in V, pair(x) = pair(y)
        PROVE  x = y
    <2> HIDE DEF number, of
    <2>1. of(x) = of(y) /\ number(of(x))[x] = number(of(y))[y]
      BY <1>5
    <2>2. PICK j \in J : j = of(x)
      BY <1>2
    <2>3. x \in job[j].nodes /\ y \in job[j].nodes /\ number(j)[x] = number(j)[y]
      BY <1>2, <2>1, <2>2
    <2>4. number(j) \in Numbering(j)
      BY <1>1
    <2> QED
      BY <2>3, <2>4
  <1>6. g \in Injection(V, Asked(J))
    <2> HIDE DEF pair, V
    <2>1. g \in [V -> Asked(J)] /\ \A x \in V : g[x] = pair(x)
      BY <1>4
    <2> QED
      BY <1>5, <2>1 DEF Injection, IsInjective
  <1> HIDE DEF V, g
  <1>7. IsFiniteSet(V) /\ Cardinality(V) <= Cardinality(Asked(J))
    BY <1>6, AskedFinite, FS_Injection
  <1> QED
    BY <1>7 DEF V

-----------------------------------------------------------------------------
(* What the type invariant needs: a pass that belongs to its policy, and jobs that ask *)
(* for what the pool has.                                                              *)

Passing == pc \in {"pass", "fork"}

OtherTypes ==
    /\ policy \in Policies /\ cluster \in Clusters
    /\ pc \in {"io", "save", "expire", "pass", "fork", "down"}
    /\ did \in BOOLEAN /\ crashes \in 0..MaxCrash

AskInv ==
    \A j \in Ids : /\ job[j] # NoJob => Asking(job[j].req)
                   /\ spool[j] \in Reqs => Asking(spool[j])

\* The jobs of a pass ask for no more nodes than are up.
RestInv == Passing => \A j \in pass.rest : job[j].req.nodes <= Cardinality(Up)

\* The nodes that are up have places of their own, and the next place is one of them.
ShareInv ==
    IF Passing /\ policy = "shared"
    THEN /\ pass.places \in Injection(Up, 0..(Cardinality(Up) - 1))
         /\ pass.idx \in Nat /\ (pass.idx = 0 \/ pass.idx < Cardinality(Up))
    ELSE pass.places = <<>> /\ pass.idx = 0

\* The schedule of the filler starts now.
Timed(se) == /\ DOMAIN se \subseteq Nat /\ 0 \in DOMAIN se
             /\ \A t \in DOMAIN se : se[t] \in Int

PlanInv ==
    /\ RestInv
    /\ ShareInv
    /\ IF Passing /\ policy = "filler" THEN Timed(pass.se) ELSE pass.se = <<>>

TInv == OtherTypes /\ AskInv /\ PlanInv

\* Jobs that are there stay as they are, go away, or lose their nodes.
Calm ==
    \A j \in Ids : job'[j] # NoJob =>
        /\ job[j] # NoJob /\ job'[j].req = job[j].req /\ job'[j].state = job[j].state
        /\ job'[j].nodes \in {job[j].nodes, {}}

\* Most of what happens to jobs is of that kind.
LEMMA CalmSteps ==
    ASSUME DaemonTypeOK, CurInv,
           \/ UNCHANGED job
           \/ \E j \in Ids : bjs_job_remove(j)
           \/ \E c \in Clusters : update_cluster_status(c)
           \/ Tick \/ start_job \/ Crash
    PROVE  Calm
  <1>1. \A j \in Ids : job[j] \in Job \cup {NoJob}
    BY DEF DaemonTypeOK
  <1>2. CASE UNCHANGED job
    BY <1>2 DEF Calm
  <1>3. ASSUME NEW j \in Ids, bjs_job_remove(j)
        PROVE  Calm
    <2>1. \A i \in Ids : job'[i] # NoJob => job'[i] = job[i]
      BY <1>3 DEF bjs_job_remove, DaemonTypeOK
    <2> QED
      BY <2>1 DEF Calm
  <1>4. ASSUME NEW c \in Clusters, update_cluster_status(c)
        PROVE  Calm
    <2> SUFFICES ASSUME NEW i \in Ids, job'[i] # NoJob
                 PROVE  /\ job[i] # NoJob /\ job'[i].req = job[i].req
                        /\ job'[i].state = job[i].state /\ job'[i].nodes = {}
      BY DEF Calm
    <2>1. i \in Jobs /\ job'[i] = [job[i] EXCEPT !.nodes = {}]
      BY <1>4 DEF update_cluster_status
    <2>2. job[i] \in Job
      BY <1>1, <2>1 DEF Jobs
    <2> QED
      BY <2>1, <2>2, JobNodes DEF Jobs
  <1>5. CASE Tick
    <2> SUFFICES ASSUME NEW i \in Ids, job'[i] # NoJob
                 PROVE  /\ job[i] # NoJob /\ job'[i].req = job[i].req
                        /\ job'[i].state = job[i].state /\ job'[i].nodes = job[i].nodes
      BY DEF Calm
    <2>1. \/ job'[i] = job[i]
          \/ i \in Started /\ job'[i] = [job[i] EXCEPT !.left = job[i].left - 1]
      BY <1>5 DEF Tick
    <2>2. CASE job'[i] = job[i]
      BY <2>2
    <2>3. CASE i \in Started /\ job'[i] = [job[i] EXCEPT !.left = job[i].left - 1]
      <3>1. job[i] \in Job /\ job[i] # NoJob
        BY <1>1, <2>3 DEF Started, Jobs
      <3>2. job'[i].req = job[i].req /\ job'[i].state = job[i].state
            /\ job'[i].nodes = job[i].nodes
        BY <2>3, <3>1 DEF Job
      <3> QED
        BY <3>1, <3>2
    <2> QED
      BY <2>1, <2>2, <2>3
  <1>6. CASE start_job
    <2> SUFFICES ASSUME NEW i \in Ids, job'[i] # NoJob
                 PROVE  /\ job[i] # NoJob /\ job'[i].req = job[i].req
                        /\ job'[i].state = job[i].state /\ job'[i].nodes = job[i].nodes
      BY DEF Calm
    <2>1. \/ job' = job
          \/ job' = [job EXCEPT ![pass.cur].process = TRUE]
      BY <1>6 DEF start_job
    <2>2. CASE job'[i] = job[i]
      BY <2>2
    <2>3. CASE job'[i] # job[i]
      <3>1. i = pass.cur /\ job'[i] = [job[i] EXCEPT !.process = TRUE]
        BY <2>1, <2>3 DEF DaemonTypeOK
      <3>2. job[i] \in Job /\ job[i] # NoJob
        BY <1>1, <1>6, <3>1 DEF CurInv, Started, Jobs, start_job
      <3> QED
        BY <3>1, <3>2, JobProcess
    <2> QED
      BY <2>2, <2>3
  <1>7. CASE Crash
    BY <1>7 DEF Crash, Calm
  <1> QED
    BY <1>2, <1>3, <1>4, <1>5, <1>6, <1>7

\* Outside of a pass there is none.
LEMMA Outside ==
    ASSUME PlanInv, ~Passing', pass' = NoPass \/ (pass' = pass /\ ~Passing)
    PROVE  PlanInv'
  <1>1. pass'.places = <<>> /\ pass'.idx = 0 /\ pass'.se = <<>>
    BY DEF PlanInv, ShareInv, NoPass
  <1> QED
    BY <1>1 DEF PlanInv, RestInv, ShareInv

\* What was asked for stays.
LEMMA AskCalm ==
    ASSUME AskInv, Calm, \A j \in Ids : spool'[j] \in {spool[j], NoFile, Torn}
    PROVE  AskInv'
  <1> SUFFICES ASSUME NEW j \in Ids
               PROVE  /\ job'[j] # NoJob => Asking(job'[j].req)
                      /\ spool'[j] \in Reqs => Asking(spool'[j])
    BY DEF AskInv, Asking
  <1> QED
    BY Marks DEF AskInv, Calm

\* The steps that leave the jobs as they are, outside of the pass, and the end of it
LEMMA TInvCalm ==
    ASSUME BjsAssumption, DaemonTypeOK, CurInv, TInv,
           \/ \E j \in Ids : client_remove_job(j) \/ client_destroy(j) \/ wait_on_children(j)
           \/ \E c \in Clusters : update_cluster_status(c)
           \/ Tick \/ Schedule \/ Expire \/ EndPass \/ Crash
    PROVE  TInv'
  <1> USE DEF TInv
  <1>1. OtherTypes'
    <2>1. CASE Crash
      <3>1. MaxCrash \in Nat /\ crashes \in 0..MaxCrash /\ crashes' = crashes + 1
            /\ crashes < MaxCrash
        BY <2>1 DEF Crash, OtherTypes, BjsAssumption
      <3>2. crashes' \in 0..MaxCrash
        BY <3>1
      <3> QED
        BY <2>1, <3>2 DEF OtherTypes, Crash
    <2>2. CASE ~Crash
      <3>1. /\ policy' = policy /\ crashes' = crashes
            /\ did' \in {did, TRUE, FALSE} /\ pc' \in {pc, "expire", "io"}
        BY <2>2 DEF client_remove_job, client_destroy, wait_on_children,
               update_cluster_status, Tick, Schedule, Expire, EndPass
      <3>2. cluster' = cluster \/ cluster' \in Clusters
        BY <2>2 DEF client_remove_job, client_destroy, wait_on_children,
               update_cluster_status, Tick, Schedule, Expire, EndPass
      <3> QED
        BY <3>1, <3>2 DEF OtherTypes
    <2> QED
      BY <2>1, <2>2
  <1>2. PlanInv'
    <2>1. ~Passing' \/ (EndPass /\ pc' \notin {"pass", "fork"})
      BY DEF Passing, client_remove_job, client_destroy, wait_on_children,
             update_cluster_status, Tick, Schedule, Expire, EndPass, Crash
    <2>2. pass' = NoPass \/ (pass' = pass /\ ~Passing)
      BY DEF Passing, client_remove_job, client_destroy, wait_on_children,
             update_cluster_status, Tick, Schedule, Expire, EndPass, Crash
    <2> QED
      BY <2>1, <2>2, Outside DEF Passing
  <1>3. Calm
    <2>1. CASE Schedule \/ EndPass
      BY <2>1, CalmSteps DEF Schedule, EndPass
    <2>2. CASE Expire
      <3>1. Expired \in SUBSET Nat /\ Expired \subseteq Ids
        BY DEF Expired, Started, Jobs, Ids
      <3>2. Min(Expired) \in Ids
        BY <2>2, <3>1, MinLemma DEF Expire
      <3> QED
        BY <2>2, <3>2, CalmSteps DEF Expire
    <2>3. CASE \E j \in Ids : client_remove_job(j) \/ client_destroy(j) \/ wait_on_children(j)
      BY <2>3, CalmSteps DEF client_remove_job, client_destroy, wait_on_children
    <2> QED
      BY <2>1, <2>2, <2>3, CalmSteps
  <1>4. \A j \in Ids : spool'[j] \in {spool[j], NoFile}
    BY DEF client_remove_job, client_destroy, wait_on_children, bjs_job_remove, DaemonTypeOK,
           update_cluster_status, Tick, Schedule, Expire, EndPass, Crash
  <1> QED
    BY <1>1, <1>2, <1>3, <1>4, AskCalm

\* A job that is started is given its nodes, and the others stay as they are.
LEMMA StartedOnly ==
    ASSUME DaemonTypeOK, NEW k \in Waiting, NEW nodes \in SUBSET Nat, bjs_start_job(k, nodes)
    PROVE  /\ job'[k] # NoJob /\ job'[k].state = "started" /\ job'[k].nodes = nodes
           /\ job'[k].req = job[k].req
           /\ \A i \in Ids : i # k => job'[i] = job[i]
           /\ \A i \in Ids : spool'[i] \in {spool[i], NoFile}
           /\ pc' = "fork"
  <1>1. k \in Ids /\ job[k] \in Job
    BY DEF Waiting, Jobs, DaemonTypeOK
  <1>2. /\ job'[k] = [job[k] EXCEPT !.state = "started", !.nodes = nodes]
        /\ \A i \in Ids : i # k => job'[i] = job[i]
        /\ pc' = "fork"
    BY <1>1 DEF bjs_start_job, DaemonTypeOK
  <1>3. PICK x \in Job : x = job[k]
    BY <1>1
  <1>4. LET y == [x EXCEPT !.state = "started", !.nodes = nodes]
        IN  y \in Job /\ y.state = "started" /\ y.req = x.req /\ y.nodes = nodes
    BY JobStart
  <1>5. \A i \in Ids : spool'[i] \in {spool[i], NoFile}
    BY DEF bjs_start_job, StartedFile, DaemonTypeOK
  <1> QED
    BY <1>2, <1>3, <1>4, <1>5, Marks

\* A policy looks at a job of the pass: its plan is for the policy to keep.
LEMMA TInvPass ==
    ASSUME BjsAssumption, IInv, TInv, pc = "pass", NEW k \in pass.rest,
           \/ UNCHANGED <<job, spool, pc>>
           \/ \E nodes \in SUBSET Nat : bjs_start_job(k, nodes),
           pass'.rest \subseteq pass.rest,
           UNCHANGED <<policy, cluster, crashes>>, did' \in BOOLEAN,
           ShareInv',
           IF policy = "filler" THEN Timed(pass'.se) ELSE pass'.se = <<>>
    PROVE  TInv'
  <1> USE DEF TInv
  <1>1. DaemonTypeOK /\ k \in Waiting /\ pass.rest \subseteq Ids
    BY DEF IInv, DaemonTypeOK, RunInv
  <1>2. /\ \A i \in Ids : job'[i] # NoJob => job[i] # NoJob
        /\ \A i \in Ids : job'[i].req = job[i].req
        /\ \A i \in Ids : spool'[i] \in {spool[i], NoFile}
        /\ pc' \in {"pass", "fork"}
    <2>1. CASE UNCHANGED <<job, spool, pc>>
      BY <2>1
    <2>2. ASSUME NEW nodes \in SUBSET Nat, bjs_start_job(k, nodes)
          PROVE  <1>2
      <3>1. /\ job'[k].req = job[k].req /\ \A i \in Ids : i # k => job'[i] = job[i]
            /\ \A i \in Ids : spool'[i] \in {spool[i], NoFile}
            /\ pc' = "fork"
        BY <1>1, <2>2, StartedOnly
      <3>2. job[k] # NoJob
        BY <1>1 DEF Waiting, Jobs
      <3> QED
        BY <3>1, <3>2
    <2> QED
      BY <2>1, <2>2
  <1>3. OtherTypes'
    BY <1>2 DEF OtherTypes
  <1>4. AskInv'
    <2> SUFFICES ASSUME NEW j \in Ids
                 PROVE  /\ job'[j] # NoJob => Asking(job'[j].req)
                        /\ spool'[j] \in Reqs => Asking(spool'[j])
      BY DEF AskInv, Asking
    <2> QED
      BY <1>2, Marks DEF AskInv
  <1>5. Up' = Up
    BY DEF Up, bjs_node_up, Nodes
  <1>6. RestInv'
    BY <1>1, <1>2, <1>5 DEF PlanInv, RestInv, Passing
  <1>7. Passing'
    BY <1>2 DEF Passing
  <1> QED
    BY <1>3, <1>4, <1>6, <1>7 DEF PlanInv

\* simple_schedule has no plan.
LEMMA TInvSimple ==
    ASSUME BjsAssumption, IInv, TInv, simple_schedule
    PROVE  TInv'
  <1> DEFINE k == Min(pass.rest)
             n == job[k].req.nodes
  <1>1. k \in pass.rest /\ pc = "pass" /\ policy = "simple"
    BY FirstOfPass DEF simple_schedule, IInv
  <1>2. /\ UNCHANGED <<policy, cluster, crashes, did>>
        /\ \/ pass' = [pass EXCEPT !.rest = {}] /\ UNCHANGED <<job, spool, pc>>
           \/ /\ pass' = [pass EXCEPT !.rest = @ \ {k}, !.cur = k]
              /\ bjs_start_job(k, Least(Idle, n))
    BY DEF simple_schedule
  <1>3. Least(Idle, n) \in SUBSET Nat
    BY IdleNodes
  <1> HIDE DEF k, n
  <1>4. /\ pass'.rest \subseteq pass.rest /\ pass'.se = pass.se
        /\ pass'.places = pass.places /\ pass'.idx = pass.idx
    BY <1>2 DEF IInv, DaemonTypeOK
  <1>5. ShareInv' /\ pass'.se = <<>> /\ did' \in BOOLEAN
    BY <1>1, <1>2, <1>4 DEF TInv, PlanInv, ShareInv, OtherTypes
  <1>6. \/ UNCHANGED <<job, spool, pc>>
        \/ \E nodes \in SUBSET Nat : bjs_start_job(k, nodes)
    BY <1>2, <1>3
  <1> QED
    BY <1>1, <1>2, <1>4, <1>5, <1>6, TInvPass

\* shared_schedule goes on at the node behind those it gave.
LEMMA TInvShared ==
    ASSUME BjsAssumption, IInv, TInv, shared_schedule
    PROVE  TInv'
  <1> DEFINE k == Min(pass.rest)
             n == job[k].req.nodes
             size == Cardinality(DOMAIN pass.places)
             nodes == {x \in DOMAIN pass.places : (pass.places[x] - pass.idx) % size < n}
  <1>1. k \in pass.rest /\ pc = "pass" /\ policy = "shared"
    BY FirstOfPass DEF shared_schedule, IInv
  <1>2. /\ UNCHANGED <<policy, cluster, crashes>> /\ did' = TRUE
        /\ pass' = [pass EXCEPT !.rest = @ \ {k}, !.cur = k, !.idx = After(n)]
        /\ bjs_start_job(k, nodes)
    BY DEF shared_schedule
  <1>3. nodes \in SUBSET Nat
    BY DEF IInv, DaemonTypeOK
  <1>4. /\ pass.places \in Injection(Up, 0..(Cardinality(Up) - 1)) /\ pass.idx \in Nat
        /\ DOMAIN pass.places = Up /\ pass.se = <<>>
    BY <1>1 DEF TInv, PlanInv, ShareInv, Passing, Injection
  <1>5. n \in Nat /\ n > 0 /\ n <= Cardinality(Up) /\ Cardinality(Up) \in Nat
    <2>1. k \in Ids /\ job[k] # NoJob
      BY <1>1 DEF IInv, DaemonTypeOK, RunInv, Waiting, Jobs
    <2>2. n \in 1..PoolNodes /\ n <= Cardinality(Up)
      BY <1>1, <2>1 DEF TInv, AskInv, Asking, PlanInv, RestInv, Passing
    <2> HIDE DEF n
    <2> QED
      BY <2>2, NodeNumbers
  <1>6. After(n) \in 0..(Cardinality(Up) - 1)
    <2> HIDE DEF n
    <2>1. PICK s \in Nat : s = Cardinality(Up)
      BY <1>5
    <2>2. PICK a \in Nat : a = pass.idx + n
      BY <1>4, <1>5
    <2>3. a % s \in 0..(s - 1)
      BY <1>5, <2>1
    <2> QED
      BY <1>4, <2>1, <2>2, <2>3 DEF After
  <1> HIDE DEF k, n, nodes
  <1>7. /\ pass'.rest \subseteq pass.rest /\ pass'.se = pass.se
        /\ pass'.places = pass.places /\ pass'.idx = After(n)
    BY <1>2 DEF IInv, DaemonTypeOK
  <1>8. Up' = Up
    BY <1>2 DEF Up, bjs_node_up, Nodes
  <1>9. ShareInv'
    <2>1. Passing' /\ policy' = "shared"
      BY <1>1, <1>2 DEF Passing, bjs_start_job
    <2>2. pass'.idx \in Nat /\ pass'.idx < Cardinality(Up)
      BY <1>5, <1>6, <1>7
    <2> QED
      BY <1>4, <1>7, <1>8, <2>1, <2>2 DEF ShareInv
  <1> QED
    BY <1>1, <1>2, <1>3, <1>4, <1>7, <1>9, TInvPass

\* add_sched_event adds its time, and changes what comes at it and behind it.
LEMMA AddEvent ==
    ASSUME NEW se, Timed(se), NEW t \in Nat, NEW adj \in Int
    PROVE  LET new == add_sched_event(se, t, adj)
           IN  Timed(new) /\ new[0] = IF t = 0 THEN se[0] + adj ELSE se[0]
  <1> DEFINE S == {s \in DOMAIN se : s <= t}
             old(s) == IF s \in DOMAIN se THEN se[s] ELSE se[Before(se, t)]
             by(s) == IF s >= t THEN adj ELSE 0
             new == [s \in DOMAIN se \cup {t} |-> old(s) + by(s)]
  <1>1. DOMAIN se \subseteq Nat /\ 0 \in DOMAIN se /\ \A s \in DOMAIN se : se[s] \in Int
    BY DEF Timed
  <1>2. Before(se, t) \in DOMAIN se
    <2>1. S # {} /\ S \subseteq 0..t
      BY <1>1
    <2> HIDE DEF S
    <2>2. Max(S) \in S
      BY <2>1, MaxLemma
    <2>3. Before(se, t) = Max(S)
      BY DEF Before, S
    <2> QED
      BY <2>2, <2>3 DEF S
  <1>3. \A s \in DOMAIN se \cup {t} : s \in Nat /\ old(s) \in Int /\ by(s) \in Int
    BY <1>1, <1>2
  <1>4. add_sched_event(se, t, adj) = new
    BY DEF add_sched_event
  <1>5. old(0) = se[0] /\ by(0) = IF t = 0 THEN adj ELSE 0
    BY <1>1
  <1> HIDE DEF old, by
  <1>6. DOMAIN new = DOMAIN se \cup {t} /\ \A s \in DOMAIN se \cup {t} : new[s] = old(s) + by(s)
    OBVIOUS
  <1> HIDE DEF new
  <1>7. Timed(new)
    <2>1. \A s \in DOMAIN new : s \in Nat /\ new[s] \in Int
      BY <1>3, <1>6
    <2> QED
      BY <1>1, <1>6, <2>1 DEF Timed
  <1>8. new[0] = IF t = 0 THEN se[0] + adj ELSE se[0]
    BY <1>1, <1>3, <1>5, <1>6
  <1> QED
    BY <1>4, <1>7, <1>8

\* The schedule with one more job in it: nodes are taken from now on if it starts now.
LEMMA Reserved ==
    ASSUME NEW se, Timed(se), NEW t \in Nat, NEW secs \in Nat, secs > 0, NEW nodes \in Nat
    PROVE  LET new == Reserve(se, t, secs, nodes)
           IN  Timed(new) /\ new[0] = IF t = 0 THEN se[0] - nodes ELSE se[0]
  <1> DEFINE mid == add_sched_event(se, t, -nodes)
             new == add_sched_event(mid, t + secs, nodes)
  <1>1. PICK less \in Int : less = -nodes
    OBVIOUS
  <1>2. Timed(add_sched_event(se, t, less))
        /\ add_sched_event(se, t, less)[0] = IF t = 0 THEN se[0] + less ELSE se[0]
    BY AddEvent
  <1>3. Timed(mid) /\ mid[0] = IF t = 0 THEN se[0] + less ELSE se[0]
    BY <1>1, <1>2
  <1> HIDE DEF mid
  <1>4. PICK u \in Nat : u = t + secs /\ u # 0
    OBVIOUS
  <1>5. Timed(add_sched_event(mid, u, nodes)) /\ add_sched_event(mid, u, nodes)[0] = mid[0]
    BY <1>3, <1>4, AddEvent
  <1>6. Timed(new) /\ new[0] = mid[0]
    BY <1>4, <1>5
  <1>7. Reserve(se, t, secs, nodes) = new
    BY DEF Reserve, mid
  <1>8. se[0] \in Int
    BY DEF Timed
  <1> HIDE DEF new
  <1> QED
    BY <1>1, <1>3, <1>6, <1>7, <1>8

\* find_hole finds a time of the schedule at which there are enough nodes.
LEMMA HoleFound ==
    ASSUME NEW se, Timed(se), NEW secs \in Nat, NEW nodes \in Nat,
           find_hole(se, secs, nodes) # -1
    PROVE  /\ find_hole(se, secs, nodes) \in DOMAIN se
           /\ se[find_hole(se, secs, nodes)] >= nodes
  <1> DEFINE S == {t \in DOMAIN se : \A u \in DOMAIN se : u \in t..t + secs => se[u] >= nodes}
  <1>1. S # {} /\ find_hole(se, secs, nodes) = Min(S)
    BY DEF find_hole
  <1>2. S \in SUBSET Nat
    BY DEF Timed
  <1>3. Min(S) \in S
    BY <1>1, <1>2, MinLemma
  <1>4. \A t \in S : t \in t..t + secs
    BY <1>2
  <1> QED
    BY <1>1, <1>3, <1>4

\* filler_schedule puts a job into its schedule, unless there is no hole for it.
LEMMA TInvFiller ==
    ASSUME BjsAssumption, IInv, TInv, filler_schedule
    PROVE  TInv'
  <1> DEFINE k == Min(pass.rest)
             n == job[k].req.nodes
             secs == job[k].req.secs
             start == find_hole(pass.se, secs, n)
             se == Placed(k, start)
  <1>1. k \in pass.rest /\ pc = "pass" /\ policy = "filler"
    BY FirstOfPass DEF filler_schedule, IInv
  <1>2. /\ UNCHANGED <<policy, cluster, crashes>> /\ did' \in {did, TRUE}
        /\ pass' = [pass EXCEPT !.rest = @ \ {k}, !.cur = k, !.se = se]
        /\ \/ UNCHANGED <<job, spool, pc>>
           \/ bjs_start_job(k, Least(Idle, n))
    BY DEF filler_schedule
  <1>3. Least(Idle, n) \in SUBSET Nat
    BY IdleNodes
  <1>4. n \in Nat /\ secs \in Nat /\ secs > 0
    <2>1. k \in Ids /\ job[k] # NoJob /\ job[k] \in Job
      BY <1>1 DEF IInv, DaemonTypeOK, RunInv, Waiting, Jobs
    <2>2. job[k].req \in Reqs /\ Asking(job[k].req)
      BY <2>1, JobRecord DEF TInv, AskInv
    <2> HIDE DEF k
    <2> QED
      BY <2>2 DEF Reqs, Asking
  <1>5. Timed(pass.se)
    BY <1>1 DEF TInv, PlanInv, Passing
  <1>6. Timed(se)
    <2>1. CASE start = -1
      BY <1>5, <2>1 DEF Placed
    <2>2. CASE start # -1
      <3> HIDE DEF k
      <3>1. start \in Nat
        <4>1. start \in DOMAIN pass.se
          BY <1>4, <1>5, <2>2, HoleFound
        <4> QED
          BY <1>5, <4>1 DEF Timed
      <3> HIDE DEF start
      <3>2. se = Reserve(pass.se, start, secs, n)
        BY <2>2 DEF Placed
      <3> HIDE DEF secs, n, se
      <3> QED
        BY <1>4, <1>5, <3>1, <3>2, Reserved
    <2> QED
      BY <2>1, <2>2
  <1> HIDE DEF k, n, se
  <1>7. /\ pass'.rest \subseteq pass.rest /\ pass'.se = se
        /\ pass'.places = pass.places /\ pass'.idx = pass.idx
    BY <1>2 DEF IInv, DaemonTypeOK
  <1>8. ShareInv' /\ did' \in BOOLEAN
    BY <1>1, <1>2, <1>7 DEF TInv, PlanInv, ShareInv, OtherTypes
  <1>9. \/ UNCHANGED <<job, spool, pc>>
        \/ \E nodes \in SUBSET Nat : bjs_start_job(k, nodes)
    BY <1>2, <1>3
  <1> QED
    BY <1>1, <1>2, <1>6, <1>7, <1>8, <1>9, TInvPass

\* A job that is accepted asks for no more nodes than the pool has.
LEMMA TInvSubmit ==
    ASSUME BjsAssumption, IInv, TInv, NEW req \in Submissions, client_submit_job(req)
    PROVE  TInv'
  <1> USE DEF TInv
  <1>1. OtherTypes' /\ PlanInv'
    <2>1. OtherTypes'
      BY DEF OtherTypes, client_submit_job
    <2>2. ~Passing' /\ ~Passing /\ pass' = pass
      BY DEF client_submit_job, Passing
    <2> QED
      BY <2>1, <2>2, Outside
  <1>2. DaemonTypeOK
    BY DEF IInv
  <1>3. \A i \in Ids : /\ job'[i] = job[i] \/ (Asking(req) /\ job'[i] = Queue(req))
                       /\ spool'[i] \in {spool[i], Torn}
    <2>1. req \in Reqs /\ req.nodes > 0 /\ req.secs > 0 /\ PoolNodes \in Nat
      BY DEF BjsAssumption, Reqs
    <2>2. req.nodes <= PoolNodes => Asking(req)
      BY <2>1 DEF Asking, Reqs
    <2> QED
      BY <1>2, <2>2 DEF client_submit_job, DaemonTypeOK
  <1>4. Queue(req).req = req
    BY DEF Queue
  <1>5. AskInv'
    <2> SUFFICES ASSUME NEW j \in Ids
                 PROVE  /\ job'[j] # NoJob => Asking(job'[j].req)
                        /\ spool'[j] \in Reqs => Asking(spool'[j])
      BY DEF AskInv, Asking
    <2> QED
      BY <1>3, <1>4, Marks DEF AskInv
  <1> QED
    BY <1>1, <1>5

\* The file has what the job asked for.
LEMMA TInvAdd ==
    ASSUME BjsAssumption, IInv, TInv, persistent_job_add
    PROVE  TInv'
  <1> USE DEF TInv
  <1>1. OtherTypes' /\ PlanInv'
    <2>1. OtherTypes'
      BY DEF OtherTypes, persistent_job_add
    <2>2. ~Passing' /\ ~Passing /\ pass' = pass
      BY DEF persistent_job_add, Passing
    <2> QED
      BY <2>1, <2>2, Outside
  <1>2. PICK k \in Ids : k = job_id - 1 /\ job[k] # NoJob
    BY DEF IInv, IdInv, persistent_job_add, Waiting, Jobs
  <1>3. job' = job /\ \A i \in Ids : spool'[i] = IF i = k THEN job[k].req ELSE spool[i]
    BY <1>2 DEF persistent_job_add, IInv, DaemonTypeOK
  <1>4. AskInv'
    <2> SUFFICES ASSUME NEW j \in Ids
                 PROVE  /\ job'[j] # NoJob => Asking(job'[j].req)
                        /\ spool'[j] \in Reqs => Asking(spool'[j])
      BY DEF AskInv, Asking
    <2> QED
      BY <1>2, <1>3 DEF AskInv
  <1> QED
    BY <1>1, <1>4

\* The daemon starts with the jobs of the files.
LEMMA TInvLoad ==
    ASSUME BjsAssumption, IInv, TInv, NEW c \in Clusters, persistent_job_load(c)
    PROVE  TInv'
  <1> USE DEF TInv
  <1>1. OtherTypes' /\ PlanInv'
    <2>1. OtherTypes'
      BY DEF OtherTypes, persistent_job_load
    <2>2. ~Passing' /\ ~Passing /\ pass' = pass
      BY DEF persistent_job_load, Passing
    <2> QED
      BY <2>1, <2>2, Outside
  <1>2. \A i \in Ids : job'[i] = IF i \in Loadable THEN Queue(spool[i]) ELSE NoJob
    BY DEF persistent_job_load
  <1>3. \A i \in Loadable : spool[i] \in Reqs
    BY DEF Loadable, IInv, DaemonTypeOK
  <1>4. \A r : Queue(r).req = r
    BY DEF Queue
  <1>5. AskInv'
    <2> SUFFICES ASSUME NEW j \in Ids
                 PROVE  /\ job'[j] # NoJob => Asking(job'[j].req)
                        /\ spool'[j] \in Reqs => Asking(spool'[j])
      BY DEF AskInv, Asking
    <2>1. spool' = spool
      BY DEF persistent_job_load
    <2> QED
      BY <1>2, <1>3, <1>4, <2>1 DEF AskInv
  <1> QED
    BY <1>1, <1>5

\* A fork leaves the plan as it is.
LEMMA TInvFork ==
    ASSUME BjsAssumption, IInv, TInv, start_job
    PROVE  TInv'
  <1> USE DEF TInv
  <1>1. OtherTypes'
    BY DEF OtherTypes, start_job
  <1>2. Calm /\ DaemonTypeOK
    BY CalmSteps DEF IInv
  <1>3. AskInv'
    BY <1>2, AskCalm DEF start_job
  <1>4. Passing /\ Passing' /\ pass' = pass /\ policy' = policy /\ cluster' = cluster
    BY DEF Passing, start_job
  <1>5. Up' = Up
    BY <1>4 DEF Up, bjs_node_up, Nodes
  <1>6. \A j \in pass.rest : job'[j].req = job[j].req
    <2>1. \A j \in pass.rest : j \in Ids /\ job[j] \in Job /\ job[j] # NoJob
      BY <1>2 DEF IInv, RunInv, DaemonTypeOK, Waiting, Jobs, start_job
    <2>2. ASSUME NEW j \in pass.rest
          PROVE  job'[j] = job[j] \/ job'[j] = [job[j] EXCEPT !.process = TRUE]
      BY <1>2, <2>1 DEF start_job, DaemonTypeOK
    <2> QED
      BY <2>1, <2>2, JobProcess
  <1>7. RestInv'
    BY <1>4, <1>5, <1>6 DEF PlanInv, RestInv
  <1>8. ShareInv'
    BY <1>4, <1>5 DEF PlanInv, ShareInv
  <1> QED
    BY <1>1, <1>3, <1>4, <1>7, <1>8 DEF PlanInv

\* A policy makes its plan of the nodes that are up.
LEMMA TInvBegin ==
    ASSUME BjsAssumption, IInv, TInv, BeginPass
    PROVE  TInv'
  <1> USE DEF TInv
  <1>1. OtherTypes' /\ Calm
    BY CalmSteps DEF OtherTypes, BeginPass, IInv
  <1>2. AskInv'
    BY <1>1, AskCalm DEF BeginPass
  <1>3. Passing' /\ policy' = policy /\ cluster' = cluster /\ job' = job
    BY DEF Passing, BeginPass
  <1>4. Up' = Up
    BY <1>3 DEF Up, bjs_node_up, Nodes
  <1>5. /\ pass'.rest = Runnable /\ pass'.idx = 0
        /\ pass'.se = IF policy = "filler" THEN Busy ELSE <<>>
        /\ pass'.places = IF policy = "shared" THEN [n \in Up |-> Place(n)] ELSE <<>>
    BY DEF BeginPass
  <1>6. RestInv'
    <2>1. Up = Nodes \cap cluster.up
      BY DEF Up, bjs_node_up
    <2> QED
      BY <1>3, <1>4, <1>5, <2>1 DEF RestInv, Runnable, bjs_job_runnable
  <1>7. ShareInv'
    BY <1>3, <1>4, <1>5, Places DEF ShareInv
  <1>8. Timed(Busy)
    <2>1. \A j \in Started : j \in Ids /\ job[j] # NoJob /\ job[j] \in Job
      BY DEF IInv, DaemonTypeOK, Started, Jobs
    <2>2. \A j \in Started : End(j) \in Nat
      BY <2>1, JobRecord DEF End
    <2>3. ASSUME NEW t
          PROVE  Cardinality(Asked({j \in Started : End(j) > t})) \in Nat
      <3> DEFINE J == {j \in Started : End(j) > t}
      <3>1. J \in SUBSET Ids /\ \A j \in J : Asking(job[j].req)
        BY <2>1 DEF AskInv
      <3> HIDE DEF J
      <3>2. Cardinality(Asked(J)) \in Nat
        BY <3>1, AskedFinite
      <3> QED
        BY <3>2 DEF J
    <2>4. Cardinality(Up) \in Nat
      BY NodeNumbers
    <2>5. /\ DOMAIN Busy = {0} \cup {End(j) : j \in Started}
          /\ \A t \in DOMAIN Busy : Busy[t] = Cardinality(Up)
                                        - Cardinality(Asked({j \in Started : End(j) > t}))
      BY DEF Busy
    <2>6. ASSUME NEW t \in DOMAIN Busy
          PROVE  Busy[t] \in Int
      <3>1. PICK c \in Nat : c = Cardinality(Asked({j \in Started : End(j) > t}))
        BY <2>3
      <3>2. PICK u \in Nat : u = Cardinality(Up)
        BY <2>4
      <3>3. Busy[t] = u - c
        BY <2>5, <3>1, <3>2
      <3> QED
        BY <3>3
    <2>7. 0 \in DOMAIN Busy /\ DOMAIN Busy \subseteq Nat
      BY <2>2, <2>5
    <2> QED
      BY <2>6, <2>7 DEF Timed
  <1> QED
    BY <1>1, <1>2, <1>3, <1>5, <1>6, <1>7, <1>8 DEF PlanInv

-----------------------------------------------------------------------------
(* The type invariant.                                                     *)

\* The plan holds before there is one, and every step keeps it.
LEMMA TInvInductive ==
    ASSUME BjsAssumption
    PROVE  /\ Init => TInv
           /\ IInv /\ TInv /\ [Next]_vars => TInv'
  <1>1. ASSUME Init
        PROVE  TInv
    <2>1. OtherTypes
      <3>1. 0 \in 0..MaxCrash
        BY DEF BjsAssumption
      <3> QED
        BY <1>1, <3>1 DEF Init, OtherTypes
    <2>2. AskInv
      BY <1>1, Marks DEF Init, AskInv
    <2>3. PlanInv
      BY <1>1 DEF Init, PlanInv, RestInv, ShareInv, Passing, NoPass
    <2> QED
      BY <2>1, <2>2, <2>3 DEF TInv
  <1>2. ASSUME IInv, TInv, [Next]_vars
        PROVE  TInv'
    <2>1. DaemonTypeOK /\ CurInv
      BY <1>2 DEF IInv
    <2>2. CASE Loop
      BY <1>2, <2>1, <2>2, TInvCalm, TInvAdd, TInvBegin, TInvSimple, TInvShared, TInvFiller,
         TInvFork, TInvLoad DEF Loop
    <2>3. ASSUME NEW req \in Submissions, client_submit_job(req)
          PROVE  TInv'
      BY <1>2, <2>3, TInvSubmit
    <2>4. CASE \/ \E j \in Ids : client_remove_job(j) \/ client_destroy(j) \/ wait_on_children(j)
               \/ \E c \in Clusters : update_cluster_status(c)
               \/ Tick \/ Crash
      BY <1>2, <2>1, <2>4, TInvCalm
    <2>5. CASE UNCHANGED vars
      BY <1>2, <2>5 DEF vars, TInv, OtherTypes, AskInv, Asking, PlanInv, RestInv, ShareInv,
             Passing, Timed, Up, bjs_node_up, Nodes
    <2> QED
      BY <1>2, <2>2, <2>3, <2>4, <2>5 DEF Next
  <1> QED
    BY <1>1, <1>2

\* The daemon's data have their types, with places and an index that stay within the
\* nodes that are up and a schedule that starts now (shared.c, filler.c).
THEOREM BjsTypeOK == Spec => []TypeOK
  <1>1. IInv /\ TInv => TypeOK
    <2> SUFFICES ASSUME IInv, TInv
                 PROVE  TypeOK
      OBVIOUS
    <2>1. /\ job \in [Ids -> Job \cup {NoJob}] /\ job_id \in 0..MaxId
          /\ spool \in [Ids -> Reqs \cup {NoFile, Torn}]
          /\ owed \in SUBSET Ids /\ ran \in [Ids -> 0..2]
          /\ pass.rest \in SUBSET Ids /\ pass.cur \in Ids \cup {-1}
      BY DEF IInv, DaemonTypeOK
    <2>2. PICK s \in 0..PoolNodes : s = Cardinality(Up)
      BY NodeNumbers, BjsAssumption
    <2>3. PoolNodes \in Nat
      BY NodeNumbers, BjsAssumption
    <2>4. /\ pass.idx \in 0..PoolNodes
          /\ \A n \in DOMAIN pass.places : n \in 1..PoolNodes /\ pass.places[n] \in 0..PoolNodes
      <3>1. CASE Passing /\ policy = "shared"
        <4>1. /\ pass.places \in [Up -> 0..(s - 1)]
              /\ pass.idx \in Nat /\ (pass.idx = 0 \/ pass.idx < s)
          BY <2>2, <3>1 DEF TInv, PlanInv, ShareInv, Injection
        <4>2. Up \subseteq 1..PoolNodes
          BY DEF Up, Nodes
        <4>3. pass.idx \in 0..PoolNodes
          BY <2>2, <2>3, <4>1
        <4>4. 0..(s - 1) \subseteq 0..PoolNodes
          BY <2>2, <2>3
        <4>5. DOMAIN pass.places = Up /\ \A n \in Up : pass.places[n] \in 0..(s - 1)
          BY <4>1
        <4> QED
          BY <4>2, <4>3, <4>4, <4>5
      <3>2. CASE ~(Passing /\ policy = "shared")
        <4>1. pass.places = <<>> /\ pass.idx = 0
          BY <3>2 DEF TInv, PlanInv, ShareInv
        <4> QED
          BY <2>3, <4>1
      <3> QED
        BY <3>1, <3>2
    <2>5. \A t \in DOMAIN pass.se : t \in Nat /\ pass.se[t] \in Int
      BY DEF TInv, PlanInv, Timed
    <2> QED
      BY <2>1, <2>4, <2>5 DEF TypeOK, TInv, OtherTypes
  <1>2. Init => TInv
    BY TInvInductive, BjsAssumption
  <1>3. IInv /\ TInv /\ [Next]_vars => TInv'
    BY TInvInductive, BjsAssumption
  <1> QED
    BY <1>1, <1>2, <1>3, BjsInvariant, PTL DEF Spec

-----------------------------------------------------------------------------
(* The nodes a job starts with.                                            *)

\* No node is down under the policy simple, the one that hands out fewer nodes otherwise.
NoneDown == "simple" \in Policies => \A c \in Clusters : c.up = 1..c.nids

\* A started job has no more nodes than it asked for.
NodesInv ==
    \A j \in Started : /\ IsFiniteSet(job[j].nodes)
                       /\ Cardinality(job[j].nodes) <= job[j].req.nodes

\* The filler does not count on more nodes now than are idle.
FreeInv == (Passing /\ policy = "filler") => pass.se[0] <= Cardinality(Idle)

EInv == EnoughNodes /\ NodesInv /\ FreeInv

\* No job is started, and none gets other nodes.
Fewer ==
    \A j \in Started' : /\ j \in Started /\ job'[j].req = job[j].req
                        /\ job'[j].nodes \in {job[j].nodes, {}}

LEMMA CalmFewer ==
    ASSUME Calm
    PROVE  Fewer
  BY DEF Calm, Fewer, Started, Jobs

\* Then the started jobs still have no more nodes than they asked for.
LEMMA FewerNodes ==
    ASSUME BjsAssumption, DaemonTypeOK, NodesInv, Fewer
    PROVE  NodesInv'
  <1> SUFFICES ASSUME NEW j \in Started'
               PROVE  /\ IsFiniteSet(job'[j].nodes)
                      /\ Cardinality(job'[j].nodes) <= job'[j].req.nodes
    BY DEF NodesInv
  <1>1. j \in Started /\ job'[j].req = job[j].req /\ job'[j].nodes \in {job[j].nodes, {}}
    BY DEF Fewer
  <1>2. PICK n \in Nat : n = job[j].req.nodes
    <2>1. j \in Ids /\ job[j] # NoJob /\ job[j] \in Job
      BY <1>1 DEF Started, Jobs, DaemonTypeOK
    <2> QED
      BY <2>1, JobRecord DEF Reqs
  <1>3. CASE job'[j].nodes = {}
    <2>1. IsFiniteSet({}) /\ Cardinality({}) = 0
      BY FS_EmptySet
    <2> QED
      BY <1>1, <1>2, <1>3, <2>1
  <1>4. CASE job'[j].nodes = job[j].nodes
    BY <1>1, <1>4 DEF NodesInv
  <1> QED
    BY <1>1, <1>3, <1>4

\* The idle nodes of the next state can be counted too.
LEMMA IdleNext ==
    ASSUME BjsAssumption
    PROVE  IsFiniteSet(Idle') /\ Cardinality(Idle') \in Nat
  <1>1. Idle' \in SUBSET (1..PoolNodes)
    BY DEF Idle, Nodes
  <1>2. IsFiniteSet(1..PoolNodes)
    BY NodeNumbers, FS_Interval
  <1> QED
    BY <1>1, <1>2, FS_Subset, FS_CardinalityType

\* And the idle nodes stay idle.
LEMMA FewerIdle ==
    ASSUME BjsAssumption, Fewer, cluster' = cluster
    PROVE  Cardinality(Idle) <= Cardinality(Idle')
  <1>1. Nodes' = Nodes /\ \A n : bjs_node_up(n)' = bjs_node_up(n)
    BY DEF Nodes, bjs_node_up
  <1>2. ASSUME NEW n \in Idle
        PROVE  n \in Idle'
    <2>1. n \in Nodes /\ bjs_node_up(n) /\ \A j \in Started : n \notin job[j].nodes
      BY LoadNumber DEF Idle, bjs_node_idle
    <2> DEFINE S == {j \in Started' : n \in job'[j].nodes}
    <2>2. S = {}
      BY <2>1 DEF Fewer
    <2>3. Load(n)' = Cardinality(S)
      BY DEF Load
    <2> HIDE DEF S
    <2>4. Load(n)' = 0
      BY <2>2, <2>3, FS_EmptySet
    <2> QED
      BY <1>1, <2>1, <2>4 DEF Idle, bjs_node_idle
  <1>3. Idle \in SUBSET Idle'
    BY <1>2
  <1> QED
    BY <1>3, IdleNext, FS_Subset

\* Unless nodes are down every node of the pool that is there is up.
LEMMA AllUp ==
    ASSUME BjsAssumption, NoneDown, TInv, policy = "simple"
    PROVE  Up = Nodes /\ Usable = Idle
  <1>1. cluster \in Clusters /\ cluster.nids \in Nat /\ cluster.up = 1..cluster.nids
    BY DEF TInv, OtherTypes, NoneDown, BjsAssumption
  <1>2. \A n \in Nodes : n \in cluster.up
    BY <1>1 DEF Nodes
  <1> QED
    BY <1>2 DEF Up, Usable, Idle, bjs_node_up, bjs_node_idle, bjs_node_usable

\* A job that is started has as many nodes as there are in the set it is given.
LEMMA EnoughStart ==
    ASSUME BjsAssumption, IInv, TInv, NodesInv, pc = "pass", NEW k \in pass.rest,
           NEW nodes \in SUBSET Nat, bjs_start_job(k, nodes), pass'.cur = k,
           IsFiniteSet(nodes), Cardinality(nodes) = job[k].req.nodes
    PROVE  /\ EnoughNodes' /\ NodesInv'
           /\ \A i \in Started' : i = k \/ (i \in Started /\ job'[i] = job[i])
           /\ job'[k].nodes = nodes
  <1>1. DaemonTypeOK /\ k \in Waiting
    BY DEF IInv, DaemonTypeOK, RunInv
  <1>2. /\ job'[k] # NoJob /\ job'[k].state = "started" /\ job'[k].nodes = nodes
        /\ job'[k].req = job[k].req
        /\ \A i \in Ids : i # k => job'[i] = job[i]
    BY <1>1, StartedOnly
  <1>3. PICK n \in Nat : n = job[k].req.nodes
    <2>1. k \in Ids /\ job[k] # NoJob /\ job[k] \in Job
      BY <1>1 DEF Waiting, Jobs, DaemonTypeOK
    <2> QED
      BY <2>1, JobRecord DEF Reqs
  <1>4. EnoughNodes'
    BY <1>2 DEF EnoughNodes
  <1>5. \A i \in Started' : i = k \/ (i \in Started /\ job'[i] = job[i])
    BY <1>2 DEF Started, Jobs
  <1>6. NodesInv'
    BY <1>2, <1>3, <1>5 DEF NodesInv
  <1> QED
    BY <1>2, <1>4, <1>5, <1>6

\* simple_schedule counts the usable nodes before it hands out the idle ones.
LEMMA EInvSimple ==
    ASSUME BjsAssumption, NoneDown, IInv, TInv, EInv, simple_schedule
    PROVE  EInv'
  <1> DEFINE k == Min(pass.rest)
             n == job[k].req.nodes
  <1>1. k \in pass.rest /\ pc = "pass" /\ policy = "simple" /\ policy' = policy
    BY FirstOfPass DEF simple_schedule, IInv
  <1>2. \/ UNCHANGED <<job, pc>>
        \/ /\ n <= Cardinality(Usable)
           /\ pass' = [pass EXCEPT !.rest = @ \ {k}, !.cur = k]
           /\ bjs_start_job(k, Least(Idle, n))
    BY DEF simple_schedule
  <1>3. FreeInv'
    BY <1>1 DEF FreeInv
  <1>4. n \in Nat
    <2>1. k \in Ids /\ job[k] # NoJob /\ job[k] \in Job
      BY <1>1 DEF IInv, DaemonTypeOK, RunInv, Waiting, Jobs
    <2> HIDE DEF k
    <2> QED
      BY <2>1, JobRecord DEF Reqs
  <1> HIDE DEF k, n
  <1>5. CASE UNCHANGED <<job, pc>>
    BY <1>1, <1>3, <1>5 DEF EInv, EnoughNodes, NodesInv, Started, Jobs
  <1>6. CASE /\ n <= Cardinality(Usable)
             /\ pass' = [pass EXCEPT !.rest = @ \ {k}, !.cur = k]
             /\ bjs_start_job(k, Least(Idle, n))
    <2>1. Idle \in SUBSET Nat /\ IsFiniteSet(Idle) /\ n <= Cardinality(Idle)
      BY <1>1, <1>6, AllUp, NodeNumbers
    <2>2. IsFiniteSet(Least(Idle, n)) /\ Cardinality(Least(Idle, n)) = n
      BY <1>4, <2>1, LeastCount
    <2>3. Least(Idle, n) \in SUBSET Nat /\ pass'.cur = k
      BY <1>6, <2>1 DEF Least, IInv, DaemonTypeOK
    <2>4. EnoughNodes' /\ NodesInv'
      BY <1>1, <1>6, <2>2, <2>3, EnoughStart DEF EInv, n
    <2> QED
      BY <1>3, <2>4 DEF EInv
  <1> QED
    BY <1>2, <1>5, <1>6

\* shared_schedule gives as many of the nodes that are up as a job asks for.
LEMMA EInvShared ==
    ASSUME BjsAssumption, IInv, TInv, EInv, shared_schedule
    PROVE  EInv'
  <1> DEFINE k == Min(pass.rest)
             n == job[k].req.nodes
             size == Cardinality(DOMAIN pass.places)
             nodes == {x \in DOMAIN pass.places : (pass.places[x] - pass.idx) % size < n}
  <1>1. k \in pass.rest /\ pc = "pass" /\ policy = "shared" /\ policy' = policy
    BY FirstOfPass DEF shared_schedule, IInv
  <1>2. /\ pass' = [pass EXCEPT !.rest = @ \ {k}, !.cur = k, !.idx = After(n)]
        /\ bjs_start_job(k, nodes)
    BY DEF shared_schedule
  <1>3. /\ pass.places \in Injection(Up, 0..(Cardinality(Up) - 1)) /\ pass.idx \in Nat
        /\ pass.idx = 0 \/ pass.idx < Cardinality(Up)
        /\ DOMAIN pass.places = Up
    BY <1>1 DEF TInv, PlanInv, ShareInv, Passing, Injection
  <1>4. n \in Nat /\ n > 0 /\ n <= Cardinality(Up) /\ Cardinality(Up) \in Nat
    <2>1. k \in Ids /\ job[k] # NoJob
      BY <1>1 DEF IInv, DaemonTypeOK, RunInv, Waiting, Jobs
    <2>2. n \in 1..PoolNodes /\ n <= Cardinality(Up)
      BY <1>1, <2>1 DEF TInv, AskInv, Asking, PlanInv, RestInv, Passing
    <2> HIDE DEF n
    <2> QED
      BY <2>2, NodeNumbers
  <1>5. IsFiniteSet(nodes) /\ Cardinality(nodes) = n
    <2> HIDE DEF n
    <2>1. PICK s \in Nat : s = Cardinality(Up)
      BY <1>4
    <2>2. PICK i \in 0..(s - 1) : i = pass.idx
      BY <1>3, <1>4, <2>1
    <2>3. PICK p \in Injection(Up, 0..(s - 1)) : p = pass.places
      BY <1>3, <2>1
    <2>4. n \in 0..s
      BY <1>4, <2>1
    <2> DEFINE X == {x \in Up : (p[x] - i) % s < n}
    <2>5. IsFiniteSet(Up)
      BY NodeNumbers
    <2>6. PICK m \in 0..s : m = n
      BY <2>4
    <2>7. IsFiniteSet({x \in Up : (p[x] - i) % s < m})
          /\ Cardinality({x \in Up : (p[x] - i) % s < m}) = m
      BY <2>1, <2>5, NextNodes
    <2>8. nodes = X
      BY <1>3, <2>1, <2>2, <2>3
    <2> QED
      BY <2>6, <2>7, <2>8
  <1>6. nodes \in SUBSET Nat
    BY DEF IInv, DaemonTypeOK
  <1> HIDE DEF k, nodes
  <1>7. EnoughNodes' /\ NodesInv'
    <2>1. pass'.cur = k
      BY <1>2 DEF IInv, DaemonTypeOK
    <2> QED
      BY <1>1, <1>2, <1>5, <1>6, <2>1, EnoughStart DEF EInv
  <1>8. FreeInv'
    BY <1>1 DEF FreeInv
  <1> QED
    BY <1>7, <1>8 DEF EInv

\* The plan of the filler starts with the nodes that are up less those asked for by the
\* jobs that run, which have no more: there are as many idle ones.
LEMMA BusyNow ==
    ASSUME BjsAssumption, DaemonTypeOK, AskInv, NodesInv
    PROVE  Busy[0] <= Cardinality(Idle)
  <1>1. \A j \in Started : j \in Ids /\ job[j] # NoJob /\ job[j] \in Job
    BY DEF DaemonTypeOK, Started, Jobs
  <1>2. {j \in Started : End(j) > 0} = Started
    <2>1. \A j \in Started : End(j) > 0
      BY <1>1, JobRecord DEF End
    <2> QED
      BY <2>1
  <1> DEFINE J == Started
             V == UNION {job[j].nodes : j \in J}
  <1>3. J \in SUBSET Ids /\ \A j \in J : Asking(job[j].req)
    BY <1>1 DEF AskInv
  <1>4. PICK a \in Nat : a = Cardinality(Asked(J))
    BY <1>3, AskedFinite
  <1>5. \A j \in J : IsFiniteSet(job[j].nodes) /\ Cardinality(job[j].nodes) <= job[j].req.nodes
    BY DEF NodesInv
  <1>6. IsFiniteSet(V) /\ Cardinality(V) <= a /\ Cardinality(V) \in Nat
    <2> HIDE DEF J
    <2> QED
      BY <1>3, <1>4, <1>5, AskedCovers, FS_CardinalityType
  <1>7. Up \ Idle \in SUBSET V
    <2> SUFFICES ASSUME NEW n \in Up, n \notin Idle
                 PROVE  n \in V
      OBVIOUS
    <2>1. Load(n) # 0
      BY DEF Up, Idle, bjs_node_idle
    <2> QED
      BY <2>1, LoadNumber
  <1> HIDE DEF V
  <1>8. Cardinality(Up \ Idle) <= a
    <2>1. Cardinality(Up \ Idle) <= Cardinality(V) /\ IsFiniteSet(Up \ Idle)
      BY <1>6, <1>7, FS_Subset
    <2> QED
      BY <1>6, <2>1, FS_CardinalityType
  <1>9. PICK u \in Nat : u = Cardinality(Up)
    BY NodeNumbers
  <1>10. PICK i \in Nat : i = Cardinality(Idle)
    BY NodeNumbers
  <1>11. Cardinality(Up \ Idle) = u - i
    <2>1. Up \cap Idle = Idle
      BY NodeNumbers
    <2>2. Cardinality(Up \ Idle) = Cardinality(Up) - Cardinality(Up \cap Idle)
      BY NodeNumbers, FS_Difference
    <2> QED
      BY <1>9, <1>10, <2>1, <2>2
  <1>12. Busy[0] = u - a
    BY <1>2, <1>4, <1>9 DEF Busy
  <1>13. u - i <= a
    BY <1>8, <1>11
  <1>14. u - a <= i
    BY <1>13
  <1> QED
    BY <1>10, <1>12, <1>14

\* filler_schedule counts the nodes it hands out.
LEMMA EInvFiller ==
    ASSUME BjsAssumption, IInv, TInv, EInv, filler_schedule
    PROVE  EInv'
  <1> DEFINE k == Min(pass.rest)
             n == job[k].req.nodes
             secs == job[k].req.secs
             start == find_hole(pass.se, secs, n)
             se == Placed(k, start)
  <1>1. k \in pass.rest /\ pc = "pass" /\ policy = "filler"
        /\ policy' = policy /\ cluster' = cluster
    BY FirstOfPass DEF filler_schedule, IInv
  <1>2. /\ pass' = [pass EXCEPT !.rest = @ \ {k}, !.cur = k, !.se = se]
        /\ \/ start # 0 /\ UNCHANGED <<job, pc>>
           \/ start = 0 /\ bjs_start_job(k, Least(Idle, n))
    BY DEF filler_schedule
  <1>3. n \in Nat /\ secs \in Nat /\ secs > 0
    <2>1. k \in Ids /\ job[k] # NoJob /\ job[k] \in Job
      BY <1>1 DEF IInv, DaemonTypeOK, RunInv, Waiting, Jobs
    <2>2. job[k].req \in Reqs /\ Asking(job[k].req)
      BY <2>1, JobRecord DEF TInv, AskInv
    <2> HIDE DEF k
    <2> QED
      BY <2>2 DEF Reqs, Asking
  <1>4. Timed(pass.se) /\ pass.se[0] <= Cardinality(Idle) /\ pass.se[0] \in Int
    BY <1>1 DEF TInv, PlanInv, Passing, Timed, EInv, FreeInv
  <1>5. start # -1 => start \in DOMAIN pass.se /\ start \in Nat /\ pass.se[start] >= n
    <2> HIDE DEF n, secs
    <2> QED
      BY <1>3, <1>4, HoleFound DEF Timed
  <1> HIDE DEF start
  <1>6. se[0] = IF start = 0 THEN pass.se[0] - n ELSE pass.se[0]
    <2>1. CASE start = -1
      BY <2>1 DEF Placed
    <2>2. CASE start # -1
      <3>1. se = Reserve(pass.se, start, secs, n)
        BY <2>2 DEF Placed
      <3> HIDE DEF secs, n, se, k
      <3>2. PICK t \in Nat : t = start
        BY <1>5, <2>2
      <3>3. PICK old : old = pass.se
        OBVIOUS
      <3>4. PICK m \in Nat : m = n
        BY <1>3
      <3>5. PICK d \in Nat : d = secs /\ d > 0
        BY <1>3
      <3>6. Timed(old)
        BY <1>4, <3>3
      <3>7. Reserve(old, t, d, m)[0] = IF t = 0 THEN old[0] - m ELSE old[0]
        BY <3>5, <3>6, Reserved
      <3> QED
        BY <3>1, <3>2, <3>3, <3>4, <3>5, <3>7
    <2> QED
      BY <2>1, <2>2
  <1> HIDE DEF se, k, secs
  <1>7. pass'.se = se /\ pass'.cur = k
    BY <1>2 DEF IInv, DaemonTypeOK
  <1>8. CASE start # 0 /\ UNCHANGED <<job, pc>>
    <2>1. Started' = Started
      BY <1>8 DEF Started, Jobs
    <2>2. Idle' = Idle
      BY <1>1, <1>8, <2>1 DEF Idle, Nodes, bjs_node_idle, bjs_node_up, Load
    <2>3. EnoughNodes' /\ NodesInv'
      BY <1>1, <1>8, <2>1 DEF EInv, EnoughNodes, NodesInv
    <2>4. FreeInv'
      BY <1>4, <1>6, <1>7, <1>8, <2>2 DEF FreeInv
    <2> QED
      BY <2>3, <2>4 DEF EInv
  <1>9. CASE start = 0 /\ bjs_start_job(k, Least(Idle, n))
    <2> DEFINE nodes == Least(Idle, n)
    <2>1. Idle \in SUBSET Nat /\ IsFiniteSet(Idle) /\ Cardinality(Idle) \in Nat
      BY NodeNumbers
    <2>2. n <= Cardinality(Idle)
      BY <1>3, <1>4, <1>5, <1>9, <2>1
    <2>3. IsFiniteSet(nodes) /\ Cardinality(nodes) = n
      BY <1>3, <2>1, <2>2, LeastCount
    <2>4. nodes \in SUBSET Nat /\ nodes \subseteq Idle
      BY <2>1 DEF Least
    <2>5. /\ EnoughNodes' /\ NodesInv'
          /\ \A i \in Started' : i = k \/ (i \in Started /\ job'[i] = job[i])
          /\ job'[k].nodes = nodes
      <3>1. bjs_start_job(k, nodes)
        BY <1>9
      <3> HIDE DEF nodes
      <3> QED
        BY <1>1, <1>7, <2>3, <2>4, <3>1, EnoughStart DEF EInv, n
    <2> HIDE DEF nodes
    <2>6. ASSUME NEW x \in Idle \ nodes
          PROVE  x \in Idle'
      <3>1. x \in Nodes /\ bjs_node_up(x) /\ \A j \in Started : x \notin job[j].nodes
        BY LoadNumber DEF Idle, bjs_node_idle
      <3> DEFINE S == {j \in Started' : x \in job'[j].nodes}
      <3>2. S = {}
        BY <2>5, <3>1
      <3>3. Load(x)' = Cardinality(S)
        BY DEF Load
      <3> HIDE DEF S
      <3>4. Load(x)' = 0
        BY <3>2, <3>3, FS_EmptySet
      <3>5. Nodes' = Nodes /\ bjs_node_up(x)' = bjs_node_up(x)
        BY <1>1 DEF Nodes, bjs_node_up
      <3> QED
        BY <3>1, <3>4, <3>5 DEF Idle, bjs_node_idle
    <2>7. Cardinality(Idle \ nodes) <= Cardinality(Idle')
      <3>1. Idle \ nodes \in SUBSET Idle'
        BY <2>6
      <3> QED
        BY <3>1, IdleNext, FS_Subset
    <2>8. Cardinality(Idle \ nodes) = Cardinality(Idle) - n
      <3>1. Idle \cap nodes = nodes
        BY <2>4
      <3>2. Cardinality(Idle \ nodes) = Cardinality(Idle) - Cardinality(Idle \cap nodes)
        BY <2>1, FS_Difference
      <3> QED
        BY <2>3, <3>1, <3>2
    <2>9. Cardinality(Idle') \in Nat
      BY IdleNext
    <2>10. FreeInv'
      BY <1>3, <1>4, <1>6, <1>7, <1>9, <2>1, <2>7, <2>8, <2>9 DEF FreeInv
    <2> QED
      BY <2>5, <2>10 DEF EInv
  <1> QED
    BY <1>2, <1>8, <1>9

\* A policy looks at the jobs of a new pass: the plan starts with what is idle.
LEMMA EInvBegin ==
    ASSUME BjsAssumption, IInv, TInv, EInv, BeginPass
    PROVE  EInv'
  <1>1. job' = job /\ cluster' = cluster /\ policy' = policy /\ pc' = "pass"
        /\ pass'.se = IF policy = "filler" THEN Busy ELSE <<>>
    BY DEF BeginPass
  <1>2. Started' = Started
    BY <1>1 DEF Started, Jobs
  <1>3. Idle' = Idle
    BY <1>1, <1>2 DEF Idle, Nodes, bjs_node_idle, bjs_node_up, Load
  <1>4. EnoughNodes' /\ NodesInv'
    BY <1>1, <1>2 DEF EInv, EnoughNodes, NodesInv
  <1>5. Busy[0] <= Cardinality(Idle)
    BY BusyNow DEF IInv, TInv, EInv
  <1>6. FreeInv'
    BY <1>1, <1>3, <1>5 DEF FreeInv
  <1> QED
    BY <1>4, <1>6 DEF EInv

\* The fork leaves the nodes as they are.
LEMMA EInvFork ==
    ASSUME BjsAssumption, IInv, TInv, EInv, start_job
    PROVE  EInv'
  <1>1. DaemonTypeOK /\ CurInv
    BY DEF IInv
  <1>2. Fewer
    BY <1>1, CalmSteps, CalmFewer
  <1>3. NodesInv'
    BY <1>1, <1>2, FewerNodes DEF EInv
  <1>4. Passing /\ pass' = pass /\ policy' = policy /\ cluster' = cluster /\ pc' = "pass"
    BY DEF Passing, start_job
  <1>5. Cardinality(Idle) <= Cardinality(Idle')
    BY <1>2, <1>4, FewerIdle
  <1>6. FreeInv'
    <2> SUFFICES ASSUME policy = "filler"
                 PROVE  pass.se[0] <= Cardinality(Idle')
      BY <1>4 DEF FreeInv
    <2>1. pass.se[0] \in Int /\ pass.se[0] <= Cardinality(Idle)
      BY <1>4 DEF EInv, FreeInv, TInv, PlanInv, Timed
    <2>2. Cardinality(Idle) \in Nat
      BY NodeNumbers
    <2>3. Cardinality(Idle') \in Nat
      BY IdleNext
    <2> QED
      BY <1>5, <2>1, <2>2, <2>3
  <1> QED
    BY <1>3, <1>4, <1>6 DEF EInv, EnoughNodes

\* Outside of a pass nothing is planned, and nothing is handed out.
LEMMA EInvCalm ==
    ASSUME BjsAssumption, DaemonTypeOK, EInv, Fewer, ~Passing' \/ (pc' = pc /\ ~Passing)
    PROVE  EInv'
  <1>1. NodesInv'
    BY FewerNodes DEF EInv
  <1>2. ~Passing' /\ pc' # "fork"
    BY DEF Passing
  <1> QED
    BY <1>1, <1>2 DEF EInv, EnoughNodes, FreeInv

\* No step but those of a pass hands out nodes.
LEMMA EInvOutside ==
    ASSUME BjsAssumption, IInv, TInv, EInv,
           \/ \E j \in Ids : client_remove_job(j) \/ client_destroy(j) \/ wait_on_children(j)
           \/ \E c \in Clusters : update_cluster_status(c) \/ persistent_job_load(c)
           \/ \E req \in Submissions : client_submit_job(req)
           \/ Tick \/ Schedule \/ Expire \/ EndPass \/ Crash \/ persistent_job_add
    PROVE  EInv'
  <1>1. DaemonTypeOK /\ CurInv
    BY DEF IInv
  <1>2. CASE Expire
    <2>1. Expired \in SUBSET Nat /\ Expired \subseteq Ids
      BY DEF Expired, Started, Jobs, Ids
    <2>2. Min(Expired) \in Ids
      BY <1>2, <2>1, MinLemma DEF Expire
    <2>3. Calm
      BY <1>1, <1>2, <2>2, CalmSteps DEF Expire
    <2> QED
      BY <1>1, <1>2, <2>3, CalmFewer, EInvCalm DEF Expire, Passing
  <1>3. CASE Schedule \/ persistent_job_add
    <2>1. Calm
      BY <1>1, <1>3, CalmSteps DEF Schedule, persistent_job_add
    <2> QED
      BY <1>1, <1>3, <2>1, CalmFewer, EInvCalm DEF Schedule, persistent_job_add, Passing
  <1>4. CASE EndPass
    <2>1. Calm
      BY <1>1, <1>4, CalmSteps DEF EndPass
    <2> QED
      BY <1>1, <1>4, <2>1, CalmFewer, EInvCalm DEF EndPass, Passing
  <1>5. CASE Tick \/ Crash \/ \E c \in Clusters : update_cluster_status(c)
    <2>1. Calm
      BY <1>1, <1>5, CalmSteps
    <2> QED
      BY <1>1, <1>5, <2>1, CalmFewer, EInvCalm DEF Tick, Crash, update_cluster_status, Passing
  <1>6. CASE \E j \in Ids : client_remove_job(j) \/ client_destroy(j) \/ wait_on_children(j)
    <2>1. Calm
      BY <1>1, <1>6, CalmSteps DEF client_remove_job, client_destroy, wait_on_children
    <2> QED
      BY <1>1, <1>6, <2>1, CalmFewer, EInvCalm
         DEF client_remove_job, client_destroy, wait_on_children, Passing
  <1>7. ASSUME NEW c \in Clusters, persistent_job_load(c)
        PROVE  EInv'
    <2>1. \A j \in Ids : job'[j] # NoJob => job'[j].state = "queued"
      BY <1>7 DEF persistent_job_load, Queue
    <2>2. Fewer
      BY <2>1 DEF Fewer, Started, Jobs
    <2> QED
      BY <1>1, <1>7, <2>2, EInvCalm DEF persistent_job_load, Passing
  <1>8. ASSUME NEW req \in Submissions, client_submit_job(req)
        PROVE  EInv'
    <2>1. \A j \in Ids : job'[j] = job[j] \/ job'[j].state = "queued"
      BY <1>1, <1>8 DEF client_submit_job, DaemonTypeOK, Queue
    <2>2. Fewer
      BY <2>1 DEF Fewer, Started, Jobs
    <2> QED
      BY <1>1, <1>8, <2>2, EInvCalm DEF client_submit_job, Passing
  <1> QED
    BY <1>2, <1>3, <1>4, <1>5, <1>6, <1>7, <1>8

\* Every step keeps what is counted, unless nodes are down.
LEMMA EInvInductive ==
    ASSUME BjsAssumption, NoneDown
    PROVE  /\ Init => EInv
           /\ IInv /\ TInv /\ EInv /\ [Next]_vars => EInv'
  <1>1. ASSUME Init
        PROVE  EInv
    <2>1. Started = {}
      BY <1>1 DEF Init, Started, Jobs
    <2> QED
      BY <1>1, <2>1 DEF Init, EInv, EnoughNodes, NodesInv, FreeInv, Passing
  <1>2. ASSUME IInv, TInv, EInv, [Next]_vars
        PROVE  EInv'
    <2>1. CASE Loop
      BY <1>2, <2>1, EInvBegin, EInvSimple, EInvShared, EInvFiller, EInvFork, EInvOutside
         DEF Loop
    <2>2. CASE \/ \E req \in Submissions : client_submit_job(req)
               \/ \E j \in Ids : client_remove_job(j) \/ client_destroy(j) \/ wait_on_children(j)
               \/ \E c \in Clusters : update_cluster_status(c)
               \/ Tick \/ Crash
      BY <1>2, <2>2, EInvOutside
    <2>3. CASE UNCHANGED vars
      <3>1. Started' = Started /\ job' = job /\ pc' = pc /\ pass' = pass /\ policy' = policy
            /\ cluster' = cluster
        BY <2>3 DEF vars, Started, Jobs
      <3>2. Idle' = Idle
        BY <3>1 DEF Idle, Nodes, bjs_node_idle, bjs_node_up, Load
      <3> QED
        BY <1>2, <3>1, <3>2 DEF EInv, EnoughNodes, NodesInv, FreeInv, Passing
    <2> QED
      BY <1>2, <2>1, <2>2, <2>3 DEF Next
  <1> QED
    BY <1>1, <1>2

\* A job is started with as many nodes as it asked for (bjs_start_job): by shared and
\* filler whatever nodes are down, by simple as long as none is.
THEOREM BjsEnoughNodes ==
    ASSUME NoneDown
    PROVE  Spec => []EnoughNodes
  <1>1. EInv => EnoughNodes
    BY DEF EInv
  <1>2. Init => TInv /\ EInv
    BY TInvInductive, EInvInductive, BjsAssumption
  <1>3. IInv /\ TInv /\ EInv /\ [Next]_vars => TInv' /\ EInv'
    BY TInvInductive, EInvInductive, BjsAssumption
  <1> QED
    BY <1>1, <1>2, <1>3, BjsInvariant, PTL DEF Spec

=============================================================================
