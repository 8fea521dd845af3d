--------------------------------- MODULE Bjs ---------------------------------
(***************************************************************************)
(* The job scheduler bjs: the jobs, their copies in the spool directory    *)
(* and the main loop (bjs.c), and the policies simple, shared and filler.  *)
(*                                                                         *)
(* One pool, whose policy is one of Policies.  A policy uses the node of   *)
(* index i of the cluster for the node i of its pool.  Job IDs are given   *)
(* in increasing order, and jobs are listed and restored in that order, so *)
(* the lists of jobs are in the order of the IDs.  Time is kept relative:  *)
(* `left' is what start_time and the clock leave a job of its seconds.     *)
(*                                                                         *)
(* The daemon may die between any two changes of what outlives it, the     *)
(* spool directory and the processes it forks; so a step changes one.      *)
(***************************************************************************)
EXTENDS Integers, FiniteSets, FiniteSetsExt

CONSTANTS MaxId,      \* the bound on job IDs
          PoolNodes,  \* p->nnodes
          Submissions,\* what the jobs submitted ask for
          Clusters,   \* what xp_nodeset_list may give: the count, and the nodes up
          Policies,
          MaxCrash    \* the bound on the times the daemon dies

ASSUME BjsAssumption ==
    /\ MaxId \in Nat /\ MaxCrash \in Nat
    /\ PoolNodes \in Nat \ {0}
    /\ Submissions \subseteq [kind : {"batch", "restartable", "interactive"},
                             nodes : Nat \ {0}, secs : Nat \ {0}]
    /\ \A c \in Clusters : c.nids \in Nat /\ c.up \subseteq 1..c.nids
    /\ Policies \subseteq {"simple", "shared", "filler"}

VARIABLES
    policy,    \* p->policy
    cluster,   \* bjs_nids and the nodes with up set
    job,       \* bjs_jobs
    job_id,    \* the next job ID
    spool,     \* the files of the spool directory
    pc,        \* what the main loop is doing
    pass,      \* a call of the schedule callback: what it knows and has to look at
    did,       \* did_something
    crashes,   \* how often the daemon died
    owed,      \* batch jobs whose client was told ok, not started and not removed
    ran        \* how often each job in the queue or the spool ran, at most 2

vars == <<policy, cluster, job, job_id, spool, pc, pass, did, crashes, owed, ran>>

Ids == 0..MaxId - 1

Reqs == [kind : {"batch", "restartable", "interactive"}, nodes : Nat, secs : Nat]

\* nodes: j->nodes.  process: is there a child with j->pid?
Job == [state : {"queued", "started"}, req : Reqs, left : Nat, nodes : SUBSET Nat,
        process : BOOLEAN]

NoJob == [state |-> "none"]
NoFile == [state |-> "none"]
Torn == [state |-> "torn"]

Jobs == {j \in Ids : job[j] # NoJob}
Started == {j \in Jobs : job[j].state = "started"}
Waiting == {j \in Jobs : job[j].state = "queued"}

\* A job that is in the queue.
Queue(req) == [state |-> "queued", req |-> req, left |-> req.secs, nodes |-> {},
               process |-> FALSE]

\* The n least of S, or all of it.
Least(S, n) == {x \in S : Cardinality({y \in S : y < x}) < n}

-----------------------------------------------------------------------------
(* Nodes                                                                   *)

\* The nodes of the pool that are there.
Nodes == {n \in 1..PoolNodes : n <= cluster.nids}

\* The jobs on node n.
Load(n) == Cardinality({j \in Started : n \in job[j].nodes})

\* Mutant: a node with jobs is idle too.
bjs_node_idle_up(n) == n \in Nodes \cap cluster.up

bjs_node_up(n) == n \in Nodes \cap cluster.up
bjs_node_idle(n) == bjs_node_up(n) /\ Load(n) = 0

\* Mutant: a node with jobs can be used.
bjs_node_usable_any(n) == n \in Nodes

\* No job has a negative priority.
bjs_node_usable(n) == n \in Nodes /\ Load(n) = 0

\* bjs_job_runnable; its search for other jobs only ever compares j with itself.
bjs_job_runnable(j) == job[j].req.nodes <= Cardinality(Nodes \cap cluster.up)

Runnable == {j \in Waiting : bjs_job_runnable(j)}

Usable == {n \in Nodes : bjs_node_usable(n)}
Idle == {n \in Nodes : bjs_node_idle(n)}
Up == {n \in Nodes : bjs_node_up(n)}

-----------------------------------------------------------------------------
(* The schedule of the filler: the nodes free from each of its times on.   *)

Before(se, t) == Max({s \in DOMAIN se : s <= t})

add_sched_event(se, t, adj) ==
    [s \in DOMAIN se \cup {t} |->
        (IF s \in DOMAIN se THEN se[s] ELSE se[Before(se, t)])
        + (IF s >= t THEN adj ELSE 0)]

Reserve(se, t, secs, nodes) ==
    add_sched_event(add_sched_event(se, t, -nodes), t + secs, nodes)

\* find_hole: the first time from which on there are enough nodes, up to and
\* including a time of the schedule at the very end of the hole.
find_hole(se, secs, nodes) ==
    LET S == {t \in DOMAIN se : \A u \in DOMAIN se : u \in t..t + secs => se[u] >= nodes}
    IN  IF S = {} THEN -1 ELSE Min(S)

\* The end of a started job; the nodes the jobs J asked for; and the schedule of the
\* started jobs: each is entered from time 0 to its end.
End(j) == IF job[j].left = 0 THEN 1 ELSE job[j].left

Asked(J) == UNION {{j} \X (1..job[j].req.nodes) : j \in J}

Busy ==
    [t \in {0} \cup {End(j) : j \in Started} |->
        Cardinality(Up) - Cardinality(Asked({j \in Started : End(j) > t}))]

-----------------------------------------------------------------------------
(* Clients, children and the cluster.                                      *)

\* bjs_job_remove: the nodes are given back, the file is unlinked.
bjs_job_remove(j) ==
    /\ job' = [job EXCEPT ![j] = NoJob]
    /\ spool' = [spool EXCEPT ![j] = NoFile]
    /\ owed' = owed \ {j}
    /\ ran' = [ran EXCEPT ![j] = 0]

\* client_submit_job: the job has an ID whether or not it is accepted.  The file of
\* a batch job is created here and written in persistent_job_add.
client_submit_job(req) ==
    /\ pc = "io" /\ job_id < MaxId
    /\ job_id' = job_id + 1
    /\ \/ /\ req.nodes > PoolNodes
          /\ UNCHANGED <<job, spool, pc>>
       \/ /\ req.nodes <= PoolNodes
          /\ job' = [job EXCEPT ![job_id] = Queue(req)]
          /\ IF req.kind = "interactive"
             THEN UNCHANGED <<spool, pc>>
             ELSE spool' = [spool EXCEPT ![job_id] = Torn] /\ pc' = "save"
    /\ UNCHANGED <<policy, cluster, pass, did, crashes, owed, ran>>

\* The file is written; the client is told ok.
persistent_job_add ==
    LET j == job_id - 1 IN
    /\ pc = "save"
    /\ spool' = [spool EXCEPT ![j] = job[j].req]
    /\ owed' = owed \cup {j}
    /\ pc' = "io"
    /\ UNCHANGED <<policy, cluster, job, job_id, pass, did, crashes, ran>>

\* client_remove_job, of the owner or root.
client_remove_job(j) ==
    /\ pc = "io" /\ j \in Jobs
    /\ bjs_job_remove(j)
    /\ UNCHANGED <<policy, cluster, job_id, pc, pass, did, crashes>>

\* client_destroy, when the client of an interactive job goes away.
client_destroy(j) ==
    /\ pc = "io" /\ j \in Jobs /\ job[j].req.kind = "interactive"
    /\ bjs_job_remove(j)
    /\ UNCHANGED <<policy, cluster, job_id, pc, pass, did, crashes>>

\* A child exits; wait_on_children.
wait_on_children(j) ==
    /\ pc = "io" /\ j \in Jobs /\ job[j].process
    /\ bjs_job_remove(j)
    /\ UNCHANGED <<policy, cluster, job_id, pc, pass, did, crashes>>

\* update_cluster_status: only another list of nodes is taken over, here one of
\* another length, and then every node is taken from the jobs that run.
update_cluster_status(c) ==
    /\ pc = "io" /\ c.nids # cluster.nids
    /\ cluster' = c
    /\ job' = [j \in Ids |-> IF j \in Jobs THEN [job[j] EXCEPT !.nodes = {}] ELSE NoJob]
    /\ UNCHANGED <<policy, job_id, spool, pc, pass, did, crashes, owed, ran>>

\* A second goes by in select.
Tick ==
    /\ pc = "io" /\ \E j \in Started : job[j].left > 0
    /\ job' = [j \in Ids |-> IF j \in Started /\ job[j].left > 0
                             THEN [job[j] EXCEPT !.left = @ - 1] ELSE job[j]]
    /\ UNCHANGED <<policy, cluster, job_id, spool, pc, pass, did, crashes, owed, ran>>

-----------------------------------------------------------------------------
(* The schedule callback of the policy, called until it does nothing.      *)

Schedule ==
    /\ pc = "io"
    /\ pc' = "expire"
    /\ did' = FALSE
    /\ UNCHANGED <<policy, cluster, job, job_id, spool, pass, crashes, owed, ran>>

\* Mutant: no job has a time limit.
Expired_never == {}

\* The jobs whose time is up; shared_schedule does not look.
Expired == IF policy = "shared" THEN {} ELSE {j \in Started : job[j].left = 0}

Expire ==
    /\ pc = "expire" /\ Expired # {}
    /\ bjs_job_remove(Min(Expired))
    /\ did' = TRUE
    /\ UNCHANGED <<policy, cluster, job_id, pc, pass, crashes>>

\* What a policy does first: the jobs it will look at, in order; for the filler the
\* schedule; for shared the place of each node, those with the fewest jobs first.
Place(n) == Cardinality({m \in Up : Load(m) < Load(n) \/ (Load(m) = Load(n) /\ m < n)})

NoPass == [rest |-> {}, cur |-> -1, se |-> <<>>, places |-> <<>>, idx |-> 0]

BeginPass ==
    /\ pc = "expire" /\ Expired = {}
    /\ pass' = [rest |-> Runnable, cur |-> -1,
                se |-> IF policy = "filler" THEN Busy ELSE <<>>,
                places |-> IF policy = "shared" THEN [n \in Up |-> Place(n)] ELSE <<>>,
                idx |-> 0]
    /\ pc' = "pass"
    /\ UNCHANGED <<policy, cluster, job, job_id, spool, did, crashes, owed, ran>>

\* Mutant: the file of every job stays until the job is removed.
StartedFile_kept(j) == spool[j]

\* The file of a job that starts.
StartedFile(j) == IF job[j].req.kind = "restartable" THEN spool[j] ELSE NoFile

\* bjs_node_allocate and bjs_start_job, up to the fork.
bjs_start_job(j, nodes) ==
    /\ job' = [job EXCEPT ![j].state = "started", ![j].nodes = nodes]
    /\ spool' = [spool EXCEPT ![j] = StartedFile(j)]
    /\ owed' = owed \ {j}
    /\ pc' = "fork"

\* simple_schedule: in order, until a job asks for more nodes than are usable.
\* First come idle nodes; bjs_node_allocate refuses the others, which are down.
simple_schedule ==
    /\ pc = "pass" /\ policy = "simple" /\ pass.rest # {}
    /\ LET j == Min(pass.rest)
           n == job[j].req.nodes
       IN  \/ /\ n > Cardinality(Usable)
              /\ pass' = [pass EXCEPT !.rest = {}]
              /\ UNCHANGED <<job, spool, owed, pc>>
           \/ /\ n <= Cardinality(Usable)
              /\ pass' = [pass EXCEPT !.rest = @ \ {j}, !.cur = j]
              /\ bjs_start_job(j, Least(Idle, n))
    /\ UNCHANGED <<policy, cluster, job_id, did, crashes, ran>>

\* Mutant: the index runs past the nodes.
After_past(n) == pass.idx + n

\* The index of the node behind the next n.
After(n) == (pass.idx + n) % Cardinality(DOMAIN pass.places)

\* shared_schedule: round and round the nodes.
shared_schedule ==
    /\ pc = "pass" /\ policy = "shared" /\ pass.rest # {}
    /\ LET j == Min(pass.rest)
           n == job[j].req.nodes
           size == Cardinality(DOMAIN pass.places)
       IN  /\ bjs_start_job(j, {x \in DOMAIN pass.places :
                                   (pass.places[x] - pass.idx) % size < n})
           /\ pass' = [pass EXCEPT !.rest = @ \ {j}, !.cur = j, !.idx = After(n)]
    /\ did' = TRUE
    /\ UNCHANGED <<policy, cluster, job_id, crashes, ran>>

\* Mutant: only a job that starts now is put into the schedule.
Placed_now(j, start) ==
    IF start = 0 THEN Reserve(pass.se, start, job[j].req.secs, job[j].req.nodes) ELSE pass.se

\* The schedule with waiting job j in it, unless there is no hole for it.
Placed(j, start) ==
    IF start = -1 THEN pass.se
    ELSE Reserve(pass.se, start, job[j].req.secs, job[j].req.nodes)

\* filler_schedule: each job gets the first hole it fits in; one that fits at once
\* gets idle nodes.
filler_schedule ==
    /\ pc = "pass" /\ policy = "filler" /\ pass.rest # {}
    /\ LET j == Min(pass.rest)
           n == job[j].req.nodes
           start == find_hole(pass.se, job[j].req.secs, n)
       IN  /\ pass' = [pass EXCEPT !.rest = @ \ {j}, !.cur = j, !.se = Placed(j, start)]
           /\ \/ /\ start # 0
                 /\ UNCHANGED <<job, spool, owed, pc, did>>
              \/ /\ start = 0
                 /\ bjs_start_job(j, Least(Idle, n))
                 /\ did' = TRUE
    /\ UNCHANGED <<policy, cluster, job_id, crashes, ran>>

\* start_job_batch, with a fork that may fail, or start_job_interactive.
start_job ==
    /\ pc = "fork"
    /\ LET j == pass.cur IN
       \/ /\ job[j].req.kind # "interactive"
          /\ job' = [job EXCEPT ![j].process = TRUE]
          /\ ran' = [ran EXCEPT ![j] = Min({@ + 1, 2})]
       \/ /\ job[j].req.kind # "interactive"
          /\ UNCHANGED <<job, ran>>
       \/ /\ job[j].req.kind = "interactive"
          /\ ran' = [ran EXCEPT ![j] = Min({@ + 1, 2})]
          /\ UNCHANGED job
    /\ pc' = "pass"
    /\ UNCHANGED <<policy, cluster, job_id, spool, pass, did, crashes, owed>>

EndPass ==
    /\ pc = "pass" /\ pass.rest = {}
    /\ pass' = NoPass
    /\ pc' = IF did THEN "expire" ELSE "io"
    /\ did' = FALSE
    /\ UNCHANGED <<policy, cluster, job, job_id, spool, crashes, owed, ran>>

-----------------------------------------------------------------------------
(* The end of the daemon and its next start.                               *)

Crash ==
    /\ pc # "down" /\ crashes < MaxCrash
    /\ pc' = "down"
    /\ crashes' = crashes + 1
    /\ job' = [j \in Ids |-> NoJob]
    /\ pass' = NoPass
    /\ did' = FALSE
    /\ UNCHANGED <<policy, cluster, job_id, spool, owed, ran>>

\* persistent_job_load_single: a file without an S-expression is left alone.
Loadable == {j \in Ids : spool[j] \notin {NoFile, Torn}}

\* Mutant: the job IDs start at 0 again.
NextId_zero == 0

\* The ID of every file counts.
NextId == Max({0} \cup {j + 1 : j \in {i \in Ids : spool[i] # NoFile}})

\* persistent_job_load, after config_load and update_cluster_status.
persistent_job_load(c) ==
    /\ pc = "down"
    /\ cluster' = c
    /\ job' = [j \in Ids |-> IF j \in Loadable THEN Queue(spool[j]) ELSE NoJob]
    /\ job_id' = NextId
    /\ ran' = [j \in Ids |-> IF j \in Loadable THEN ran[j] ELSE 0]
    /\ pc' = "io"
    /\ UNCHANGED <<policy, spool, pass, did, crashes, owed>>

-----------------------------------------------------------------------------
Init ==
    /\ policy \in Policies
    /\ cluster \in Clusters
    /\ job = [j \in Ids |-> NoJob]
    /\ job_id = 0
    /\ spool = [j \in Ids |-> NoFile]
    /\ pc = "io"
    /\ pass = NoPass
    /\ did = FALSE
    /\ crashes = 0
    /\ owed = {}
    /\ ran = [j \in Ids |-> 0]

Loop ==
    \/ persistent_job_add
    \/ Schedule
    \/ Expire
    \/ BeginPass
    \/ simple_schedule
    \/ shared_schedule
    \/ filler_schedule
    \/ start_job
    \/ EndPass
    \/ \E c \in Clusters : persistent_job_load(c)

Next ==
    \/ Loop
    \/ \E req \in Submissions : client_submit_job(req)
    \/ \E j \in Ids : client_remove_job(j) \/ client_destroy(j) \/ wait_on_children(j)
    \/ \E c \in Clusters : update_cluster_status(c)
    \/ Tick
    \/ Crash

Spec == Init /\ [][Next]_vars

\* The daemon goes round its loop and is started again; time goes by in select.
Fairness == WF_vars(Loop) /\ SF_vars(Tick)

FairSpec == Spec /\ Fairness

-----------------------------------------------------------------------------
(* Properties                                                              *)

TypeOK ==
    /\ policy \in Policies
    /\ cluster \in Clusters
    /\ job \in [Ids -> Job \cup {NoJob}]
    /\ job_id \in 0..MaxId
    /\ spool \in [Ids -> Reqs \cup {NoFile, Torn}]
    /\ pc \in {"io", "save", "expire", "pass", "fork", "down"}
    /\ pass.rest \in SUBSET Ids /\ pass.cur \in Ids \cup {-1} /\ pass.idx \in 0..PoolNodes
    /\ \A t \in DOMAIN pass.se : t \in Nat /\ pass.se[t] \in Int
    /\ \A n \in DOMAIN pass.places : n \in 1..PoolNodes /\ pass.places[n] \in 0..PoolNodes
    /\ did \in BOOLEAN
    /\ crashes \in 0..MaxCrash
    /\ owed \in SUBSET Ids
    /\ ran \in [Ids -> 0..2]

\* No more than one job is ever scheduled on a node (manual.tex, of simple), however
\* submissions, exits, time limits and changes of the cluster come together.
NodeExclusive == policy # "shared" => \A n \in 1..PoolNodes : Load(n) <= 1

\* A job is started with as many nodes as it asked for: what the plan of the filler
\* counts as free is idle when the nodes are handed out.
EnoughNodes ==
    pc = "fork" => Cardinality(job[pass.cur].nodes) = job[pass.cur].req.nodes

\* A batch job whose client was told ok, and that neither started nor was removed,
\* is in the spool directory, and in the queue whenever the daemon is up.
AcceptedSurvives ==
    /\ \A j \in owed : spool[j] \in Reqs
    /\ pc # "down" => owed \subseteq Waiting

\* A batch job that is not restartable never runs twice, whenever the daemon dies.
RunsOnce == \A j \in Jobs : job[j].req.kind # "restartable" => ran[j] <= 1

\* The start the filler has in mind for job j, and the first job that waits.
FirstWaiting == IF Runnable = {} THEN -1 ELSE Min(Runnable)
PlannedStart(j) == find_hole(Busy, job[j].req.secs, job[j].req.nodes)

\* Backfilling never delays the job at the head of the queue.
HeadNotDelayed ==
    [][(policy = "filler" /\ FirstWaiting # -1 /\ FirstWaiting' = FirstWaiting
        /\ cluster' = cluster /\ pc # "down" /\ pc' # "down")
       => PlannedStart(FirstWaiting)' <= PlannedStart(FirstWaiting)]_vars

\* Does job j wait, and are there as many nodes up as it asks for?
CanRun(j) == j \in Waiting /\ job[j].req.nodes <= Cardinality(cluster.up \cap 1..PoolNodes)

\* No job that can run waits for ever, however large it is and whatever comes behind
\* it: it is started or removed, or the nodes go away.
JobStarts == \A j \in Ids : CanRun(j) ~> ~CanRun(j)

=============================================================================
