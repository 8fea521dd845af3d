------------------------------- MODULE MCBjs --------------------------------
(* Small instances of Bjs: the clusters statfs may list.                    *)
EXTENDS Bjs

Cluster(n, up) == [nids |-> n, up |-> up]

\* Every node is up; another machine may have a node more.
AllUp == {Cluster(2, {1, 2}), Cluster(3, {1, 2, 3})}

Req(kind, nodes, secs) == [kind |-> kind, nodes |-> nodes, secs |-> secs]

\* A long interactive job, a large one that has to wait behind it, a short one that
\* fits in front of that, and one that is too large for the pool.
Mixed == {Req("interactive", 1, 2), Req("batch", 2, 1), Req("restartable", 1, 1),
          Req("batch", 3, 1)}

\* One node of two is down.
OneDown == {Cluster(2, {1})}

=============================================================================
