------------------------------- MODULE Tspawn -------------------------------
(***************************************************************************)
(* The tree spawn of xcpufs (tspawn.c, file.c): the command "clone" copies *)
(* a session to a list of nodes.  The server divides the list: it copies   *)
(* the session to some of the nodes itself, and writes to the "ctl" file   *)
(* of the first ones a clone command for a part of the rest, which they    *)
(* answer when they are done with it.                                      *)
(*                                                                         *)
(* Server 0 has the session, servers 1..N are the list.  tspawn() creates  *)
(* one node after the other; it waits for the answers of each to mount,    *)
(* create and open in a poll loop of its own (spc_rpc), so copies to       *)
(* earlier nodes go on, and may end, before it returns.                    *)
(***************************************************************************)
EXTENDS Integers, FiniteSets

CONSTANTS N,          \* the length of the list
          Maxes       \* the values of "max sessions"

ASSUME TspawnAssumption == N \in Nat \ {0} /\ Maxes \subseteq Int

Nodes == 1..N
Servers == 0..N

VARIABLES
    srv,       \* the Tspawn of each server, and how its clone command stands
    node,      \* the Node of each node of the list, at the server that copies to it
    made,      \* how often a node was created
    max,       \* max sessions
    empty      \* does the session have no file to copy?

vars == <<srv, node, made, max, empty>>

-----------------------------------------------------------------------------
(* The division of the list.                                               *)

Lesser(a, b) == IF a < b THEN a ELSE b

\* Mutant: the rest of the division is forgotten.
FloorDiv(a, b) == a \div b

CeilDiv(a, b) == (a \div b) + (IF a % b # 0 THEN 1 ELSE 0)

\* n: the nodes a server with ns nodes copies to itself.
NNodes(ns) == IF max > 0 THEN Lesser(max, ns) ELSE ns

\* m: the largest number of nodes in a group, its first one included.
GroupSize(ns) == IF max > 0 THEN CeilDiv(ns, NNodes(ns)) ELSE 1

\* cn: the number of groups.  ce: where they end.
Groups(ns) == IF GroupSize(ns) > 1 THEN CeilDiv(ns - NNodes(ns), GroupSize(ns) - 1) ELSE 0

GroupsEnd(ns) == ns - NNodes(ns) + Groups(ns)

\* Mutant: the first node of a group is on its own list.
EndOfGroupLess(ns, i) == IF i < GroupsEnd(ns) THEN i + GroupSize(ns) - 1 ELSE i + 1

\* e: the end of the group that starts at i; a node behind the groups is alone.
EndOfGroup(ns, i) ==
    IF i < GroupsEnd(ns) THEN Lesser(i + GroupSize(ns), GroupsEnd(ns)) ELSE i + 1

-----------------------------------------------------------------------------
(* Tspawn.  The list of a server is nodes lo..hi; i counts those that were *)
(* looked at.  "copying" is a server that has left tspawn() (Async), and   *)
(* "done" and "error" the answers Rwrite and Rerror.                       *)

TspawnState == [st : {"idle", "spawning", "copying", "done", "error"},
                lo : 1..(N + 1), hi : 0..N, i : 0..N, idx : Nat, ndone : Nat]

NoTspawn == [st |-> "idle", lo |-> 1, hi |-> 0, i |-> 0, idx |-> 0, ndone |-> 0]

Length(s) == s.hi - s.lo + 1

\* A Node, with the part of the list its clone command is for.  "cloning" is a
\* node that has all files and is to answer the clone command; "dropped" one
\* whose copy was given up.
Node == [copy : {"none", "copying", "cloning", "copied", "failed", "dropped"},
         by : Servers, lo : 1..(N + 1), hi : 0..N]

NoNode == [copy |-> "none", by |-> 0, lo |-> 1, hi |-> 0]

\* The clone command for nodes lo..hi
Cloning(lo, hi) == [NoTspawn EXCEPT !.st = "spawning", !.lo = lo, !.hi = hi]

\* Mutant: only the last callback ends the clone command.
AsyncOnly(s) == [s EXCEPT !.st = "copying"]

\* tspawn() returns: are all copies done already?
Async(s) == [s EXCEPT !.st = IF s.ndone >= NNodes(Length(s)) THEN "done" ELSE "copying"]

\* Mutant: a server is done when the nodes created so far are.
DoneSoFar(s) == [s EXCEPT !.ndone = @ + 1,
                          !.st = IF s.ndone + 1 >= s.idx THEN "done" ELSE @]

\* node_cb, and tspawn_done with it: the copy to a node has ended.  The error of
\* a node is lost: tspawn_done keeps it only when there was one before, and
\* sctl_execute_commands does not look for it.
node_cb(s) ==
    [s EXCEPT !.ndone = @ + 1,
              !.st = IF @ = "copying" /\ s.ndone + 1 >= NNodes(Length(s)) THEN "done" ELSE @]

\* Is the copy to node c still being made for server k?
Busy(k, c) == node[c].by = k /\ node[c].copy \in {"copying", "cloning"}

-----------------------------------------------------------------------------
(* The steps                                                               *)

\* A client writes the clone command.
sctl_write ==
    /\ srv[0].st = "idle"
    /\ srv' = [srv EXCEPT ![0] = Cloning(1, N)]
    /\ UNCHANGED <<node, made, max, empty>>

\* One turn of the loops of tspawn(): node_create and node_setup of the next
\* node, which has the files of the session, and the clone command for the
\* rest of its group.  With nothing to copy rxfile_copy_start calls node_cb.
tspawn(k) ==
    /\ srv[k].st = "spawning"
    /\ LET s == srv[k]
           c == s.lo + s.i
           e == EndOfGroup(Length(s), s.i)
           t == [s EXCEPT !.i = e, !.idx = @ + 1]
           atonce == empty /\ e = s.i + 1
           u == IF atonce THEN node_cb(t) ELSE t
       IN  /\ node' = [node EXCEPT ![c] =
                  [copy |-> IF atonce THEN "copied" ELSE "copying",
                   by |-> k, lo |-> c + 1, hi |-> s.lo + e - 1]]
           /\ made' = [made EXCEPT ![c] = IF @ < 2 THEN @ + 1 ELSE @]
           /\ srv' = [srv EXCEPT ![k] = IF e < Length(s) THEN u ELSE Async(u)]
    /\ UNCHANGED <<max, empty>>

\* The next node can not be mounted, or refuses a file: what was started is
\* given up, and the clone command answered with the error.
tspawn_error(k) ==
    /\ srv[k].st = "spawning"
    /\ srv' = [srv EXCEPT ![k].st = "error"]
    /\ node' = [c \in Nodes |-> IF Busy(k, c) THEN [node[c] EXCEPT !.copy = "dropped"]
                                              ELSE node[c]]
    /\ UNCHANGED <<made, max, empty>>

\* The copy to node c ends, well or not.
Ends(c, how) ==
    /\ node' = [node EXCEPT ![c].copy = how]
    /\ srv' = [srv EXCEPT ![node[c].by] = node_cb(@)]
    /\ UNCHANGED <<made, max, empty>>

\* rxfile_copy: the last file is written.
rxfile_copy(c) ==
    /\ node[c].copy = "copying"
    /\ node[c].lo > node[c].hi
    /\ Ends(c, "copied")

\* The last file is the "ctl" file of a node, which starts to clone.
rxfile_copy_ctl(c) ==
    /\ node[c].copy = "copying"
    /\ node[c].lo <= node[c].hi
    /\ node' = [node EXCEPT ![c].copy = "cloning"]
    /\ srv' = [srv EXCEPT ![c] = Cloning(node[c].lo, node[c].hi)]
    /\ UNCHANGED <<made, max, empty>>

\* Node c answers the clone command.
Answers(c) ==
    /\ node[c].copy = "cloning"
    /\ srv[c].st \in {"done", "error"}
    /\ Ends(c, IF srv[c].st = "done" THEN "copied" ELSE "failed")

\* rxfile_notify: a file can not be written, or the connection to node c is lost.
rxfile_error(c) ==
    /\ node[c].copy \in {"copying", "cloning"}
    /\ Ends(c, "failed")

-----------------------------------------------------------------------------
Init ==
    /\ srv = [k \in Servers |-> NoTspawn]
    /\ node = [c \in Nodes |-> NoNode]
    /\ made = [c \in Nodes |-> 0]
    /\ max \in Maxes
    /\ empty \in BOOLEAN

Next ==
    \/ sctl_write
    \/ \E k \in Servers : tspawn(k) \/ tspawn_error(k)
    \/ \E c \in Nodes : \/ rxfile_copy(c) \/ rxfile_copy_ctl(c)
                        \/ Answers(c) \/ rxfile_error(c)

Spec == Init /\ [][Next]_vars

\* A server goes on with the loops of tspawn(), or they fail; a file is written, or
\* that fails; and an answer arrives.
Fairness ==
    /\ \A k \in Servers : WF_vars(tspawn(k) \/ tspawn_error(k))
    /\ \A c \in Nodes : WF_vars(rxfile_copy(c) \/ rxfile_copy_ctl(c) \/ Answers(c))

FairSpec == Spec /\ Fairness

-----------------------------------------------------------------------------
(* Properties                                                              *)

TypeOK ==
    /\ srv \in [Servers -> TspawnState]
    /\ node \in [Nodes -> Node]
    /\ made \in [Nodes -> 0..2]
    /\ max \in Maxes
    /\ empty \in BOOLEAN

\* The array of nodes is never written behind its end, and is full when tspawn()
\* returns: otherwise the count of the copies would never be reached.
NodesFit ==
    \A k \in Servers :
        /\ srv[k].st # "idle" => srv[k].idx <= NNodes(Length(srv[k]))
        /\ srv[k].st \in {"copying", "done"} => srv[k].idx = NNodes(Length(srv[k]))

\* No node of the list gets the session twice, from one server or from two.
MadeOnce == \A c \in Nodes : made[c] <= 1

\* A clone command is answered when no copy for it is being made any more, and
\* when all went well, every node of the list has the session by then.
AnsweredLast ==
    /\ \A k \in Servers : srv[k].st \in {"done", "error"} => \A c \in Nodes : ~Busy(k, c)
    /\ (srv[0].st = "done" /\ \A c \in Nodes : node[c].copy # "failed")
           => \A c \in Nodes : node[c].copy = "copied"

\* A clone command is answered, whatever fails, wherever in the tree.
CloneAnswered == (srv[0].st = "spawning") ~> (srv[0].st \in {"done", "error"})

=============================================================================
