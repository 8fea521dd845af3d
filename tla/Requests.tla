------------------------------ MODULE Requests ------------------------------
(***************************************************************************)
(* What a 9P server promises its clients about their requests, whatever it *)
(* does to serve them: every request is open until it is answered or       *)
(* flushed; only open requests are answered, each once, in any order; a    *)
(* Tflush is answered with a Rflush, which also ends the request it        *)
(* flushes; and the replies reach the client in order.                     *)
(***************************************************************************)
EXTENDS Integers, Sequences

CONSTANTS Conns,    \* the connections
          Tags,     \* the tags a client uses
          NOTAG     \* no tag

VARIABLES
    open,     \* the requests that are neither answered nor flushed
    out,      \* replies on their way to the client
    sent,     \* tags the client waits for
    oldtag    \* for a Tflush the client waits for, the tag it flushes

vars == <<open, out, sent, oldtag>>

-----------------------------------------------------------------------------
\* The replies a step adds to those of connection c.
Added(c) == SubSeq(out'[c], Len(out[c]) + 1, Len(out'[c]))

\* The tags the replies s end.
Ended(c, s) ==
    {s[i].tag : i \in DOMAIN s} \cup {oldtag'[c][s[i].tag] : i \in DOMAIN s}

\* The replies s are replies to requests of S, each to one that no earlier
\* reply of s ends.
Legal(c, S, s) ==
    \A i \in DOMAIN s :
        /\ s[i].tag \in S
        /\ s[i].type = IF oldtag'[c][s[i].tag] = NOTAG THEN "R" ELSE "Rflush"
        /\ \A j \in DOMAIN s : j < i =>
              s[i].tag \notin {s[j].tag, oldtag'[c][s[j].tag]}

\* The server, with the requests S open, answers some of them, or none.
Serve(c, S) ==
    /\ out' = [out EXCEPT ![c] = @ \o Added(c)]
    /\ Legal(c, S, Added(c))
    /\ open' = [open EXCEPT ![c] = S \ Ended(c, Added(c))]

-----------------------------------------------------------------------------
\* The client sends a request, or a Tflush of tag o when o is a tag.
Request(c, t, o) ==
    /\ t \notin sent[c]
    /\ \A f \in sent[c] : oldtag[c][f] # t
    /\ o # t
    /\ sent' = [sent EXCEPT ![c] = @ \cup {t}]
    /\ oldtag' = [oldtag EXCEPT ![c][t] = o]
    /\ Serve(c, open[c] \cup {t})

\* Requests are answered some time after they were sent.
Respond(c) ==
    /\ Serve(c, open[c])
    /\ UNCHANGED <<sent, oldtag>>

\* The client reads a reply, and may use the tags it ends again.
Receive(c) ==
    /\ out[c] # <<>>
    /\ LET ended == {Head(out[c]).tag, oldtag[c][Head(out[c]).tag]} IN
       /\ sent' = [sent EXCEPT ![c] = @ \ ended]
       /\ oldtag' = [oldtag EXCEPT ![c] =
                        [t \in Tags |-> IF t \in ended THEN NOTAG ELSE @[t]]]
    /\ out' = [out EXCEPT ![c] = Tail(@)]
    /\ UNCHANGED open

\* The connection starts over with a Tversion, whose tag is in ts, or is closed
\* when ts is empty.  What was open is forgotten, on both sides.
Reset(c, ts) ==
    /\ open' = [open EXCEPT ![c] = {}]
    /\ sent' = [sent EXCEPT ![c] = ts]
    /\ oldtag' = [oldtag EXCEPT ![c] = [t \in Tags |-> NOTAG]]
    /\ \/ ts = {} /\ out' = [out EXCEPT ![c] = <<>>]
       \/ \E t \in Tags : /\ ts = {t}
                          /\ out' = [out EXCEPT ![c] = <<[tag |-> t, type |-> "R"]>>]

Init ==
    /\ open = [c \in Conns |-> {}]
    /\ out = [c \in Conns |-> <<>>]
    /\ sent = [c \in Conns |-> {}]
    /\ oldtag = [c \in Conns |-> [t \in Tags |-> NOTAG]]

Next ==
    \E c \in Conns :
        \/ \E t \in Tags, o \in Tags \cup {NOTAG} : Request(c, t, o)
        \/ Respond(c)
        \/ Receive(c)
        \/ Reset(c, {})
        \/ \E t \in Tags : Reset(c, {t})

Spec == Init /\ [][Next]_vars

=============================================================================
