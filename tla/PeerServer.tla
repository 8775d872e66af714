----------------------------- MODULE PeerServer -----------------------------
(***************************************************************************)
(* What the peer request server promises each peer (spec 4.4, 5), with no *)
(* queue, worker or continuation: a request makes the server owe the peer *)
(* the request's whole answer after everything owed before; the server    *)
(* sends owed messages one at a time and in order; only a peer's          *)
(* disconnect, once, cancels part of what is owed to it and not yet sent. *)
(***************************************************************************)
EXTENDS Sequences, SequencesExt

CONSTANTS
    Peers,          \* peer indices
    Requests,       \* the requests a peer may make
    Answer(_)       \* Answer(r): the messages that answer request r, in order

VARIABLES
    owed,           \* owed[p]: every message p is to receive, sent ones first
    sent,           \* sent[p]: the messages p received, in order
    connected       \* the peers that have not disconnected

vars == <<owed, sent, connected>>

Init ==
    /\ owed = [p \in Peers |-> <<>>]
    /\ sent = [p \in Peers |-> <<>>]
    /\ connected = Peers

\* a request of p: its answer is owed after all that is owed already
Submit(p) ==
    /\ p \in connected
    /\ \E r \in Requests : owed' = [owed EXCEPT ![p] = @ \o Answer(r)]
    /\ UNCHANGED <<sent, connected>>

\* the next owed message goes out
Deliver(p) ==
    /\ Len(sent[p]) < Len(owed[p])
    /\ sent' = [sent EXCEPT ![p] = Append(@, owed[p][Len(@) + 1])]
    /\ UNCHANGED <<owed, connected>>

\* p disconnects: what is owed is cut back, never below what was sent
Cancel(p) ==
    /\ p \in connected
    /\ connected' = connected \ {p}
    /\ \E k \in Len(sent[p])..Len(owed[p]) : owed' = [owed EXCEPT ![p] = SubSeq(@, 1, k)]
    /\ UNCHANGED sent

Next == \E p \in Peers : Submit(p) \/ Deliver(p) \/ Cancel(p)

Spec == Init /\ [][Next]_vars
=============================================================================
