------------------------------- MODULE Router -------------------------------
(***************************************************************************)
(* What the junction promises: every message that an endpoint writes is    *)
(* delivered once to each line its line is routed to, and there to all     *)
(* connected endpoints at once, or, if it is a response, to the endpoint   *)
(* it answers; the messages of one endpoint arrive in the order it wrote   *)
(* them.  An endpoint whose connection breaks writes no more, and the end  *)
(* of what it wrote may be lost.  There are no line ids, no queues and no  *)
(* tasks here.                                                             *)
(***************************************************************************)
EXTENDS Naturals, Sequences

CONSTANTS
    Lines,    \* the lines
    Conns,    \* the endpoints, each a single connection
    NoConn, NoLine,
    Peers,    \* Peers[l]: the lines l is routed to
    Reliable, \* no callback fails
    MayLose   \* a line may be closed with messages in its buffers

VARIABLES
    home,    \* home[c]: the line of endpoint c
    broken,  \* the endpoints whose connection was reset
    members, \* members[l]: the endpoints that are connected to l
    wrote,   \* wrote[c]: the messages c has written
    due,     \* due[l]: the messages that are to be delivered on l
    got      \* got[c]: the messages that were delivered to c

rvars == <<home, broken, members, wrote, due, got>>

Init ==
    /\ home = [c \in Conns |-> NoLine]
    /\ broken = {}
    /\ members = [l \in Lines |-> {}]
    /\ wrote = [c \in Conns |-> 0]
    /\ due = [l \in Lines |-> {}]
    /\ got = [c \in Conns |-> <<>>]

Arrive(c, l) ==
    /\ home[c] = NoLine
    /\ home' = [home EXCEPT ![c] = l]
    /\ UNCHANGED <<broken, members, wrote, due, got>>

Join(c) ==
    /\ home[c] # NoLine
    /\ members' = [members EXCEPT ![home[c]] = @ \cup {c}]
    /\ UNCHANGED <<home, broken, wrote, due, got>>

Leave(c) ==
    /\ home[c] # NoLine
    /\ members' = [members EXCEPT ![home[c]] = @ \ {c}]
    /\ UNCHANGED <<home, broken, wrote, due, got>>

\* A message to everybody, or a response to one that was delivered to c.
Write(c, to) ==
    LET m == [src |-> c, seq |-> wrote[c] + 1, to |-> to]
    IN  /\ home[c] # NoLine /\ c \notin broken
        /\ to = NoConn \/ \E i \in DOMAIN got[c] : to = got[c][i].src
        /\ wrote' = [wrote EXCEPT ![c] = @ + 1]
        /\ due' = [l \in Lines |-> IF l \in Peers[home[c]] THEN due[l] \cup {m} ELSE due[l]]
        /\ UNCHANGED <<home, broken, members, got>>

\* m has no predecessor of its own endpoint in S.
Oldest(m, S) == \A n \in S : n.src = m.src => n.seq >= m.seq

Deliver(l, m) ==
    /\ Oldest(m, due[l])
    /\ due' = [due EXCEPT ![l] = @ \ {m}]
    /\ \/ got' = [c \in Conns |-> IF c \in members[l] /\ m.to \in {NoConn, c}
                                  THEN Append(got[c], m) ELSE got[c]]
       \/ ~Reliable /\ UNCHANGED got
    /\ UNCHANGED <<home, broken, members, wrote>>

\* What is lost of an endpoint is the end of what it wrote.
Cut ==
    /\ due' \in [Lines -> SUBSET UNION {due[l] : l \in Lines}]
    /\ \A l \in Lines : /\ due'[l] \subseteq due[l]
                        /\ \A m \in due'[l], n \in due[l] :
                              n.src = m.src /\ n.seq < m.seq => n \in due'[l]

Lose ==
    /\ MayLose
    /\ Cut
    /\ UNCHANGED <<home, broken, members, wrote, got>>

\* The connection of c is reset: only messages of c are lost, and c stays
\* among the members.
Break(c) ==
    /\ home[c] # NoLine /\ c \notin broken
    /\ broken' = broken \cup {c}
    /\ Cut
    /\ \A l \in Lines : \A m \in due[l] : m.src # c => m \in due'[l]
    /\ UNCHANGED <<home, members, wrote, got>>

Next ==
    \/ \E c \in Conns : \/ \E l \in Lines : Arrive(c, l)
                        \/ Join(c) \/ Leave(c) \/ Break(c)
                        \/ \E to \in Conns \cup {NoConn} : Write(c, to)
    \/ \E l \in Lines : \E m \in due[l] : Deliver(l, m)
    \/ Lose

Spec == Init /\ [][Next]_rvars
=============================================================================
