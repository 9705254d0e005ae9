--------------------------- MODULE JunctionRouter ---------------------------
(***************************************************************************)
(* The junction implements the router: where the state of the abstract     *)
(* specification is in the state of Junction.                              *)
(***************************************************************************)
EXTENDS Junction

\* A message without its bytes.
Plain(m) == [src |-> m.src, seq |-> m.seq, to |-> m.to]

\* Read and queued on the line, or still in a stream that is read for it.
Queued(l) == {Plain(queue[l][i].msg) : i \in DOMAIN queue[l]}
Unread(c) == {Plain(inbox[c][i]) : i \in DOMAIN inbox[c]}
SourcesOf(l) == {c \in Conns : at[c] \in Lines /\ l \in Peers[at[c]]}

\* The state of the router.
Broken == {c \in Conns : phase[c] = "broken"}
Wrote == [c \in Conns |-> Len(sent[c])]
Due == [l \in Lines |-> Queued(l) \cup UNION {Unread(c) : c \in SourcesOf(l)}]
Got == [c \in Conns |-> [i \in DOMAIN out[c] |-> Plain(out[c][i].msg)]]

\* The connections of a run can be counted: the junction opens one at a time.
ASSUME FiniteAssumption == IsFiniteSet(Conns)

\* Every line id of the run fits the SLINE byte, and no callback fails.
CannotFail == NoFailingMorph /\ Cardinality(Conns) <= MaxSline

R == INSTANCE Router WITH
        home     <- at,
        broken   <- Broken,
        members  <- writers,
        wrote    <- Wrote,
        due      <- Due,
        got      <- Got,
        Reliable <- CannotFail,
        MayLose  <- MayShutdown

(* Reading, queueing and dispatching with line ids in two bytes of each    *)
(* packet does what the router does: each step of the junction is a step   *)
(* of the router or leaves its state alone.                                *)
RouterSpec == R!Spec
=============================================================================
