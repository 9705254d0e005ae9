------------------------------- MODULE XTimer -------------------------------
(***************************************************************************)
(* The timers of a board (sys/xtimer_32/xtimer.c): one hardware counter    *)
(* that wraps, one match register (cpu/cc3200/periph/timer.c) and a list   *)
(* of timers ordered by the turns of the counter they still have to wait   *)
(* and by the value at which they are due.                                 *)
(*                                                                         *)
(* A thread reads the counter and inserts its timer in two steps: it can   *)
(* be preempted between them.  Both handlers run in steps, because the     *)
(* counter goes on between a reading of it, the callbacks and the writing  *)
(* of the match register; a step of a thread with interrupts off is one    *)
(* action.                                                                 *)
(*                                                                         *)
(* The code is exact only as long as the counter stays clear of some       *)
(* edges.  A history variable records that one of them has been met:       *)
(*   - the counter wraps before a match has been handled (_time_left then  *)
(*     takes every timer for due);                                         *)
(*   - it wraps, or passes the target, between the reading of it for a     *)
(*     timer and the insertion (for an offset shorter than the overhead it *)
(*     has passed it from the start), or the target is 0, which means "not *)
(*     set";                                                               *)
(*   - it passes the target of the first timer between the reading of it   *)
(*     in a handler and the writing of the match register: the match comes *)
(*     a turn later;                                                       *)
(*   - set_msg64 finds a long_target of an earlier use, or its offset      *)
(*     reaches over two turns, of which long_target can count only one.    *)
(***************************************************************************)
EXTENDS Integers, FiniteSets

CONSTANTS
    Timers,      \* the xtimer_t objects
    Nil,         \* no timer
    Turn,        \* values of the counter: 2^32
    Offsets,     \* the relative times that are asked for, low 32 bits
    Turns,       \* and their high 32 bits, or the long offset of _xtimer_set64
    Overhead,    \* XTIMER_OVERHEAD
    Backoff,     \* XTIMER_BACKOFF
    IsrBackoff,  \* XTIMER_ISR_BACKOFF
    Latency,     \* bound: ticks a pending or running handler can take, less than a turn
    MaxTurns,    \* bound: turns of the counter
    PastEdges    \* bound: FALSE stops the counter and the threads at the first edge

ASSUME XTimerAssumption ==
    /\ IsFiniteSet(Timers) /\ Nil \notin Timers
    /\ Turn \in Nat \ {0, 1} /\ Offsets \subseteq 0..Turn - 1 /\ Turns \subseteq 0..Turn - 2
    /\ Overhead \in 0..Turn /\ Backoff \in Nat /\ Overhead < Backoff
    /\ IsrBackoff \in Nat \ {0} /\ Latency \in 0..Turn - 1 /\ MaxTurns \in Nat

VARIABLES
    now,      \* the counter
    turns,    \* how often it has wrapped
    head,     \* timer_list_head
    nxt,      \* nxt[t]: timer->next
    target,   \* target[t]: timer->target, 0 when the timer is not set
    long,     \* long[t]: timer->long_target
    match,    \* the match register, Turn while its interrupt is masked
    irqs,     \* pending interrupts: "match", "wrap"
    isr,      \* the handler: where it is, and the reference of the match handler
    late,     \* ticks since an interrupt became pending
    panic,    \* an assertion has failed
    setting,  \* setting[t]: the turn in which a thread has read the counter and
              \* computed t's target, which is not inserted yet; else -1
    due,      \* history: the absolute time asked for, or 0
    edge,     \* history: one of the edges of the counter has been met
    early     \* history: a timer was shot before its time

timerVars == <<head, nxt, target, long, setting, due>>
hwVars    == <<match, irqs, isr, late>>
vars      == <<now, turns, timerVars, hwVars, panic, edge, early>>

Off == [pc |-> "off", ref |-> 0]

TypeOK ==
    /\ now \in 0..Turn - 1 /\ turns \in 0..MaxTurns /\ (turns = 0 => now # 0)
    /\ head \in Timers \cup {Nil} /\ nxt \in [Timers -> Timers \cup {Nil}]
    /\ target \in [Timers -> 0..Turn - 1]
    /\ long \in [Timers -> Nat]
    /\ match \in 0..Turn /\ irqs \subseteq {"match", "wrap"}
    /\ isr \in [pc : {"off", "fire", "look", "wrap", "program"}, ref : 0..Turn - 1]
    /\ isr.pc = "program" => head # Nil
    /\ late \in Nat
    /\ setting \in [Timers -> -1..MaxTurns] /\ due \in [Timers -> Nat]
    /\ {panic, edge, early} \subseteq BOOLEAN

Init ==
    /\ now = 1 /\ turns = 0
    /\ head = Nil /\ nxt = [t \in Timers |-> Nil]
    /\ target = [t \in Timers |-> 0] /\ long = [t \in Timers |-> 0]
    /\ match = Turn /\ irqs = {} /\ isr = Off /\ late = 0
    /\ setting = [t \in Timers |-> -1] /\ due = [t \in Timers |-> 0]
    /\ panic = FALSE /\ edge = FALSE /\ early = FALSE

-----------------------------------------------------------------------------
(* The counter and the list                                                *)

\* The time since the start.
Clock == turns * Turn + now

\* _time_left: how long the first timer of the list has still to wait.
TimeLeft == IF now < isr.ref \/ long[head] * Turn + target[head] < now
              THEN 0 ELSE long[head] * Turn + target[head] - now

\* The match handler waits for a timer that is nearly due.
Spinning == isr.pc = "fire" /\ head # Nil /\ TimeLeft \in 1..IsrBackoff - 1

\* How far a behaviour is followed.
Followed == ~panic /\ (edge => PastEdges)

\* The counter advances; a match and a wrap become pending.  Interrupts are
\* masked, and handlers run, for at most Latency ticks.  An edge: the counter
\* wraps before a match has been handled.
Tick ==
    /\ Followed /\ turns < MaxTurns
    /\ late < Latency \/ (irqs = {} /\ isr = Off) \/ Spinning
    /\ now' = (now + 1) % Turn
    /\ turns' = IF now' = 0 THEN turns + 1 ELSE turns
    /\ irqs' = irqs \cup (IF now' = match THEN {"match"} ELSE {})
                    \cup (IF now' = 0 THEN {"wrap"} ELSE {})
    /\ late' = IF irqs = {} /\ isr = Off THEN 0 ELSE late + 1
    /\ edge' = (edge \/ (now' = 0 /\ ("match" \in irqs \/ isr # Off)))
    /\ UNCHANGED <<timerVars, match, isr, panic, early>>

\* The n-th timer of the list.
Node == LET node[n \in 0..Cardinality(Timers)] ==
                IF n = 0 THEN head ELSE IF node[n - 1] = Nil THEN Nil ELSE nxt[node[n - 1]]
        IN  node

\* A walk along a timer that is its own successor does not end.
Cyclic == Node[Cardinality(Timers)] # Nil
Listed == {Node[n] : n \in 0..Cardinality(Timers)} \ {Nil}

\* _lltimer_set.  In the match handler it does nothing until the handler ends.
ProgramMatch(value) ==
    /\ match' = value
    /\ irqs' = IF value = now THEN irqs \cup {"match"} ELSE irqs

\* _add_timer_to_list: behind the timers that wait for fewer turns, and
\* those of the same turn that are not due later.
Before(x, t) == x = t \/ long[x] < long[t] \/ (long[x] = long[t] /\ target[x] <= target[t])

Insert(t) ==
    LET at == Cardinality({n \in 0..Cardinality(Timers) :
                              \A k \in 0..n : Node[k] # Nil /\ Before(Node[k], t)})
    IN  /\ nxt' = [x \in Timers |-> IF at > 0 /\ x = Node[at - 1] THEN t
                                    ELSE IF x = t THEN Node[at] ELSE nxt[x]]
        /\ head' = IF at = 0 THEN t ELSE head
        /\ IF at = 0 /\ long[t] = 0 THEN ProgramMatch(target[t]) ELSE UNCHANGED <<match, irqs>>

\* _remove: the match register is set for the timer that is first now.
TakeOut(t) ==
    /\ head' = IF head = t THEN nxt[t] ELSE head
    /\ nxt' = [x \in Timers |-> IF nxt[x] = t /\ x \in Listed /\ head # t THEN nxt[t] ELSE nxt[x]]
    /\ IF head = t /\ nxt[t] # Nil THEN ProgramMatch(target[nxt[t]]) ELSE UNCHANGED <<match, irqs>>

-----------------------------------------------------------------------------
(* Threads: they run while no interrupt is pending or being handled        *)

ThreadRuns == Followed /\ ~Cyclic /\ isr = Off /\ irqs = {}

\* The counter is read and the target computed, less the overhead: the high
\* part is not negative in the code, but the largest value.
Ticks(o) == now + o - Overhead

Compute(t, o, more, wait) ==
    /\ setting[t] = -1
    /\ due' = [due EXCEPT ![t] = Clock + o + more * Turn]
    /\ target' = [target EXCEPT ![t] = Ticks(o) % Turn]
    /\ long' = [long EXCEPT ![t] = wait]
    /\ setting' = [setting EXCEPT ![t] = turns]

\* Mutant: the timer is set again without being taken out first.
SetTwice(t, o) ==
    /\ ThreadRuns
    /\ Compute(t, o, 0, Ticks(o) \div Turn)
    /\ UNCHANGED <<head, nxt, match, irqs, now, turns, isr, late, panic, edge, early>>

\* _xtimer_set: a timer that is set is first taken out of the list; one that
\* is due within the back-off is shot by the thread itself.
Set(t, o) ==
    /\ ThreadRuns
    /\ IF target[t] # 0 THEN TakeOut(t) ELSE UNCHANGED <<head, nxt, match, irqs>>
    /\ IF o < Backoff
         THEN due' = [due EXCEPT ![t] = 0] /\ setting[t] = -1 /\ UNCHANGED <<target, long, setting>>
         ELSE Compute(t, o, 0, Ticks(o) \div Turn)
    /\ UNCHANGED <<now, turns, isr, late, panic, edge, early>>

\* _xtimer_set64 on a timer that is not set (_xtimer_tsleep has a new one).
Sleep(t, o, more) ==
    /\ ThreadRuns /\ due[t] = 0
    /\ Compute(t, o, more, (Ticks(o) \div Turn + more) % Turn)
    /\ UNCHANGED <<head, nxt, match, irqs, now, turns, isr, late, panic, edge, early>>

\* _xtimer_set_msg64 on a timer that is not set, with a 64-bit offset.
\* long_target becomes 1 if the target needs more than 32 bits and is left
\* alone otherwise.  Two edges: a timer that was taken out while it waited for
\* another turn, and a target that is more than one turn away.
SetMsg(t, o, more) ==
    LET carry == Ticks(o) + more * Turn \notin 0..Turn - 1 IN
    /\ ThreadRuns /\ due[t] = 0
    /\ Compute(t, o, more, IF carry THEN 1 ELSE long[t])
    /\ edge' = (edge \/ (~carry /\ long[t] # 0) \/ Ticks(o) + more * Turn >= 2 * Turn)
    /\ UNCHANGED <<head, nxt, match, irqs, now, turns, isr, late, panic, early>>

\* _add_timer_to_list, with interrupts off: one may become pending meanwhile.
\* The edges: the counter has wrapped, or has passed the target, since it was
\* read, or the target is 0, which means "not set".
AddToList(t) ==
    /\ ~panic /\ ~Cyclic /\ isr = Off /\ setting[t] # -1
    /\ Insert(t)
    /\ setting' = [setting EXCEPT ![t] = -1]
    /\ edge' = (edge \/ setting[t] # turns \/ target[t] = 0 \/ due[t] - Overhead < Clock)
    /\ UNCHANGED <<target, long, due, now, turns, isr, late, panic, early>>

\* xtimer_remove.
Remove(t) ==
    /\ ThreadRuns /\ target[t] # 0 /\ setting[t] = -1
    /\ TakeOut(t)
    /\ due' = [due EXCEPT ![t] = 0]
    /\ UNCHANGED <<target, long, setting, now, turns, isr, late, panic, edge, early>>

-----------------------------------------------------------------------------
(* irq_timer0_handler: a wrap is handled before a match                    *)

\* The first timer is shot: its target becomes 0, its callback is called, and
\* it is taken off the list.
ShootFirst ==
    /\ due' = [due EXCEPT ![head] = 0]
    /\ target' = [target EXCEPT ![head] = 0]
    /\ head' = nxt[head]
    /\ early' = (early \/ Clock < due[head] - Overhead)

\* _timer_callback: the match is cleared and masked.
MatchBegins ==
    /\ ~panic /\ isr = Off /\ "match" \in irqs /\ "wrap" \notin irqs
    /\ irqs' = irqs \ {"match"} /\ match' = Turn
    /\ isr' = [pc |-> "fire", ref |-> now]
    /\ UNCHANGED <<now, turns, timerVars, late, panic, edge, early>>

\* Mutant: a timer that is nearly due is shot without waiting for it.
MatchShootsSoon ==
    /\ isr.pc = "fire" /\ head # Nil /\ TimeLeft < IsrBackoff
    /\ ShootFirst
    /\ UNCHANGED <<now, turns, nxt, long, setting, hwVars, panic, edge>>

\* The first timer is due.
MatchShoots ==
    /\ isr.pc = "fire" /\ head # Nil /\ TimeLeft = 0
    /\ ShootFirst
    /\ UNCHANGED <<now, turns, nxt, long, setting, hwVars, panic, edge>>

\* The loop ends: the next timer is not due, not even soon.
MatchLeaves ==
    /\ isr.pc = "fire" /\ (head # Nil => TimeLeft >= IsrBackoff)
    /\ isr' = [isr EXCEPT !.pc = "look"]
    /\ UNCHANGED <<now, turns, timerVars, match, irqs, late, panic, edge, early>>

\* The handler is over, and so is its time.
Ends == isr' = Off /\ late' = 0

\* The counter is read again: the match is programmed for the next timer,
\* unless it waits for another turn or has been passed meanwhile.
MatchLooks ==
    /\ isr.pc = "look"
    /\ IF head # Nil /\ long[head] = 0
         THEN isr' = [pc |-> IF now > target[head] THEN "fire" ELSE "program", ref |-> now]
              /\ UNCHANGED late
         ELSE Ends
    /\ UNCHANGED <<now, turns, timerVars, match, irqs, panic, edge, early>>

\* _timer_wrap begins.
WrapBegins ==
    /\ ~panic /\ ~Cyclic /\ isr = Off /\ "wrap" \in irqs
    /\ irqs' = irqs \ {"wrap"}
    /\ isr' = [Off EXCEPT !.pc = "wrap"]
    /\ UNCHANGED <<now, turns, timerVars, match, late, panic, edge, early>>

\* The first timer is due in the new turn and its target is past.
FirstIsPast == head # Nil /\ long[head] = 1 /\ now > target[head]

\* The counter is read for the first timer, which is shot and left behind.
WrapShoots ==
    /\ ~panic /\ isr.pc = "wrap" /\ FirstIsPast
    /\ ShootFirst
    /\ long' = [long EXCEPT ![head] = 0]
    /\ UNCHANGED <<now, turns, nxt, setting, hwVars, panic, edge>>

\* All timers that are left wait for one turn less; none may be of the past turn.
OneTurnLess ==
    /\ panic' = (\E t \in Listed : long[t] = 0)
    /\ long' = [t \in Timers |-> IF t \in Listed /\ long[t] > 0 THEN long[t] - 1 ELSE long[t]]

\* Mutant: the match is not programmed for the timers of the new turn.
WrapQuiet ==
    /\ ~panic /\ isr.pc = "wrap" /\ ~FirstIsPast
    /\ OneTurnLess
    /\ Ends
    /\ UNCHANGED <<now, turns, head, nxt, target, setting, due, match, irqs, edge, early>>

\* The counter is read for the first timer, which is not past: if it is of the
\* new turn the match is to be programmed for it.
WrapPasses ==
    /\ ~panic /\ isr.pc = "wrap" /\ ~FirstIsPast
    /\ OneTurnLess
    /\ IF head # Nil /\ long[head] = 1 THEN isr' = [isr EXCEPT !.pc = "program"] /\ UNCHANGED late
                                       ELSE Ends
    /\ UNCHANGED <<now, turns, head, nxt, target, setting, due, match, irqs, edge, early>>

\* A handler ends with the match for the first timer.  An edge: the counter has
\* passed it since it was read.
Program ==
    /\ ~panic /\ isr.pc = "program"
    /\ ProgramMatch(target[head])
    /\ Ends
    /\ edge' = (edge \/ now > target[head])
    /\ UNCHANGED <<now, turns, timerVars, panic, early>>

-----------------------------------------------------------------------------
Thread(t) ==
    \/ \E o \in Offsets : Set(t, o) \/ \E more \in Turns : Sleep(t, o, more) \/ SetMsg(t, o, more)
    \/ AddToList(t)
    \/ Remove(t)

Next ==
    \/ Tick
    \/ MatchBegins \/ MatchShoots \/ MatchLeaves \/ MatchLooks
    \/ WrapBegins \/ WrapShoots \/ WrapPasses
    \/ Program
    \/ \E t \in Timers : Thread(t)

Spec == Init /\ [][Next]_vars

-----------------------------------------------------------------------------
(* Until an edge is met, the list holds exactly the timers that are set,   *)
(* once each, in the order in which they are due: whatever threads and     *)
(* handlers do to it, no timer is lost or linked to itself                 *)
(* (_add_timer_to_list, _remove, the handlers, _xtimer_set which takes a   *)
(* timer out before it sets it again).                                     *)
ListSound ==
    edge \/ panic \/
        /\ Node[Cardinality(Timers)] = Nil
        /\ Listed = {t \in Timers : due[t] # 0 /\ setting[t] = -1}
        /\ \A n \in 1..Cardinality(Timers) : Node[n] # Nil => due[Node[n - 1]] <= due[Node[n]]

(* Until an edge is met, no timer in the list is overdue by more than      *)
(* interrupts can be late: the match register is programmed for the first  *)
(* timer of the turn by whoever changed the head of the list, and a timer  *)
(* that waits for a later turn is handed over at the wrap (_lltimer_set,   *)
(* _timer_wrap, _timer_callback).  One of the edges is that the counter    *)
(* passes the target while a handler is about to program it.               *)
NotOverdue ==
    edge \/ panic \/ \A t \in Timers :
        due[t] # 0 /\ setting[t] = -1 => Clock <= due[t] - Overhead + Latency

(* The edges are all there are: without one no timer is shot before its    *)
(* time, and the assertion of _timer_wrap, that no timer of the past turn  *)
(* is left in the list when the counter wraps, holds.                      *)
WrongOnlyAfterEdge == early \/ panic => edge

(* "make sure we don't fire too early" (_timer_callback).                  *)
NeverEarly == ~early
=============================================================================
