------------------------ MODULE OnceConsumableStack ------------------------
(***************************************************************************)
(* The lock-free stack of continuations every shared state owns:           *)
(* detail::once_consumable_stack<continuation> and its only user,          *)
(* detail::continuations_stack (push-or-call, execute).                    *)
(*                                                                         *)
(* Each pusher pushes one continuation, so a pusher's identity also names  *)
(* its node and its continuation.  One consumer makes the state ready.     *)
(* Every atomic access to head_ is a step of its own; code between two     *)
(* atomic accesses touches only memory private to the thread and is part   *)
(* of the preceding step.                                                  *)
(*                                                                         *)
(* Memory orders are modelled by happens-before views: sees[t] is the set  *)
(* of threads whose writes made before their first access to head_ are     *)
(* visible to t, headView what the value stored in head_ carries along its *)
(* release sequence.                                                       *)
(***************************************************************************)
EXTENDS Naturals, Sequences, FiniteSets

CONSTANTS
  Pushers,    \* threads that attach one continuation each
  Consumer,   \* the thread that stores the result and executes the stack
  Throwing,   \* pushers whose continuation leaves with an exception
  NULL,       \* the null pointer
  CONSUMED    \* consumed_marker(): the address of the stack itself

\* Nodes never alias the marker, the null pointer or the consumer.
ASSUME StackAssumption ==
  /\ Consumer \notin Pushers
  /\ NULL \notin Pushers
  /\ CONSUMED \notin Pushers
  /\ NULL # CONSUMED
  /\ Throwing \subseteq Pushers

VARIABLES
  head,       \* head_
  next,       \* next[p]: the next field of p's node
  node,       \* node[p]: who owns p's node
  pc,         \* pc[p]: where pusher p stands in continuations_stack::push
  phase,      \* what is being done with the detached list
  list,       \* the forward_list returned by consume (or made by ~stack)
  cursor,     \* iterator of execute's loop, then the deleter's pointer
  calls,      \* calls[p]: number of invocations of p's continuation
  observed,   \* observed[p]: is_consumed() returned true to p
  sees,       \* sees[t]: happens-before view of thread t
  headView,   \* happens-before view published through head_
  destroyed,  \* the stack object's lifetime has ended
  order       \* history: the pushes that succeeded, oldest first

vars == <<head, next, node, pc, phase, list, cursor, calls, observed, sees,
          headView, destroyed, order>>

Threads == Pushers \cup {Consumer}

-----------------------------------------------------------------------------

Init ==
  /\ head = NULL
  /\ next = [p \in Pushers |-> NULL]
  /\ node = [p \in Pushers |-> "none"]
  /\ pc = [p \in Pushers |-> "start"]
  /\ phase = "idle"
  /\ list = NULL
  /\ cursor = NULL
  /\ calls = [p \in Pushers |-> 0]
  /\ observed = [p \in Pushers |-> FALSE]
  /\ sees = [t \in Threads |-> {t}]
  /\ headView = {}
  /\ destroyed = FALSE
  /\ order = <<>>

\* Mutant: a relaxed load.
AcquireHead_Relaxed(t) == UNCHANGED <<sees, headView>>

\* A load (or a failed compare-exchange) of head_ with acquire order.
AcquireHead(t) ==
  /\ sees' = [sees EXCEPT ![t] = @ \cup headView]
  /\ UNCHANGED headView

\* A read-modify-write of head_ with acq_rel order.
AcqRelHead(t) ==
  /\ sees' = [sees EXCEPT ![t] = @ \cup headView]
  /\ headView' = headView \cup sees[t]

\* Mutant: any pushed node passes for the marker.
IsConsumed_NotEmpty(p) ==
  /\ ~destroyed
  /\ pc[p] = "start"
  /\ ~observed[p]
  /\ observed' = [observed EXCEPT ![p] = head # NULL]
  /\ AcquireHead(p)
  /\ UNCHANGED <<head, next, node, pc, phase, list, cursor, calls, destroyed,
                 order>>

\* future_state_base's clients poll the state with is_consumed.
IsConsumed(p) ==
  /\ ~destroyed
  /\ pc[p] = "start"
  /\ ~observed[p]
  /\ observed' = [observed EXCEPT ![p] = head = CONSUMED]
  /\ AcquireHead(p)
  /\ UNCHANGED <<head, next, node, pc, phase, list, cursor, calls, destroyed,
                 order>>

\* push up to the first compare-exchange: allocate the node, load head_.  On
\* a consumed stack the value is moved back and the node deallocated.
PushLoad(p) ==
  /\ ~destroyed
  /\ pc[p] = "start"
  /\ AcquireHead(p)
  /\ IF head = CONSUMED
       THEN /\ pc' = [pc EXCEPT ![p] = "call"]
            /\ UNCHANGED <<next, node>>
       ELSE /\ pc' = [pc EXCEPT ![p] = "cas"]
            /\ next' = [next EXCEPT ![p] = head]
            /\ node' = [node EXCEPT ![p] = "owned"]
  /\ UNCHANGED <<head, phase, list, cursor, calls, observed, destroyed, order>>

\* Mutant: head_.store(node) instead of the compare-exchange.
PushCasSucceeds_PlainStore(p) ==
  /\ pc[p] = "cas"
  /\ head # CONSUMED
  /\ head' = p
  /\ node' = [node EXCEPT ![p] = "linked"]
  /\ pc' = [pc EXCEPT ![p] = "done"]
  /\ order' = Append(order, p)
  /\ AcqRelHead(p)
  /\ UNCHANGED <<next, phase, list, cursor, calls, observed, destroyed>>

\* Mutant: node.release() is missing, so leaving push deletes the node.
PushCasSucceeds_NoRelease(p) ==
  /\ pc[p] = "cas"
  /\ head = next[p]
  /\ head' = p
  /\ node' = [node EXCEPT ![p] = "freed"]
  /\ pc' = [pc EXCEPT ![p] = "done"]
  /\ order' = Append(order, p)
  /\ AcqRelHead(p)
  /\ UNCHANGED <<next, phase, list, cursor, calls, observed, destroyed>>

\* compare_exchange_strong finds the expected head: the node is linked and
\* the stack takes its ownership.
PushCasSucceeds(p) ==
  /\ pc[p] = "cas"
  /\ head = next[p]
  /\ head' = p
  /\ node' = [node EXCEPT ![p] = "linked"]
  /\ pc' = [pc EXCEPT ![p] = "done"]
  /\ order' = Append(order, p)
  /\ AcqRelHead(p)
  /\ UNCHANGED <<next, phase, list, cursor, calls, observed, destroyed>>

\* Mutant: the retry loop does not look for the marker.
PushCasFails_MarkerIgnored(p) ==
  /\ pc[p] = "cas"
  /\ head # next[p]
  /\ next' = [next EXCEPT ![p] = head]
  /\ AcquireHead(p)
  /\ UNCHANGED <<head, node, pc, phase, list, cursor, calls, observed,
                 destroyed, order>>

\* Mutant: a push refused in the retry loop is reported as a success.
PushCasFails_ReturnsTrue(p) ==
  /\ pc[p] = "cas"
  /\ head # next[p]
  /\ AcquireHead(p)
  /\ IF head = CONSUMED
       THEN /\ next' = [next EXCEPT ![p] = NULL]
            /\ node' = [node EXCEPT ![p] = "none"]
            /\ pc' = [pc EXCEPT ![p] = "done"]
       ELSE /\ next' = [next EXCEPT ![p] = head]
            /\ UNCHANGED <<node, pc>>
  /\ UNCHANGED <<head, phase, list, cursor, calls, observed, destroyed, order>>

\* It finds another head, which it writes into node->next: the marker ends
\* the push, anything else makes it retry.
PushCasFails(p) ==
  /\ pc[p] = "cas"
  /\ head # next[p]
  /\ AcquireHead(p)
  /\ IF head = CONSUMED
       THEN /\ next' = [next EXCEPT ![p] = NULL]
            /\ node' = [node EXCEPT ![p] = "none"]
            /\ pc' = [pc EXCEPT ![p] = "call"]
       ELSE /\ next' = [next EXCEPT ![p] = head]
            /\ UNCHANGED <<node, pc>>
  /\ UNCHANGED <<head, phase, list, cursor, calls, observed, destroyed, order>>

\* continuations_stack::push after push returned false.
CallInline(p) ==
  /\ pc[p] = "call"
  /\ pc' = [pc EXCEPT ![p] = "done"]
  /\ calls' = [calls EXCEPT ![p] = @ + 1]
  /\ UNCHANGED <<head, next, node, phase, list, cursor, observed, sees,
                 headView, destroyed, order>>

\* Mutant: head_ is exchanged with the null pointer.
Consume_NoMarker ==
  /\ ~destroyed
  /\ phase = "idle"
  /\ head' = NULL
  /\ list' = head
  /\ cursor' = head
  /\ phase' = "run"
  /\ AcqRelHead(Consumer)
  /\ UNCHANGED <<next, node, pc, calls, observed, destroyed, order>>

\* execute: exchange head_ with the marker and start walking the list.
Consume ==
  /\ ~destroyed
  /\ phase = "idle"
  /\ head' = CONSUMED
  /\ list' = head
  /\ cursor' = head
  /\ phase' = "run"
  /\ AcqRelHead(Consumer)
  /\ UNCHANGED <<next, node, pc, calls, observed, destroyed, order>>

\* One round of execute's loop.  An exception leaves the loop at once; the
\* list is then destroyed with whatever was not called yet.
CallNext ==
  /\ phase = "run"
  /\ cursor # NULL
  /\ calls' = [calls EXCEPT ![cursor] = @ + 1]
  /\ IF cursor \in Throwing
       THEN phase' = "free" /\ cursor' = list
       ELSE phase' = "run" /\ cursor' = next[cursor]
  /\ UNCHANGED <<head, next, node, pc, list, observed, sees, headView,
                 destroyed, order>>

\* The loop is over: ~forward_list starts at the first node.
LoopEnds ==
  /\ phase = "run"
  /\ cursor = NULL
  /\ phase' = "free"
  /\ cursor' = list
  /\ UNCHANGED <<head, next, node, pc, list, calls, observed, sees, headView,
                 destroyed, order>>

\* forward_list_deleter: read next, then deallocate.
DeleteNode ==
  /\ phase = "free"
  /\ IF cursor = NULL
       THEN /\ phase' = "done"
            /\ UNCHANGED <<cursor, node>>
       ELSE /\ node' = [node EXCEPT ![cursor] = "freed"]
            /\ cursor' = next[cursor]
            /\ UNCHANGED phase
  /\ UNCHANGED <<head, next, pc, list, calls, observed, sees, headView,
                 destroyed, order>>

\* ~once_consumable_stack, run by the last owner of the state: no operation
\* is in progress.  A stack nobody consumed still owns its nodes.
Destroy ==
  /\ ~destroyed
  /\ \A p \in Pushers : pc[p] \in {"start", "done"}
  /\ phase \in {"idle", "done"}
  /\ destroyed' = TRUE
  /\ IF head \in {NULL, CONSUMED}
       THEN UNCHANGED <<phase, list, cursor>>
       ELSE phase' = "free" /\ list' = head /\ cursor' = head
  /\ UNCHANGED <<head, next, node, pc, calls, observed, sees, headView, order>>

\* Nothing is left to do (not a step of the code: it lets TLC tell the end
\* of a run from a deadlock).
Terminated ==
  /\ destroyed
  /\ phase \in {"idle", "done"}
  /\ UNCHANGED vars

PusherStep(p) ==
  IsConsumed(p) \/ PushLoad(p) \/ PushCasSucceeds(p) \/ PushCasFails(p)
    \/ CallInline(p)

ListStep == CallNext \/ LoopEnds \/ DeleteNode

Next ==
  \/ \E p \in Pushers : PusherStep(p)
  \/ Consume
  \/ ListStep
  \/ Destroy
  \/ Terminated

Spec == Init /\ [][Next]_vars

\* A thread inside push, execute or a destructor keeps running: none of
\* them blocks.  Nobody has to start an operation.
Fairness ==
  /\ \A p \in Pushers :
       WF_vars(PushCasSucceeds(p) \/ PushCasFails(p) \/ CallInline(p))
  /\ WF_vars(ListStep)

FairSpec == Spec /\ Fairness

-----------------------------------------------------------------------------

TypeOK ==
  /\ head \in Pushers \cup {NULL, CONSUMED}
  /\ next \in [Pushers -> Pushers \cup {NULL}]
  /\ node \in [Pushers -> {"none", "owned", "linked", "freed"}]
  /\ pc \in [Pushers -> {"start", "cas", "call", "done"}]
  /\ phase \in {"idle", "run", "free", "done"}
  /\ list \in Pushers \cup {NULL}
  /\ cursor \in Pushers \cup {NULL}
  /\ calls \in [Pushers -> Nat]
  /\ observed \in [Pushers -> BOOLEAN]
  /\ sees \in [Threads -> SUBSET Threads]
  /\ headView \in SUBSET Threads
  /\ destroyed \in BOOLEAN
  /\ order \in Seq(Pushers)

\* A continuation is called at most once, and only after the stack was
\* consumed: neither the consumer's loop nor a pusher that lost the race to
\* it (continuations_stack::push) calls it a second time or too early.
CalledAtMostOnce ==
  \A p \in Pushers :
    /\ calls[p] <= 1
    /\ calls[p] = 1 => head = CONSUMED

\* The third promise of the class comment: whoever learns that the stack is
\* consumed (is_consumed, a refused push) sees what the consumer did before
\* consume; and the consumer sees the node contents of every pusher whose
\* node it is about to dereference.
Visibility ==
  /\ \A p \in Pushers :
       observed[p] \/ pc[p] = "call" => Consumer \in sees[p]
  /\ phase = "run" /\ cursor # NULL => cursor \in sees[Consumer]

\* Neither the loop nor the deleter nor a pusher reaches a node through a
\* dangling pointer: what head_, the iterator and the deleter point to is a
\* live node that the stack owns, whatever a concurrent push was doing.
NoUseAfterFree ==
  /\ ~destroyed /\ head \in Pushers => node[head] = "linked"
  /\ phase \in {"run", "free"} /\ cursor # NULL => node[cursor] = "linked"

\* Every node is reclaimed, and a continuation whose push succeeded is lost
\* only when the stack was destroyed unconsumed or a more recently pushed
\* continuation threw out of execute's loop.
NothingLost ==
  phase = "done" =>
    \A i \in 1..Len(order) :
      /\ node[order[i]] = "freed"
      /\ \/ calls[order[i]] = 1
         \/ head # CONSUMED
         \/ \E j \in i+1..Len(order) :
              order[j] \in Throwing /\ calls[order[j]] = 1

\* Once is_consumed has answered true, a later push by the same thread never
\* leaves its continuation on the stack (is_ready() implies that notify and
\* then run at once).
ObservedIsFinal ==
  \A p \in Pushers : observed[p] => node[p] = "none" /\ head = CONSUMED

-----------------------------------------------------------------------------
\* What the stack promises, as an abstract specification.

CntStatus(p) ==
  IF calls[p] > 0 THEN "called"
  ELSE IF node[p] = "freed" THEN "dropped"
  ELSE IF pc[p] \in {"call", "done"} THEN "attached"
  ELSE "idle"

Contract == INSTANCE ContinuationsContract WITH
  Continuations <- Pushers,
  ready <- head = CONSUMED,
  closed <- destroyed,
  status <- [p \in Pushers |-> CntStatus(p)]

\* Every step of the lock-free code is a step of the contract or invisible.
ImplementsContract == Contract!Spec

\* The same with the contract's own promise of progress.
ImplementsFairContract == Contract!FairSpec
=============================================================================
