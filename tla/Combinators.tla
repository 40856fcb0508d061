---------------------------- MODULE Combinators ----------------------------
(***************************************************************************)
(* when_any and when_all: a combined state that owns the futures it was    *)
(* given and attaches one continuation to each of them.  The continuation  *)
(* owns the combined state, so that state and inputs own each other until  *)
(* the inputs are resolved.                                                *)
(*                                                                         *)
(* Actor 0 is the thread in make(); actor i resolves input i.  A           *)
(* continuation that meets a ready input is called by actor 0 itself.      *)
(* Positions count from 1; index 0 stands for size_t(-1).                  *)
(***************************************************************************)
EXTENDS Naturals, FiniteSets

CONSTANT MaxSize    \* the longest sequence considered

ASSUME MaxSizeAssumption == MaxSize \in Nat

VARIABLES
  mode,      \* "any" or "all"
  size,      \* length of the sequence
  mpc,       \* where make() stands
  built,     \* inputs for_each is done with
  apc,       \* where each actor stands
  op,        \* inputs whose promise is in an operation, and owns the state
  ready,     \* inputs that are ready
  attached,  \* inputs with the combined state's continuation on the stack
  owner,     \* who owns the future of each input
  ext,       \* inputs that have a shared_future somewhere else
  cref,      \* owners of the combined state
  flag,      \* when_any_state::ready_flag_
  index,     \* when_any_state::result_.index
  remains,   \* when_all_state::operations_remains_
  done,      \* the combined state's continuations_ are executed
  client     \* the owner of the returned future

mvars == <<mode, size>>
ivars == <<op, ready, attached, owner, ext>>
rvars == <<flag, index, remains, done>>
vars == <<mvars, mpc, built, apc, ivars, cref, rvars, client>>

Positions == 1..MaxSize
Inputs == 1..size
Maker == 0
Actors == Positions \cup {Maker}

\* The owners of the combined state.
Make == 0
Result == MaxSize + 1
Continuation(i) == i

-----------------------------------------------------------------------------

\* Mutant: make() does not count itself.
Operations_OfInputs(n) == n

\* The constructor counts the inputs and make() itself.
Operations(n) == n + 1

Init ==
  /\ mode \in {"any", "all"}
  /\ size \in 0..MaxSize
  /\ mpc = "build"
  /\ built = 0
  /\ apc = [a \in Actors |-> "idle"]
  /\ op = {}
  /\ ready = {}
  /\ attached = {}
  /\ owner = [i \in Positions |-> IF i \in Inputs THEN "sequence" ELSE "none"]
  /\ ext \in SUBSET Inputs
  /\ cref = {Make}
  /\ flag = FALSE
  /\ index = 0
  /\ remains = Operations(size)
  /\ done = FALSE
  /\ client = "none"

\* What happens to the states when the owners become as given: an input that
\* nobody owns drops its stack, and the combined state its futures.
Settle(own, held, busy, refs) ==
  LET Unowned(o) == {i \in Inputs : o[i] = "none"} \ (held \cup busy)
      left == refs \ {Continuation(i) : i \in Unowned(own)}
      after == [i \in Positions |->
                  IF left = {} /\ own[i] = "sequence" THEN "none" ELSE own[i]]
  IN  /\ cref' = left
      /\ owner' = after
      /\ attached' = attached \ Unowned(after)
      /\ ext' = held
      /\ op' = busy

-----------------------------------------------------------------------------
\* make().

\* Mutant: the continuation captures a plain pointer.
AttachNext_NoCapture ==
  /\ mpc = "build"
  /\ built < size
  /\ built + 1 \notin ready
  /\ attached' = attached \cup {built + 1}
  /\ UNCHANGED cref
  /\ built' = built + 1
  /\ UNCHANGED <<mvars, mpc, apc, op, ready, owner, ext, rvars, client>>

\* One round of for_each: push the continuation to a pending input...
AttachNext ==
  /\ mpc = "build"
  /\ built < size
  /\ built + 1 \notin ready
  /\ attached' = attached \cup {built + 1}
  /\ cref' = cref \cup {Continuation(built + 1)}
  /\ built' = built + 1
  /\ UNCHANGED <<mvars, mpc, apc, op, ready, owner, ext, rvars, client>>

\* ...or call it at once for a ready one.
CallNext ==
  /\ mpc = "build"
  /\ built < size
  /\ built + 1 \in ready
  /\ mpc' = "inline"
  /\ apc' = [apc EXCEPT ![Maker] = "notify"]
  /\ UNCHANGED <<mvars, built, ivars, cref, rvars, client>>

InlineReturns ==
  /\ mpc = "inline"
  /\ apc[Maker] = "free"
  /\ mpc' = "build"
  /\ built' = built + 1
  /\ apc' = [apc EXCEPT ![Maker] = "idle"]
  /\ UNCHANGED <<mvars, ivars, cref, rvars, client>>

\* Mutant: when_any does not care for an empty sequence.
LoopEnds_EmptyForgotten ==
  /\ mpc = "build"
  /\ built = size
  /\ IF mode = "any"
       THEN mpc' = "return" /\ UNCHANGED apc
       ELSE mpc' = "last" /\ apc' = [apc EXCEPT ![Maker] = "notify"]
  /\ UNCHANGED <<mvars, built, ivars, cref, rvars, client>>

\* when_any executes the stack of an empty sequence's state, when_all notifies
\* the state for make() itself.
LoopEnds ==
  /\ mpc = "build"
  /\ built = size
  /\ IF mode = "any" /\ size > 0
       THEN mpc' = "return" /\ UNCHANGED apc
       ELSE /\ mpc' = "last"
            /\ apc' = [apc EXCEPT ![Maker] =
                         IF mode = "any" THEN "execute" ELSE "notify"]
  /\ UNCHANGED <<mvars, built, ivars, cref, rvars, client>>

LastReturns ==
  /\ mpc = "last"
  /\ apc[Maker] = "free"
  /\ mpc' = "return"
  /\ apc' = [apc EXCEPT ![Maker] = "idle"]
  /\ UNCHANGED <<mvars, built, ivars, cref, rvars, client>>

Return ==
  /\ mpc = "return"
  /\ mpc' = "done"
  /\ cref' = (cref \ {Make}) \cup {Result}
  /\ client' = "holds"
  /\ UNCHANGED <<mvars, built, apc, ivars, rvars>>

-----------------------------------------------------------------------------
\* notify, called by whichever actor.

\* Mutant: nobody looks at the flag.
NotifyAny_NoFlag(a) ==
  /\ apc[a] = "notify"
  /\ mode = "any"
  /\ flag' = TRUE
  /\ apc' = [apc EXCEPT ![a] = "index"]
  /\ UNCHANGED <<mvars, mpc, built, ivars, cref, index, remains, done, client>>

\* ready_flag_.test_and_set() elects the first one.
NotifyAny(a) ==
  /\ apc[a] = "notify"
  /\ mode = "any"
  /\ flag' = TRUE
  /\ apc' = [apc EXCEPT ![a] = IF flag THEN "free" ELSE "index"]
  /\ UNCHANGED <<mvars, mpc, built, ivars, cref, index, remains, done, client>>

\* Mutant: idx is incremented before it is captured.
StoreIndex_OffByOne(a) ==
  /\ apc[a] = "index"
  /\ index' = IF a = Maker THEN built + 2 ELSE a + 1
  /\ apc' = [apc EXCEPT ![a] = "execute"]
  /\ UNCHANGED <<mvars, mpc, built, ivars, cref, flag, remains, done, client>>

\* result_.index = pos, written by the elected actor only.
StoreIndex(a) ==
  /\ apc[a] = "index"
  /\ index' = IF a = Maker THEN built + 1 ELSE a
  /\ apc' = [apc EXCEPT ![a] = "execute"]
  /\ UNCHANGED <<mvars, mpc, built, ivars, cref, flag, remains, done, client>>

\* --operations_remains_: the last one executes.
NotifyAll(a) ==
  /\ apc[a] = "notify"
  /\ mode = "all"
  /\ remains' = remains - 1
  /\ apc' = [apc EXCEPT ![a] = IF remains = 1 THEN "execute" ELSE "free"]
  /\ UNCHANGED <<mvars, mpc, built, ivars, cref, flag, index, done, client>>

\* continuations_.execute().
Execute(a) ==
  /\ apc[a] = "execute"
  /\ done' = TRUE
  /\ apc' = [apc EXCEPT ![a] = "free"]
  /\ UNCHANGED <<mvars, mpc, built, ivars, cref, flag, index, remains, client>>

-----------------------------------------------------------------------------
\* The promises of the inputs.

Alive(i) == owner[i] # "none" \/ i \in ext

\* set_value, set_exception or abandon; nothing to do for a state that is gone.
Resolve(i) ==
  /\ i \in Inputs
  /\ apc[i] = "idle"
  /\ IF Alive(i)
       THEN op' = op \cup {i} /\ apc' = [apc EXCEPT ![i] = "resolve"]
       ELSE apc' = [apc EXCEPT ![i] = "over"] /\ UNCHANGED op
  /\ UNCHANGED <<mvars, mpc, built, ready, attached, owner, ext, cref, rvars,
                 client>>

\* The input's own execute consumes its stack.
Consume(i) ==
  /\ apc[i] = "resolve"
  /\ ready' = ready \cup {i}
  /\ attached' = attached \ {i}
  /\ apc' = [apc EXCEPT ![i] = IF i \in attached THEN "notify" ELSE "free"]
  /\ UNCHANGED <<mvars, mpc, built, op, owner, ext, cref, rvars, client>>

\* Mutant: the consumed list is not destroyed.
FreeContinuation_Leaks(i) ==
  /\ i \in Positions
  /\ apc[i] = "free"
  /\ apc' = [apc EXCEPT ![i] = "over"]
  /\ Settle(owner, ext, op \ {i}, cref)
  /\ UNCHANGED <<mvars, mpc, built, ready, rvars, client>>

\* The consumed list dies, then the operation's shared_ptr to the input.
FreeContinuation(i) ==
  /\ i \in Positions
  /\ apc[i] = "free"
  /\ apc' = [apc EXCEPT ![i] = "over"]
  /\ Settle(owner, ext, op \ {i}, cref \ {Continuation(i)})
  /\ UNCHANGED <<mvars, mpc, built, ready, rvars, client>>

-----------------------------------------------------------------------------
\* The owners of futures.

\* future::get moves the sequence out of the combined state.
Get ==
  /\ client = "holds"
  /\ done
  /\ client' = "got"
  /\ Settle([i \in Positions |-> IF owner[i] = "sequence" THEN "client" ELSE owner[i]],
            ext, op, cref \ {Result})
  /\ UNCHANGED <<mvars, mpc, built, apc, ready, rvars>>

DropResult ==
  /\ client = "holds"
  /\ client' = "dropped"
  /\ Settle(owner, ext, op, cref \ {Result})
  /\ UNCHANGED <<mvars, mpc, built, apc, ready, rvars>>

\* The client drops an input it has got back.
DropInput(i) ==
  /\ owner[i] = "client"
  /\ Settle([owner EXCEPT ![i] = "none"], ext, op, cref)
  /\ UNCHANGED <<mvars, mpc, built, apc, ready, rvars, client>>

DropExternal(i) ==
  /\ i \in ext
  /\ Settle(owner, ext \ {i}, op, cref)
  /\ UNCHANGED <<mvars, mpc, built, apc, ready, rvars, client>>

-----------------------------------------------------------------------------

NotifyStep(a) == NotifyAny(a) \/ StoreIndex(a) \/ NotifyAll(a) \/ Execute(a)

MakerStep ==
  \/ AttachNext \/ CallNext \/ InlineReturns \/ LoopEnds \/ LastReturns \/ Return
  \/ NotifyStep(Maker)

ProducerStep(i) == Consume(i) \/ NotifyStep(i) \/ FreeContinuation(i)

ClientStep ==
  \/ Get \/ DropResult
  \/ \E i \in Inputs : DropInput(i) \/ DropExternal(i)

\* Nobody has anything left to do.
Quiet ==
  /\ mpc = "done"
  /\ client \in {"got", "dropped"}
  /\ ext = {}
  /\ \A i \in Inputs : apc[i] = "over" /\ owner[i] # "client"

\* Everything is over (not a step of the code).
Terminated == Quiet /\ UNCHANGED vars

Next ==
  \/ MakerStep
  \/ \E i \in Positions : Resolve(i) \/ ProducerStep(i)
  \/ ClientStep
  \/ Terminated

Spec == Init /\ [][Next]_vars

\* make() and the operations that have begun go on; no promise has to be used
\* and no future to be read or dropped.
Fairness == WF_vars(MakerStep) /\ \A i \in Positions : WF_vars(ProducerStep(i))

FairSpec == Spec /\ Fairness

-----------------------------------------------------------------------------

TypeOK ==
  /\ mode \in {"any", "all"}
  /\ size \in 0..MaxSize
  /\ mpc \in {"build", "inline", "last", "return", "done"}
  /\ built \in 0..size
  /\ apc \in [Actors -> {"idle", "resolve", "notify", "index", "execute", "free",
                         "over"}]
  /\ op \subseteq Inputs
  /\ ready \subseteq Inputs
  /\ attached \subseteq Inputs
  /\ owner \in [Positions -> {"sequence", "client", "none"}]
  /\ ext \subseteq Inputs
  /\ cref \subseteq Actors \cup {Result}
  /\ flag \in BOOLEAN
  /\ index \in 0..size
  /\ remains \in 0..Operations(size)
  /\ done \in BOOLEAN
  /\ client \in {"none", "holds", "got", "dropped"}

\* Whoever finds the combined future ready finds what it promises: for
\* when_any the index of a ready input (none for an empty sequence), for
\* when_all a sequence that was attached completely and is ready completely.
ResultIsReady ==
  done => IF mode = "any"
            THEN IF size = 0 THEN index = 0 ELSE index \in ready
            ELSE ready = Inputs /\ built = size

\* "next_ready_futures_dont_affect_result": the index an owner of the ready
\* result reads stays what it is, whoever of the others comes in later.
IndexIsFinal == [][done => index' = index]_<<done, index>>

\* The combined state is alive while somebody runs its notify or may be called
\* by an input, whatever the owner of the result and of the inputs drops
\* meanwhile; and when every input has been resolved (or dropped) and every
\* future is gone, the cycle between it and its inputs is gone as well.
OwnedWhileNeeded ==
  /\ \A a \in Actors :
       apc[a] \in {"notify", "index", "execute"} \/ a \in attached => cref # {}
  /\ Quiet => cref = {} /\ attached = {} /\ \A i \in Inputs : owner[i] = "none"

\* A combined future becomes ready when what it waits for has happened, even
\* if that was before, or in the middle of, the attaching.
ResultArrives ==
  client = "holds" /\ (IF mode = "any" THEN ready # {} \/ size = 0 ELSE ready = Inputs)
    ~> done

-----------------------------------------------------------------------------
\* What a comment says, and the code does not do.

\* ~future: "Destroys associated shared state and cancel not yet started
\* operations."  The pending inputs' continuations own the combined state,
\* which owns the inputs.
DropDestroysState == client = "dropped" /\ op = {} => cref = {}
=============================================================================
