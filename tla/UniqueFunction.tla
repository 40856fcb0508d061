--------------------------- MODULE UniqueFunction ---------------------------
(***************************************************************************)
(* unique_function and the small_unique_function it is made of: a buffer   *)
(* without a type and a pointer to the table of functions that know the    *)
(* type.  A small callable lies in the buffer, a big one on the heap,      *)
(* where a lambda in the buffer owns it.                                   *)
(*                                                                         *)
(* Objects are the functions a program makes, one at a time or again and   *)
(* again; a conversion between the two classes is a move.  Two things are  *)
(* the caller's duty: not to move a function to itself, and not to call    *)
(* one that was moved from, whose vtbl_ is still set.                      *)
(***************************************************************************)
CONSTANTS
  Objects,    \* unique_function and small_unique_function objects
  Callables   \* what they may hold

\* What the buffer may hold: nothing (vtbl_ is null), a callable, or the
\* lambda that owns one.
Stored == {"nothing", "callable", "lambda"}

VARIABLES
  live,     \* constructed objects
  vtbl,     \* vtbl_: the type it stands for
  buffer,   \* the type of what was constructed in buffer_ and not destroyed
  held,     \* the callable this holds (a set: {} if it was moved away)
  existing, \* callables that exist
  moved,    \* objects that may be moved-from
  outcome   \* of the last call

vars == <<live, vtbl, buffer, held, existing, moved, outcome>>

Init ==
  /\ live = {}
  /\ vtbl = [o \in Objects |-> "nothing"]
  /\ buffer = [o \in Objects |-> "nothing"]
  /\ held = [o \in Objects |-> {}]
  /\ existing = {}
  /\ moved = {}
  /\ outcome = "none"

-----------------------------------------------------------------------------

\* Default construction, from nullptr, or from a null callable.
ConstructEmpty(o) ==
  /\ o \notin live
  /\ live' = live \cup {o}
  /\ vtbl' = [vtbl EXCEPT ![o] = "nothing"]
  /\ moved' = moved \ {o}
  /\ UNCHANGED <<buffer, held, existing, outcome>>

\* A callable that fits is constructed in the buffer, and vtbl_ is set when
\* its constructor has not thrown.
ConstructSmall(o, f) ==
  /\ o \notin live
  /\ f \notin existing
  /\ live' = live \cup {o}
  /\ buffer' = [buffer EXCEPT ![o] = "callable"]
  /\ vtbl' = [vtbl EXCEPT ![o] = "callable"]
  /\ held' = [held EXCEPT ![o] = {f}]
  /\ existing' = existing \cup {f}
  /\ moved' = moved \ {o}
  /\ UNCHANGED outcome

\* Another one goes to the heap, and the lambda that owns it is moved in.
ConstructBig(o, f) ==
  /\ o \notin live
  /\ f \notin existing
  /\ live' = live \cup {o}
  /\ buffer' = [buffer EXCEPT ![o] = "lambda"]
  /\ vtbl' = [vtbl EXCEPT ![o] = "lambda"]
  /\ held' = [held EXCEPT ![o] = {f}]
  /\ existing' = existing \cup {f}
  /\ moved' = moved \ {o}
  /\ UNCHANGED outcome

\* vtbl_->destroy(buffer_), if there is a vtbl_: what is left of a buffer or
\* of what it held, and the callable that ceases to exist.
Destroyed(o) == IF vtbl[o] = "nothing" THEN buffer[o] ELSE "nothing"

Dying(o) == IF vtbl[o] = "nothing" THEN {} ELSE held[o]

\* vtbl_->move(rhs.buffer_, buffer_), if there is an rhs.vtbl_, and a copy of
\* rhs.vtbl_.  What is left in the buffer of rhs has still to be destroyed.
MoveFrom(o, rhs) ==
  /\ IF vtbl[rhs] = "nothing"
       THEN /\ buffer' = [buffer EXCEPT ![o] = Destroyed(o)]
            /\ held' = [held EXCEPT ![o] = @ \ Dying(o)]
       ELSE /\ buffer' = [buffer EXCEPT ![o] = buffer[rhs]]
            /\ held' = [held EXCEPT ![o] = held[rhs], ![rhs] = {}]
  /\ vtbl' = [vtbl EXCEPT ![o] = vtbl[rhs]]
  /\ moved' = IF rhs \in moved THEN moved \cup {o} ELSE (moved \ {o}) \cup {rhs}

MoveConstruct(o, rhs) ==
  /\ o \notin live
  /\ rhs \in live
  /\ live' = live \cup {o}
  /\ MoveFrom(o, rhs)
  /\ UNCHANGED <<existing, outcome>>

MoveAssign(o, rhs) ==
  /\ o \in live
  /\ rhs \in live
  /\ o # rhs
  /\ existing' = existing \ Dying(o)
  /\ MoveFrom(o, rhs)
  /\ UNCHANGED <<live, outcome>>

Destroy(o) ==
  /\ o \in live
  /\ live' = live \ {o}
  /\ existing' = existing \ Dying(o)
  /\ buffer' = [buffer EXCEPT ![o] = Destroyed(o)]
  /\ held' = [held EXCEPT ![o] = @ \ Dying(o)]
  /\ vtbl' = [vtbl EXCEPT ![o] = "nothing"]
  /\ UNCHANGED <<moved, outcome>>

\* vtbl_->call takes the buffer for what vtbl_ says, and needs the callable.
Call(o) ==
  /\ o \in live \ moved
  /\ outcome' = IF vtbl[o] = "nothing" THEN "bad_function_call"
                ELSE IF buffer[o] = vtbl[o] /\ held[o] # {} THEN "called"
                ELSE "undefined"
  /\ UNCHANGED <<live, vtbl, buffer, held, existing, moved>>

Next ==
  \E o \in Objects :
    \/ ConstructEmpty(o)
    \/ \E f \in Callables : ConstructSmall(o, f) \/ ConstructBig(o, f)
    \/ \E rhs \in Objects : MoveConstruct(o, rhs) \/ MoveAssign(o, rhs)
    \/ Destroy(o)
    \/ Call(o)

Spec == Init /\ [][Next]_vars

-----------------------------------------------------------------------------

TypeOK ==
  /\ live \subseteq Objects
  /\ vtbl \in [Objects -> Stored]
  /\ buffer \in [Objects -> Stored]
  /\ held \in [Objects -> SUBSET Callables]
  /\ existing \subseteq Callables
  /\ moved \subseteq Objects
  /\ outcome \in {"none", "called", "bad_function_call", "undefined"}

\* A buffer is destroyed, moved and called as what was constructed in it, and
\* no object leaves something behind in its buffer: vtbl_ of a moved-from
\* function, which says that there is something left to destroy, included.
VtblIsTrue ==
  \A o \in Objects : buffer[o] = vtbl[o] /\ (o \notin live => vtbl[o] = "nothing")

\* Every callable that was stored exists exactly as long as one function
\* holds it: moves neither copy, destroy nor leak one.
OneOwner ==
  /\ existing = UNION {held[o] : o \in Objects}
  /\ \A o \in Objects : \A f, g \in held[o] : f = g
  /\ \A o, p \in Objects : held[o] \cap held[p] # {} => o = p
  /\ \A o \in Objects : held[o] # {} => vtbl[o] # "nothing"

\* A function that is not empty and was not moved from has its callable.
NotHollow == \A o \in live \ moved : vtbl[o] # "nothing" => held[o] # {}

\* A call reaches the callable or throws bad_function_call.
CallsAreDefined == outcome # "undefined"

-----------------------------------------------------------------------------

\* The invariant of the proof: a call is defined because vtbl_ is true and
\* the object is not hollow, and it stays so because callables have one owner.
IInv == TypeOK /\ VtblIsTrue /\ OneOwner /\ NotHollow /\ CallsAreDefined
=============================================================================
