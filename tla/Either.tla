------------------------------- MODULE Either -------------------------------
(***************************************************************************)
(* either<monostate, T...>, the variant in which a promise keeps its       *)
(* shared_ptr or weak_ptr, a task its function, a continuation its action  *)
(* and a shared state its result.                                          *)
(*                                                                         *)
(* state_ is written after the storage: the constructor of an alternative  *)
(* may throw, and clean() runs the destructor that state_ names.  It runs  *)
(* it before it clears state_, so that no alternative may have a           *)
(* destructor that comes back to the either it lies in.                    *)
(***************************************************************************)
EXTENDS Naturals

CONSTANTS
  Eithers,  \* either objects
  Count,    \* sizeof...(T)
  Values    \* what the alternatives may hold

EmptyState == 0  \* either::empty_state

Alternatives == 1..Count

States == Alternatives \cup {EmptyState}

VARIABLES
  live,     \* constructed eithers
  state,    \* state_
  storage,  \* the alternative constructed in storage_ and not destroyed
  held,     \* the value that one holds (a set: {} if it was moved away)
  existing  \* values that exist

vars == <<live, state, storage, held, existing>>

Init ==
  /\ live = {}
  /\ state = [e \in Eithers |-> EmptyState]
  /\ storage = [e \in Eithers |-> EmptyState]
  /\ held = [e \in Eithers |-> {}]
  /\ existing = {}

-----------------------------------------------------------------------------

\* clean() calls the destructor of the alternative that state_ names.  Only
\* what really lies there is destroyed by it.
Cleans(e) == state[e] # EmptyState /\ state[e] = storage[e]

CleanStorage(e) == IF Cleans(e) THEN EmptyState ELSE storage[e]

Dying(e) == IF Cleans(e) THEN held[e] ELSE {}

\* either().
Construct(e) ==
  /\ e \notin live
  /\ live' = live \cup {e}
  /\ state' = [state EXCEPT ![e] = EmptyState]
  /\ UNCHANGED <<storage, held, existing>>

\* emplace: clean, construct, and name the new alternative.
Emplaced(e, i, v) ==
  /\ v \notin existing
  /\ storage' = [storage EXCEPT ![e] = i]
  /\ held' = [held EXCEPT ![e] = {v}]
  /\ state' = [state EXCEPT ![e] = i]
  /\ existing' = (existing \ Dying(e)) \cup {v}

\* either(in_place_index_t<i>, ...).  If the constructor throws there is no
\* either.
ConstructWith(e, i, v) ==
  /\ e \notin live
  /\ live' = live \cup {e}
  /\ Emplaced(e, i, v)

Emplace(e, i, v) ==
  /\ e \in live
  /\ Emplaced(e, i, v)
  /\ UNCHANGED live

Clean(e) ==
  /\ e \in live
  /\ storage' = [storage EXCEPT ![e] = CleanStorage(e)]
  /\ held' = [held EXCEPT ![e] = @ \ Dying(e)]
  /\ state' = [state EXCEPT ![e] = EmptyState]
  /\ existing' = existing \ Dying(e)
  /\ UNCHANGED live

\* The constructor throws in emplace: the old value is gone all the same.
EmplaceThrows(e) == Clean(e)

\* ~either.
Destroy(e) ==
  /\ e \in live
  /\ live' = live \ {e}
  /\ storage' = [storage EXCEPT ![e] = CleanStorage(e)]
  /\ held' = [held EXCEPT ![e] = @ \ Dying(e)]
  /\ state' = [state EXCEPT ![e] = EmptyState]
  /\ existing' = existing \ Dying(e)

\* move_from, into an either that is clean: the alternative that src's state_
\* names is constructed from what lies in its storage, and src is cleaned.
MoveFrom(e, src) ==
  IF state[src] = EmptyState
    THEN /\ storage' = [storage EXCEPT ![e] = CleanStorage(e)]
         /\ held' = [held EXCEPT ![e] = @ \ Dying(e)]
         /\ state' = [state EXCEPT ![e] = EmptyState]
    ELSE /\ storage' = [storage EXCEPT ![e] = storage[src], ![src] = CleanStorage(src)]
         /\ held' = [held EXCEPT ![e] = held[src], ![src] = {}]
         /\ state' = [state EXCEPT ![e] = state[src], ![src] = EmptyState]

MoveConstruct(e, src) ==
  /\ e \notin live
  /\ src \in live
  /\ live' = live \cup {e}
  /\ MoveFrom(e, src)
  /\ UNCHANGED existing

MoveAssign(e, src) ==
  /\ e \in live
  /\ src \in live
  /\ e # src
  /\ existing' = existing \ Dying(e)
  /\ MoveFrom(e, src)
  /\ UNCHANGED live

\* Assigned to itself an either is cleaned first and has nothing to move.
SelfAssign(e) == Clean(e)

Next ==
  \E e \in Eithers :
    \/ Construct(e)
    \/ \E i \in Alternatives, v \in Values : ConstructWith(e, i, v) \/ Emplace(e, i, v)
    \/ EmplaceThrows(e)
    \/ \E src \in Eithers : MoveConstruct(e, src) \/ MoveAssign(e, src)
    \/ SelfAssign(e)
    \/ Clean(e)
    \/ Destroy(e)

Spec == Init /\ [][Next]_vars

-----------------------------------------------------------------------------

TypeOK ==
  /\ live \subseteq Eithers
  /\ state \in [Eithers -> States]
  /\ storage \in [Eithers -> States]
  /\ held \in [Eithers -> SUBSET Values]
  /\ existing \subseteq Values

\* get, visit and clean take the storage for what lies there, and an either
\* leaves nothing in its storage: state_ is never ahead of the storage when a
\* constructor throws, nor behind it when src of a move has been emptied.
StateIsTrue ==
  \A e \in Eithers : state[e] = storage[e] /\ (e \notin live => state[e] = EmptyState)

\* An either that is not empty holds a value, which no other one holds (in
\* between its operations no either is moved-from), and a value exists just as
\* long as it is held.
OneOwner ==
  /\ existing = UNION {held[e] : e \in Eithers}
  /\ \A e \in Eithers : held[e] = {} <=> state[e] = EmptyState
  /\ \A e \in Eithers : \A v, w \in held[e] : v = w
  /\ \A e, f \in Eithers : held[e] \cap held[f] # {} => e = f

-----------------------------------------------------------------------------

\* The invariant of the proof: what clean() destroys is what lies in the
\* storage, because state_ is true, and nobody else holds it.
IInv == TypeOK /\ StateIsTrue /\ OneOwner
=============================================================================
