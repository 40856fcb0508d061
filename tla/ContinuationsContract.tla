----------------------- MODULE ContinuationsContract -----------------------
(***************************************************************************)
(* What a shared state promises to the clients that attach continuations,  *)
(* with no nodes, pointers or atomics: a one-shot event.  Attaching is     *)
(* possible before and after the event; a continuation is called once, and *)
(* only after the event.  An attached continuation is dropped only when    *)
(* the state dies without ever becoming ready, or when a continuation that *)
(* throws has been called.                                                 *)
(***************************************************************************)
CONSTANTS Continuations, Throwing

VARIABLES
  ready,    \* the event has happened
  closed,   \* the state has been destroyed
  status    \* status[c]: idle, attached, called or dropped

cvars == <<ready, closed, status>>

Init ==
  /\ ready = FALSE
  /\ closed = FALSE
  /\ status = [c \in Continuations |-> "idle"]

Attach(c) ==
  /\ ~closed
  /\ status[c] = "idle"
  /\ status' = [status EXCEPT ![c] = "attached"]
  /\ UNCHANGED <<ready, closed>>

MakeReady ==
  /\ ~closed
  /\ ~ready
  /\ ready' = TRUE
  /\ UNCHANGED <<closed, status>>

Call(c) ==
  /\ ready
  /\ status[c] = "attached"
  /\ status' = [status EXCEPT ![c] = "called"]
  /\ UNCHANGED <<ready, closed>>

Drop(c) ==
  /\ status[c] = "attached"
  /\ \/ closed /\ ~ready
     \/ \E d \in Throwing : status[d] = "called"
  /\ status' = [status EXCEPT ![c] = "dropped"]
  /\ UNCHANGED <<ready, closed>>

\* Nothing in use any more: every attached continuation of a ready state has
\* been called or dropped.
Close ==
  /\ ~closed
  /\ ready => \A c \in Continuations : status[c] # "attached"
  /\ closed' = TRUE
  /\ UNCHANGED <<ready, status>>

Next ==
  \/ \E c \in Continuations : Attach(c) \/ Call(c) \/ Drop(c)
  \/ MakeReady
  \/ Close

Spec == Init /\ [][Next]_cvars

\* An attached continuation does not stay attached once its fate is known.
FairSpec ==
  Spec /\ \A c \in Continuations : WF_cvars(Call(c) \/ Drop(c))
=============================================================================
