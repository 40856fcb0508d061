--------------------------- MODULE FutureContract ---------------------------
(***************************************************************************)
(* What a future promises to those who hold it, with no shared_ptr,        *)
(* storage, stack or threads: one outcome for all of them.  It is pending, *)
(* then a result that stays, or it is cancelled, because everybody has     *)
(* lost interest and nobody has detached it.  Who asks to be notified is   *)
(* notified once, after the result is there, and in the call itself when   *)
(* it is there already; whoever gets an answer gets that result.           *)
(***************************************************************************)
EXTENDS Naturals

CONSTANTS Clients, Results

VARIABLES
  outcome,    \* "pending", one of Results, or "cancelled"
  wanted,     \* the clients that have asked to be notified
  detached,   \* the clients that have detached their future
  told,       \* told[c]: how often c has been notified
  answer      \* answer[c]: what c was given by get(), or "none"

fvars == <<outcome, wanted, detached, told, answer>>

Init ==
  /\ outcome = "pending"
  /\ wanted = {}
  /\ detached = {}
  /\ told = [c \in Clients |-> 0]
  /\ answer = [c \in Clients |-> "none"]

Resolved == outcome \in Results

Resolve(r) ==
  /\ outcome = "pending"
  /\ outcome' = r
  /\ UNCHANGED <<wanted, detached, told, answer>>

\* The last future is gone: nobody is left to be told, now or later.
Cancel ==
  /\ outcome = "pending"
  /\ detached = {}
  /\ outcome' = "cancelled"
  /\ UNCHANGED <<wanted, detached, told, answer>>

Ask(c) ==
  /\ outcome # "cancelled"
  /\ c \notin wanted
  /\ wanted' = wanted \cup {c}
  /\ told' = [told EXCEPT ![c] = IF Resolved THEN @ + 1 ELSE @]
  /\ UNCHANGED <<outcome, detached, answer>>

Tell(c) ==
  /\ Resolved
  /\ c \in wanted
  /\ told[c] = 0
  /\ told' = [told EXCEPT ![c] = 1]
  /\ UNCHANGED <<outcome, wanted, detached, answer>>

Detach(c) ==
  /\ outcome # "cancelled"
  /\ detached' = detached \cup {c}
  /\ UNCHANGED <<outcome, wanted, told, answer>>

Answer(c) ==
  /\ Resolved
  /\ answer' = [answer EXCEPT ![c] = outcome]
  /\ UNCHANGED <<outcome, wanted, detached, told>>

Next ==
  \/ \E r \in Results : Resolve(r)
  \/ Cancel
  \/ \E c \in Clients : Ask(c) \/ Tell(c) \/ Detach(c) \/ Answer(c)

Spec == Init /\ [][Next]_fvars
=============================================================================
