------------------------- MODULE CombinatorsProofs -------------------------
(***************************************************************************)
(* Proofs about Combinators for sequences of any length.                   *)
(*                                                                         *)
(* Owing says what operations_remains_ counts: the inputs that are not     *)
(* ready or whose readiness has not been counted, and make() itself.       *)
(* Elected says that ready_flag_ lets one actor through to the result.     *)
(* Owned says who keeps the combined state, and which inputs it keeps.     *)
(***************************************************************************)
EXTENDS Combinators, FiniteSetTheorems, TLAPS

\* An actor that runs notify.
Notifying(a) == apc[a] \in {"notify", "index", "execute"}

\* make() keeps everything alive, and goes through the sequence in order.
Making ==
  /\ mpc # "done" => Make \in cref /\ client = "none" /\ \A i \in Inputs : owner[i] = "sequence"
  /\ mpc = "done" => Make \notin cref /\ client # "none"
  /\ Result \in cref <=> client = "holds"
  /\ mpc \notin {"build", "inline"} => built = size
  /\ mpc = "inline" => built < size /\ built + 1 \in ready
  /\ IF mpc \in {"inline", "last"} THEN Notifying(Maker) \/ apc[Maker] = "free"
                                   ELSE apc[Maker] = "idle"

\* The way of an input from the attaching to its continuation's call.
Called ==
  \A i \in Positions :
    /\ i \notin Inputs => apc[i] = "idle"
    /\ i \in op <=> apc[i] \notin {"idle", "over"}
    /\ i \in ready => apc[i] \notin {"idle", "resolve"}
    /\ Notifying(i) \/ apc[i] = "free" => i \in ready
    /\ apc[i] = "over" => i \in ready \/ ~Alive(i)
    /\ Notifying(i) => i <= built /\ i \in cref
    /\ i \in attached => i <= built /\ apc[i] \in {"idle", "resolve"}
    /\ i \in Inputs /\ i <= built =>
         (apc[i] = "resolve" \/ (apc[i] = "idle" /\ Alive(i)) => i \in attached)

\* A continuation owns the combined state as long as it may be called, and
\* the stack it is on lives as long as its input; the combined state owns the
\* sequence.
Owned ==
  \A i \in Positions :
    /\ i \in attached => i \in cref /\ (Alive(i) \/ i \in op)
    /\ i \in cref => i \in attached \/ Notifying(i) \/ apc[i] = "free"
    /\ cref = {} => owner[i] # "sequence"

\* Input i has not been counted down.
Owes(i) ==
  \/ i \notin ready
  \/ apc[i] = "notify"
  \/ i > built + 1
  \/ i = built + 1 /\ (mpc = "inline" => apc[Maker] = "notify")

Owing ==
  {i \in Inputs : Owes(i)} \cup
  {a \in {Maker} : mpc \in {"build", "inline"} \/ (mpc = "last" /\ apc[Maker] = "notify")}

\* when_all executes its continuations when nobody owes a notification.
Counted ==
  mode = "all" =>
    /\ remains = Cardinality(Owing)
    /\ done \/ (\E a \in Actors : apc[a] = "execute") => remains = 0
    /\ index = 0
    /\ \A a \in Actors : apc[a] # "index"

\* when_any has one actor behind the flag, and none in the end.
Elected ==
  mode = "any" =>
    /\ \A a, b \in Actors :
         apc[a] \in {"index", "execute"} /\ apc[b] \in {"index", "execute"} => a = b
    /\ \A a \in Actors :
         /\ apc[a] \in {"index", "execute"} => ~done /\ (flag \/ size = 0)
         /\ apc[a] = "execute" /\ size > 0 => index \in ready
    /\ done /\ size > 0 => flag /\ index \in ready
    /\ size = 0 => index = 0 /\ (mpc = "build" => ~done)
    /\ mpc = "last" => size = 0 /\ apc[Maker] \notin {"notify", "index"}

\* The inductive invariant.
IInv == TypeOK /\ Making /\ Called /\ Owned /\ Counted /\ Elected

-----------------------------------------------------------------------------
Owners == {"sequence", "client", "none"}

\* Positions are not confused with the other owners of the combined state.
LEMMA Numbers ==
  /\ MaxSize \in Nat
  /\ Actors = 0..MaxSize /\ Positions = 1..MaxSize
  /\ \A i \in Positions : i # Make /\ i # Result /\ i # Maker
  /\ Make # Result
BY MaxSizeAssumption DEF MaxSizeAssumption, Actors, Positions, Make, Maker, Result

\* What Settle keeps and what it lets go.
Settled(own, held, busy, refs) ==
  /\ cref' \in SUBSET refs /\ attached' \in SUBSET attached
  /\ ext' = held /\ op' = busy
  /\ owner' \in [Positions -> Owners]
  /\ Make \in refs => Make \in cref'
  /\ Result \in refs => Result \in cref'
  /\ \A i \in Positions :
       /\ owner'[i] = own[i] \/ (own[i] = "sequence" /\ owner'[i] = "none" /\ cref' = {})
       /\ cref' = {} => owner'[i] # "sequence"
       /\ i \in attached /\ (owner'[i] # "none" \/ i \in held \cup busy) => i \in attached'
       /\ i \in attached' => owner'[i] # "none" \/ i \in held \cup busy
       /\ i \in refs /\ (own[i] # "none" \/ i \in held \cup busy) => i \in cref'
       /\ i \in Inputs /\ i \in cref' => own[i] # "none" \/ i \in held \cup busy

\* Types, without the ranges.
LEMMA Kinds ==
  ASSUME IInv
  PROVE  /\ TypeOK /\ Making /\ Called /\ Owned /\ Counted /\ Elected
         /\ mode \in {"any", "all"} /\ size \in Nat /\ size <= MaxSize /\ built \in Nat /\ built <= size
         /\ apc \in [Actors -> {"idle", "resolve", "notify", "index", "execute", "free", "over"}]
         /\ owner \in [Positions -> Owners]
         /\ Inputs \in SUBSET Positions /\ \A i \in Positions : i \in Inputs <=> i <= size
         /\ op \in SUBSET Inputs /\ ready \in SUBSET Inputs /\ attached \in SUBSET Inputs
         /\ ext \in SUBSET Inputs
         /\ index \in Nat /\ remains \in Nat
         /\ flag \in BOOLEAN /\ done \in BOOLEAN
BY Numbers DEF IInv, TypeOK, Inputs, Owners, Operations

\* An input nobody owns takes its continuation along, and the combined state,
\* when it goes, the futures it still has.
LEMMA SettleEffect ==
  ASSUME TypeOK, NEW own \in [Positions -> Owners], NEW held \in SUBSET ext,
         NEW busy \in SUBSET op, NEW refs \in SUBSET cref, Settle(own, held, busy, refs)
  PROVE  Settled(own, held, busy, refs)
<1> DEFINE Unowned(o) == {i \in Inputs : o[i] = "none"} \ (held \cup busy)
           left == refs \ {Continuation(i) : i \in Unowned(own)}
           after == [i \in Positions |->
                       IF left = {} /\ own[i] = "sequence" THEN "none" ELSE own[i]]
<1>1. /\ cref' = left /\ owner' = after /\ attached' = attached \ Unowned(after)
      /\ ext' = held /\ op' = busy
  BY DEF Settle
<1>2. /\ Inputs \in SUBSET Positions /\ attached \in SUBSET Inputs
      /\ Make \notin Inputs /\ Result \notin Inputs
  BY Numbers DEF TypeOK, Inputs
<1>3. left = refs \ Unowned(own)
  BY DEF Continuation
<1>4. after \in [Positions -> Owners]
  BY DEF Owners
<1>5. \A i \in Positions :
        /\ i \in left <=> i \in refs /\ i \notin Unowned(own)
        /\ i \in attached' <=> i \in attached /\ i \notin Unowned(after)
  BY <1>1, <1>3
<1> HIDE DEF left
<1> QED
  BY <1>1, <1>2, <1>3, <1>4, <1>5 DEF Settled

\* Every step that drops an owner settles the rest.
LEMMA Releases ==
  ASSUME TypeOK
  PROVE  /\ Get => Settled([i \in Positions |->
                              IF owner[i] = "sequence" THEN "client" ELSE owner[i]],
                           ext, op, cref \ {Result})
         /\ DropResult => Settled(owner, ext, op, cref \ {Result})
         /\ \A i \in Positions :
              /\ FreeContinuation(i) => Settled(owner, ext, op \ {i}, cref \ {i})
              /\ DropInput(i) => Settled([owner EXCEPT ![i] = "none"], ext, op, cref)
              /\ DropExternal(i) => Settled(owner, ext \ {i}, op, cref)
<1>1. /\ owner \in [Positions -> Owners]
      /\ [i \in Positions |-> IF owner[i] = "sequence" THEN "client" ELSE owner[i]]
           \in [Positions -> Owners]
      /\ \A i \in Positions : [owner EXCEPT ![i] = "none"] \in [Positions -> Owners]
  BY DEF TypeOK, Owners
<1>2. \A i \in Positions :
        /\ cref \ {i} \in SUBSET cref /\ op \ {i} \in SUBSET op /\ ext \ {i} \in SUBSET ext
  OBVIOUS
<1>3. cref \ {Result} \in SUBSET cref /\ op \in SUBSET op /\ ext \in SUBSET ext /\ cref \in SUBSET cref
  OBVIOUS
<1>4. ASSUME Get
      PROVE  Settled([i \in Positions |->
                        IF owner[i] = "sequence" THEN "client" ELSE owner[i]],
                     ext, op, cref \ {Result})
  BY <1>1, <1>3, <1>4, SettleEffect DEF Get
<1>5. ASSUME DropResult PROVE Settled(owner, ext, op, cref \ {Result})
  BY <1>1, <1>3, <1>5, SettleEffect DEF DropResult
<1>6. ASSUME NEW i \in Positions, FreeContinuation(i)
      PROVE  Settled(owner, ext, op \ {i}, cref \ {i})
  BY <1>1, <1>2, <1>3, <1>6, SettleEffect DEF FreeContinuation, Continuation
<1>7. ASSUME NEW i \in Positions, DropInput(i)
      PROVE  Settled([owner EXCEPT ![i] = "none"], ext, op, cref)
  BY <1>1, <1>3, <1>7, SettleEffect DEF DropInput
<1>8. ASSUME NEW i \in Positions, DropExternal(i)
      PROVE  Settled(owner, ext \ {i}, op, cref)
  BY <1>1, <1>2, <1>3, <1>8, SettleEffect DEF DropExternal
<1> QED
  BY <1>4, <1>5, <1>6, <1>7, <1>8

\* make() lets go of the combined state when it returns.
LEMMA MakingStep == IInv /\ [Next]_vars => Making'
<1> SUFFICES ASSUME IInv, [Next]_vars PROVE Making'
  OBVIOUS
<1> USE DEF mvars, ivars, rvars, Making, Notifying, Inputs
<1>0. /\ TypeOK /\ Making /\ Called /\ Owned /\ Counted /\ Elected
      /\ mode \in {"any", "all"} /\ size \in Nat /\ built \in Nat /\ built <= size
      /\ apc \in [Actors -> {"idle", "resolve", "notify", "index", "execute", "free", "over"}]
      /\ owner \in [Positions -> Owners]
      /\ Inputs \in SUBSET Positions /\ \A i \in Positions : i \in Inputs <=> i <= size
      /\ op \in SUBSET Inputs /\ ready \in SUBSET Inputs /\ attached \in SUBSET Inputs
      /\ Positions \subseteq Actors /\ Maker \in Actors /\ \A b \in Actors : b \in Positions \/ b = Maker
      /\ \A i \in Positions : i \in Nat /\ i >= 1 /\ i # Maker /\ i # Make /\ i # Result
      /\ Make # Result /\ (built < size => built + 1 \in Inputs)
  BY Kinds, Numbers DEF Actors, Inputs
<1>1. CASE AttachNext
  BY <1>0, <1>1 DEF AttachNext, Continuation
<1>2. CASE CallNext
  BY <1>0, <1>2 DEF CallNext
<1>3. CASE InlineReturns
  BY <1>0, <1>3 DEF InlineReturns
<1>4. CASE LoopEnds
  BY <1>0, <1>4 DEF LoopEnds
<1>5. CASE LastReturns
  BY <1>0, <1>5 DEF LastReturns
<1>6. CASE Return
  BY <1>0, <1>6 DEF Return
<1>7. ASSUME NEW a \in Actors, NotifyAny(a) PROVE Making'
  BY <1>0, <1>7 DEF NotifyAny
<1>8. ASSUME NEW a \in Actors, StoreIndex(a) PROVE Making'
  BY <1>0, <1>8 DEF StoreIndex
<1>9. ASSUME NEW a \in Actors, NotifyAll(a) PROVE Making'
  BY <1>0, <1>9 DEF NotifyAll
<1>10. ASSUME NEW a \in Actors, Execute(a) PROVE Making'
  BY <1>0, <1>10 DEF Execute
<1>11. ASSUME NEW i \in Positions, Resolve(i) PROVE Making'
  BY <1>0, <1>11 DEF Resolve
<1>12. ASSUME NEW i \in Positions, Consume(i) PROVE Making'
  BY <1>0, <1>12 DEF Consume
<1>13. ASSUME NEW i \in Positions, FreeContinuation(i) PROVE Making'
  <2>1. Settled(owner, ext, op \ {i}, cref \ {i})
    BY <1>0, <1>13, Releases
  <2>2. /\ apc[i] = "free" /\ apc' = [apc EXCEPT ![i] = "over"]
        /\ UNCHANGED <<mvars, mpc, built, ready, rvars, client>>
    BY <1>13 DEF FreeContinuation
  <2> QED
    BY <1>0, <2>1, <2>2 DEF Settled
<1>14. CASE Get
  BY <1>0, <1>14, Releases DEF Get, Settled
<1>15. CASE DropResult
  BY <1>0, <1>15, Releases DEF DropResult, Settled
<1>16. ASSUME NEW i \in Positions, DropInput(i) PROVE Making'
  <2>1. Settled([owner EXCEPT ![i] = "none"], ext, op, cref)
    BY <1>0, <1>16, Releases
  <2>2. owner[i] = "client" /\ UNCHANGED <<mvars, mpc, built, apc, ready, rvars, client>>
    BY <1>16 DEF DropInput
  <2>3. \A j \in Positions : [owner EXCEPT ![i] = "none"][j] = IF j = i THEN "none" ELSE owner[j]
    BY <1>0
  <2> QED
    BY <1>0, <2>1, <2>2, <2>3 DEF Settled
<1>17. ASSUME NEW i \in Positions, DropExternal(i) PROVE Making'
  BY <1>0, <1>17, Releases DEF DropExternal, Settled
<1>18. CASE UNCHANGED vars
  BY <1>0, <1>18 DEF vars
<1> HIDE DEF IInv, Making
<1> QED
  BY <1>0, <1>1, <1>2, <1>3, <1>4, <1>5, <1>6, <1>7, <1>8, <1>9,
     <1>10, <1>11, <1>12, <1>13, <1>14, <1>15, <1>16, <1>17, <1>18
     DEF Next, MakerStep, ProducerStep, NotifyStep, ClientStep, Terminated

\* Every input that becomes ready calls the continuation it has got.
LEMMA CalledStep == IInv /\ [Next]_vars => Called'
<1> SUFFICES ASSUME IInv, [Next]_vars PROVE Called'
  OBVIOUS
<1> USE DEF mvars, ivars, rvars, Called, Notifying, Alive, Inputs
<1>0. /\ TypeOK /\ Making /\ Called /\ Owned /\ Counted /\ Elected
      /\ mode \in {"any", "all"} /\ size \in Nat /\ built \in Nat /\ built <= size
      /\ apc \in [Actors -> {"idle", "resolve", "notify", "index", "execute", "free", "over"}]
      /\ owner \in [Positions -> Owners]
      /\ Inputs \in SUBSET Positions /\ \A i \in Positions : i \in Inputs <=> i <= size
      /\ op \in SUBSET Inputs /\ ready \in SUBSET Inputs /\ attached \in SUBSET Inputs
      /\ Positions \subseteq Actors /\ Maker \in Actors /\ \A b \in Actors : b \in Positions \/ b = Maker
      /\ \A i \in Positions : i \in Nat /\ i >= 1 /\ i # Maker /\ i # Make /\ i # Result
      /\ Make # Result /\ (built < size => built + 1 \in Inputs)
  BY Kinds, Numbers DEF Actors, Inputs
<1>1. CASE AttachNext
  BY <1>0, <1>1 DEF AttachNext, Making, Owned, Continuation
<1>2. CASE CallNext
  BY <1>0, <1>2 DEF CallNext, Making, Owned
<1>3. CASE InlineReturns
  BY <1>0, <1>3 DEF InlineReturns, Making, Owned
<1>4. CASE LoopEnds
  BY <1>0, <1>4 DEF LoopEnds, Making, Owned
<1>5. CASE LastReturns
  BY <1>0, <1>5 DEF LastReturns, Making, Owned
<1>6. CASE Return
  BY <1>0, <1>6 DEF Return, Making, Owned
<1>7. ASSUME NEW a \in Actors, NotifyAny(a) PROVE Called'
  BY <1>0, <1>7 DEF NotifyAny, Making, Owned
<1>8. ASSUME NEW a \in Actors, StoreIndex(a) PROVE Called'
  BY <1>0, <1>8 DEF StoreIndex, Making, Owned
<1>9. ASSUME NEW a \in Actors, NotifyAll(a) PROVE Called'
  BY <1>0, <1>9 DEF NotifyAll, Making, Owned
<1>10. ASSUME NEW a \in Actors, Execute(a) PROVE Called'
  BY <1>0, <1>10 DEF Execute, Making, Owned
<1>11. ASSUME NEW i \in Positions, Resolve(i) PROVE Called'
  BY <1>0, <1>11 DEF Resolve, Making, Owned
<1>12. ASSUME NEW i \in Positions, Consume(i) PROVE Called'
  BY <1>0, <1>12 DEF Consume, Making, Owned
<1>13. ASSUME NEW i \in Positions, FreeContinuation(i) PROVE Called'
  <2>1. Settled(owner, ext, op \ {i}, cref \ {i})
    BY <1>0, <1>13, Releases
  <2>2. /\ apc[i] = "free" /\ apc' = [apc EXCEPT ![i] = "over"]
        /\ UNCHANGED <<mvars, mpc, built, ready, rvars, client>>
    BY <1>13 DEF FreeContinuation
  <2> QED
    BY <1>0, <2>1, <2>2 DEF Settled
<1>14. CASE Get
  BY <1>0, <1>14, Releases DEF Get, Settled
<1>15. CASE DropResult
  BY <1>0, <1>15, Releases DEF DropResult, Settled
<1>16. ASSUME NEW i \in Positions, DropInput(i) PROVE Called'
  <2>1. Settled([owner EXCEPT ![i] = "none"], ext, op, cref)
    BY <1>0, <1>16, Releases
  <2>2. owner[i] = "client" /\ UNCHANGED <<mvars, mpc, built, apc, ready, rvars, client>>
    BY <1>16 DEF DropInput
  <2>3. \A j \in Positions : [owner EXCEPT ![i] = "none"][j] = IF j = i THEN "none" ELSE owner[j]
    BY <1>0
  <2> QED
    BY <1>0, <2>1, <2>2, <2>3 DEF Settled
<1>17. ASSUME NEW i \in Positions, DropExternal(i) PROVE Called'
  BY <1>0, <1>17, Releases DEF DropExternal, Settled
<1>18. CASE UNCHANGED vars
  BY <1>0, <1>18 DEF vars
<1> HIDE DEF IInv, Called
<1> QED
  BY <1>0, <1>1, <1>2, <1>3, <1>4, <1>5, <1>6, <1>7, <1>8, <1>9,
     <1>10, <1>11, <1>12, <1>13, <1>14, <1>15, <1>16, <1>17, <1>18
     DEF Next, MakerStep, ProducerStep, NotifyStep, ClientStep, Terminated

\* Nobody lets go of what may still be called.
LEMMA OwnedStep == IInv /\ [Next]_vars => Owned'
<1> SUFFICES ASSUME IInv, [Next]_vars PROVE Owned'
  OBVIOUS
<1> USE DEF mvars, ivars, rvars, Called, Owned, Notifying, Alive, Inputs
<1>0. /\ TypeOK /\ Making /\ Called /\ Owned /\ Counted /\ Elected
      /\ mode \in {"any", "all"} /\ size \in Nat /\ built \in Nat /\ built <= size
      /\ apc \in [Actors -> {"idle", "resolve", "notify", "index", "execute", "free", "over"}]
      /\ owner \in [Positions -> Owners]
      /\ Inputs \in SUBSET Positions /\ \A i \in Positions : i \in Inputs <=> i <= size
      /\ op \in SUBSET Inputs /\ ready \in SUBSET Inputs /\ attached \in SUBSET Inputs
      /\ Positions \subseteq Actors /\ Maker \in Actors /\ \A b \in Actors : b \in Positions \/ b = Maker
      /\ \A i \in Positions : i \in Nat /\ i >= 1 /\ i # Maker /\ i # Make /\ i # Result
      /\ Make # Result /\ (built < size => built + 1 \in Inputs)
  BY Kinds, Numbers DEF Actors, Inputs
<1>1. CASE AttachNext
  BY <1>0, <1>1 DEF AttachNext, Making, Continuation
<1>2. CASE CallNext
  BY <1>0, <1>2 DEF CallNext, Making
<1>3. CASE InlineReturns
  BY <1>0, <1>3 DEF InlineReturns, Making
<1>4. CASE LoopEnds
  BY <1>0, <1>4 DEF LoopEnds, Making
<1>5. CASE LastReturns
  BY <1>0, <1>5 DEF LastReturns, Making
<1>6. CASE Return
  BY <1>0, <1>6 DEF Return, Making
<1>7. ASSUME NEW a \in Actors, NotifyAny(a) PROVE Owned'
  BY <1>0, <1>7 DEF NotifyAny, Making
<1>8. ASSUME NEW a \in Actors, StoreIndex(a) PROVE Owned'
  BY <1>0, <1>8 DEF StoreIndex, Making
<1>9. ASSUME NEW a \in Actors, NotifyAll(a) PROVE Owned'
  BY <1>0, <1>9 DEF NotifyAll, Making
<1>10. ASSUME NEW a \in Actors, Execute(a) PROVE Owned'
  BY <1>0, <1>10 DEF Execute, Making
<1>11. ASSUME NEW i \in Positions, Resolve(i) PROVE Owned'
  BY <1>0, <1>11 DEF Resolve, Making
<1>12. ASSUME NEW i \in Positions, Consume(i) PROVE Owned'
  BY <1>0, <1>12 DEF Consume, Making
<1>13. ASSUME NEW i \in Positions, FreeContinuation(i) PROVE Owned'
  <2>1. Settled(owner, ext, op \ {i}, cref \ {i})
    BY <1>0, <1>13, Releases
  <2>2. /\ apc[i] = "free" /\ apc' = [apc EXCEPT ![i] = "over"]
        /\ UNCHANGED <<mvars, mpc, built, ready, rvars, client>>
    BY <1>13 DEF FreeContinuation
  <2> QED
    BY <1>0, <2>1, <2>2 DEF Settled
<1>14. CASE Get
  BY <1>0, <1>14, Releases DEF Get, Settled
<1>15. CASE DropResult
  BY <1>0, <1>15, Releases DEF DropResult, Settled
<1>16. ASSUME NEW i \in Positions, DropInput(i) PROVE Owned'
  <2>1. Settled([owner EXCEPT ![i] = "none"], ext, op, cref)
    BY <1>0, <1>16, Releases
  <2>2. owner[i] = "client" /\ UNCHANGED <<mvars, mpc, built, apc, ready, rvars, client>>
    BY <1>16 DEF DropInput
  <2>3. \A j \in Positions : [owner EXCEPT ![i] = "none"][j] = IF j = i THEN "none" ELSE owner[j]
    BY <1>0
  <2> QED
    BY <1>0, <2>1, <2>2, <2>3 DEF Settled
<1>17. ASSUME NEW i \in Positions, DropExternal(i) PROVE Owned'
  BY <1>0, <1>17, Releases DEF DropExternal, Settled
<1>18. CASE UNCHANGED vars
  BY <1>0, <1>18 DEF vars
<1> HIDE DEF IInv, Owned
<1> QED
  BY <1>0, <1>1, <1>2, <1>3, <1>4, <1>5, <1>6, <1>7, <1>8, <1>9,
     <1>10, <1>11, <1>12, <1>13, <1>14, <1>15, <1>16, <1>17, <1>18
     DEF Next, MakerStep, ProducerStep, NotifyStep, ClientStep, Terminated

\* ready_flag_ lets one actor through.
LEMMA ElectedStep == IInv /\ [Next]_vars => Elected'
<1> SUFFICES ASSUME IInv, [Next]_vars PROVE Elected'
  OBVIOUS
<1> USE DEF mvars, ivars, rvars, Elected, Called, Making, Notifying
<1>0. /\ TypeOK /\ Making /\ Called /\ Owned /\ Counted /\ Elected
      /\ mode \in {"any", "all"} /\ size \in Nat /\ built \in Nat /\ built <= size
      /\ apc \in [Actors -> {"idle", "resolve", "notify", "index", "execute", "free", "over"}]
      /\ owner \in [Positions -> Owners]
      /\ Inputs \in SUBSET Positions /\ \A i \in Positions : i \in Inputs <=> i <= size
      /\ op \in SUBSET Inputs /\ ready \in SUBSET Inputs /\ attached \in SUBSET Inputs
      /\ Positions \subseteq Actors /\ Maker \in Actors /\ \A b \in Actors : b \in Positions \/ b = Maker
      /\ \A i \in Positions : i \in Nat /\ i >= 1 /\ i # Maker /\ i # Make /\ i # Result
      /\ Make # Result /\ (built < size => built + 1 \in Inputs)
  BY Kinds, Numbers DEF Actors, Inputs
<1>1. CASE AttachNext
  BY <1>0, <1>1 DEF AttachNext, Continuation
<1>2. CASE CallNext
  BY <1>0, <1>2 DEF CallNext
<1>3. CASE InlineReturns
  BY <1>0, <1>3 DEF InlineReturns
<1>4. CASE LoopEnds
  BY <1>0, <1>4 DEF LoopEnds
<1>5. CASE LastReturns
  BY <1>0, <1>5 DEF LastReturns
<1>6. CASE Return
  BY <1>0, <1>6 DEF Return
<1>7. ASSUME NEW a \in Actors, NotifyAny(a) PROVE Elected'
  BY <1>0, <1>7 DEF NotifyAny
<1>8. ASSUME NEW a \in Actors, StoreIndex(a) PROVE Elected'
  BY <1>0, <1>8 DEF StoreIndex
<1>9. ASSUME NEW a \in Actors, NotifyAll(a) PROVE Elected'
  BY <1>0, <1>9 DEF NotifyAll
<1>10. ASSUME NEW a \in Actors, Execute(a) PROVE Elected'
  BY <1>0, <1>10 DEF Execute
<1>11. ASSUME NEW i \in Positions, Resolve(i) PROVE Elected'
  BY <1>0, <1>11 DEF Resolve
<1>12. ASSUME NEW i \in Positions, Consume(i) PROVE Elected'
  BY <1>0, <1>12 DEF Consume
<1>13. ASSUME NEW i \in Positions, FreeContinuation(i) PROVE Elected'
  <2>1. Settled(owner, ext, op \ {i}, cref \ {i})
    BY <1>0, <1>13, Releases
  <2>2. /\ apc[i] = "free" /\ apc' = [apc EXCEPT ![i] = "over"]
        /\ UNCHANGED <<mvars, mpc, built, ready, rvars, client>>
    BY <1>13 DEF FreeContinuation
  <2> QED
    BY <1>0, <2>1, <2>2 DEF Settled
<1>14. CASE Get
  BY <1>0, <1>14, Releases DEF Get, Settled
<1>15. CASE DropResult
  BY <1>0, <1>15, Releases DEF DropResult, Settled
<1>16. ASSUME NEW i \in Positions, DropInput(i) PROVE Elected'
  <2>1. Settled([owner EXCEPT ![i] = "none"], ext, op, cref)
    BY <1>0, <1>16, Releases
  <2>2. owner[i] = "client" /\ UNCHANGED <<mvars, mpc, built, apc, ready, rvars, client>>
    BY <1>16 DEF DropInput
  <2>3. \A j \in Positions : [owner EXCEPT ![i] = "none"][j] = IF j = i THEN "none" ELSE owner[j]
    BY <1>0
  <2> QED
    BY <1>0, <2>1, <2>2, <2>3 DEF Settled
<1>17. ASSUME NEW i \in Positions, DropExternal(i) PROVE Elected'
  BY <1>0, <1>17, Releases DEF DropExternal, Settled
<1>18. CASE UNCHANGED vars
  BY <1>0, <1>18 DEF vars
<1> HIDE DEF IInv, Elected
<1> QED
  BY <1>0, <1>1, <1>2, <1>3, <1>4, <1>5, <1>6, <1>7, <1>8, <1>9,
     <1>10, <1>11, <1>12, <1>13, <1>14, <1>15, <1>16, <1>17, <1>18
     DEF Next, MakerStep, ProducerStep, NotifyStep, ClientStep, Terminated

-----------------------------------------------------------------------------
\* Counting down.

\* What owes a notification is a finite set.
LEMMA OwingFinite ==
  ASSUME IInv
  PROVE  /\ IsFiniteSet(Owing)
         /\ Cardinality(Owing) \in Nat
         /\ Cardinality(Owing) = 0 <=> Owing = {}
<1>1. Owing \in SUBSET (0..MaxSize)
  BY Kinds, Numbers DEF Owing, Maker
<1>2. IsFiniteSet(0..MaxSize)
  BY Numbers, FS_Interval
<1>3. IsFiniteSet(Owing)
  BY <1>1, <1>2, FS_Subset
<1> QED
  BY <1>3, FS_CardinalityType, FS_EmptySet

\* A call of notify counts down what it owes, and nothing else.
LEMMA NotifyAllCounts ==
  ASSUME IInv, NEW a \in Actors, NotifyAll(a)
  PROVE  \E x \in Owing : Owing' = Owing \ {x}
<1>0. /\ TypeOK /\ Making /\ Called /\ Owned /\ Counted /\ Elected
      /\ mode \in {"any", "all"} /\ size \in Nat /\ built \in Nat /\ built <= size
      /\ apc \in [Actors -> {"idle", "resolve", "notify", "index", "execute", "free", "over"}]
      /\ owner \in [Positions -> Owners]
      /\ Inputs \in SUBSET Positions /\ \A i \in Positions : i \in Inputs <=> i <= size
      /\ op \in SUBSET Inputs /\ ready \in SUBSET Inputs /\ attached \in SUBSET Inputs
      /\ Positions \subseteq Actors /\ Maker \in Actors /\ \A b \in Actors : b \in Positions \/ b = Maker
      /\ \A i \in Positions : i \in Nat /\ i >= 1 /\ i # Maker /\ i # Make /\ i # Result
      /\ Make # Result /\ (built < size => built + 1 \in Inputs)
  BY Kinds, Numbers DEF Actors, Inputs
<1>1. /\ apc[a] = "notify" /\ mode = "all"
      /\ apc' = [apc EXCEPT ![a] = IF remains = 1 THEN "execute" ELSE "free"]
      /\ UNCHANGED <<size, mpc, built, ready>>
  BY DEF NotifyAll, mvars, ivars
<1>2. CASE a \in Positions
  <2>1. a \in Inputs /\ a \in ready /\ a <= built /\ a # Maker
    BY <1>0, <1>1, <1>2 DEF Called, Notifying
  <2>2. a \in Owing
    BY <1>1, <2>1 DEF Owing, Owes
  <2>3. Owing' = Owing \ {a}
    <3>1. \A i \in Inputs : Owes(i)' <=> Owes(i) /\ i # a
      BY <1>0, <1>1, <2>1 DEF Owes
    <3> QED
      BY <1>0, <1>1, <2>1, <3>1 DEF Owing, Inputs
  <2> QED
    BY <2>2, <2>3
<1>3. CASE a = Maker /\ mpc = "last"
  <2>1. Maker \in Owing
    BY <1>1, <1>3 DEF Owing
  <2>2. Owing' = Owing \ {Maker}
    <3>1. \A i \in Inputs : (Owes(i)' <=> Owes(i)) /\ i # Maker
      BY <1>0, <1>1, <1>3 DEF Owes
    <3> QED
      BY <1>0, <1>1, <1>3, <3>1 DEF Owing, Inputs
  <2> QED
    BY <2>1, <2>2
<1>4. CASE a = Maker /\ mpc = "inline"
  <2>1. built + 1 \in Inputs /\ built + 1 \in ready /\ apc[built + 1] # "notify" /\ built + 1 # Maker
    BY <1>0, <1>4 DEF Making, Called, Notifying
  <2>2. built + 1 \in Owing
    BY <1>1, <1>4, <2>1 DEF Owing, Owes
  <2>3. Owing' = Owing \ {built + 1}
    <3>1. \A i \in Inputs : Owes(i)' <=> Owes(i) /\ i # built + 1
      BY <1>0, <1>1, <1>4, <2>1 DEF Owes
    <3> QED
      BY <1>0, <1>1, <1>4, <2>1, <3>1 DEF Owing, Inputs
  <2> QED
    BY <2>2, <2>3
<1> QED
  BY <1>0, <1>1, <1>2, <1>3, <1>4 DEF Making

\* operations_remains_ is at least one when notify decrements it.
LEMMA Remains ==
  ASSUME IInv, NEW a \in Actors, NotifyAll(a)
  PROVE  /\ remains >= 1 /\ remains' = remains - 1
         /\ remains' = Cardinality(Owing')
<1>1. PICK x \in Owing : Owing' = Owing \ {x}
  BY NotifyAllCounts
<1>2. /\ mode = "all" /\ remains' = remains - 1 /\ remains = Cardinality(Owing)
  BY DEF NotifyAll, IInv, Counted
<1>3. Cardinality(Owing') = Cardinality(Owing) - 1 /\ Cardinality(Owing) # 0
  BY <1>1, OwingFinite, FS_RemoveElement
<1> QED
  BY <1>2, <1>3, OwingFinite

\* operations_remains_ says how many notifications are owed.
LEMMA CountedStep == IInv /\ [Next]_vars => Counted'
<1> SUFFICES ASSUME IInv, [Next]_vars PROVE Counted'
  OBVIOUS
<1> USE DEF mvars, ivars, rvars, Counted, Inputs
<1>0. /\ TypeOK /\ Making /\ Called /\ Owned /\ Counted /\ Elected
      /\ mode \in {"any", "all"} /\ size \in Nat /\ built \in Nat /\ built <= size
      /\ apc \in [Actors -> {"idle", "resolve", "notify", "index", "execute", "free", "over"}]
      /\ owner \in [Positions -> Owners]
      /\ Inputs \in SUBSET Positions /\ \A i \in Positions : i \in Inputs <=> i <= size
      /\ op \in SUBSET Inputs /\ ready \in SUBSET Inputs /\ attached \in SUBSET Inputs
      /\ Positions \subseteq Actors /\ Maker \in Actors /\ \A b \in Actors : b \in Positions \/ b = Maker
      /\ \A i \in Positions : i \in Nat /\ i >= 1 /\ i # Maker /\ i # Make /\ i # Result
      /\ Make # Result /\ (built < size => built + 1 \in Inputs)
  BY Kinds, Numbers DEF Actors, Inputs
<1>1. CASE AttachNext
  <2>1. Owing' = Owing
    <3>1. \A j \in Inputs : Owes(j)' <=> Owes(j)
      BY <1>0, <1>1 DEF AttachNext, Called, Making, Notifying, Owes
    <3> QED
      BY <1>0, <1>1, <3>1 DEF AttachNext, Owing, Making
  <2> QED
    BY <1>0, <1>1, <2>1 DEF AttachNext
<1>2. CASE CallNext
  <2>1. Owing' = Owing
    <3>1. \A j \in Inputs : Owes(j)' <=> Owes(j)
      BY <1>0, <1>2 DEF CallNext, Called, Making, Notifying, Owes
    <3> QED
      BY <1>0, <1>2, <3>1 DEF CallNext, Owing, Making
  <2> QED
    BY <1>0, <1>2, <2>1 DEF CallNext
<1>3. CASE InlineReturns
  <2>1. Owing' = Owing
    <3>1. \A j \in Inputs : Owes(j)' <=> Owes(j)
      BY <1>0, <1>3 DEF InlineReturns, Called, Making, Notifying, Owes
    <3> QED
      BY <1>0, <1>3, <3>1 DEF InlineReturns, Owing, Making
  <2> QED
    BY <1>0, <1>3, <2>1 DEF InlineReturns
<1>4. CASE LoopEnds
  <2>1. CASE mode = "any"
    BY <1>0, <1>4, <2>1 DEF LoopEnds
  <2>2. CASE mode = "all"
    <3>1. /\ mpc = "build" /\ built = size /\ mpc' = "last"
          /\ apc' = [apc EXCEPT ![Maker] = "notify"]
          /\ UNCHANGED <<mode, size, built, ready, remains, done, index>>
      BY <1>4, <2>2 DEF LoopEnds
    <3>2. \A j \in Inputs : j <= size /\ j # Maker /\ (Owes(j)' <=> Owes(j))
      BY <1>0, <3>1 DEF Owes
    <3>3. Owing' = Owing
      BY <1>0, <3>1, <3>2 DEF Owing
    <3> QED
      BY <1>0, <3>1, <3>3
  <2> QED
    BY <1>0, <2>1, <2>2
<1>5. CASE LastReturns
  <2>1. Owing' = Owing
    <3>1. \A j \in Inputs : Owes(j)' <=> Owes(j)
      BY <1>0, <1>5 DEF LastReturns, Called, Making, Notifying, Owes
    <3> QED
      BY <1>0, <1>5, <3>1 DEF LastReturns, Owing, Making
  <2> QED
    BY <1>0, <1>5, <2>1 DEF LastReturns
<1>6. CASE Return
  <2>1. Owing' = Owing
    <3>1. \A j \in Inputs : Owes(j)' <=> Owes(j)
      BY <1>0, <1>6 DEF Return, Called, Making, Notifying, Owes
    <3> QED
      BY <1>0, <1>6, <3>1 DEF Return, Owing, Making
  <2> QED
    BY <1>0, <1>6, <2>1 DEF Return
<1>7. ASSUME NEW a \in Actors, NotifyAny(a) PROVE Counted'
  BY <1>0, <1>7 DEF NotifyAny
<1>8. ASSUME NEW a \in Actors, StoreIndex(a) PROVE Counted'
  BY <1>0, <1>8 DEF StoreIndex
<1>9. ASSUME NEW a \in Actors, NotifyAll(a) PROVE Counted'
  <2>1. /\ remains >= 1 /\ remains' = remains - 1 /\ remains' = Cardinality(Owing')
        /\ remains \in Nat
    BY <1>9, Remains, Kinds
  <2>2. ~done /\ \A b \in Actors : apc[b] # "execute"
    BY <1>0, <1>9, <2>1 DEF NotifyAll
  <2> QED
    BY <1>0, <1>9, <2>1, <2>2 DEF NotifyAll
<1>10. ASSUME NEW a \in Actors, Execute(a) PROVE Counted'
  <2>1. Owing' = Owing
    <3>1. \A j \in Inputs : Owes(j)' <=> Owes(j)
      BY <1>0, <1>10 DEF Execute, Called, Making, Notifying, Owes
    <3> QED
      BY <1>0, <1>10, <3>1 DEF Execute, Owing, Making
  <2> QED
    BY <1>0, <1>10, <2>1 DEF Execute
<1>11. ASSUME NEW i \in Positions, Resolve(i) PROVE Counted'
  <2>1. Owing' = Owing
    <3>1. \A j \in Inputs : Owes(j)' <=> Owes(j)
      BY <1>0, <1>11 DEF Resolve, Called, Making, Notifying, Owes
    <3> QED
      BY <1>0, <1>11, <3>1 DEF Resolve, Owing, Making
  <2> QED
    BY <1>0, <1>11, <2>1 DEF Resolve
<1>12. ASSUME NEW i \in Positions, Consume(i) PROVE Counted'
  <2>1. Owing' = Owing
    <3>1. \A j \in Inputs : Owes(j)' <=> Owes(j)
      BY <1>0, <1>12 DEF Consume, Called, Making, Owes
    <3> QED
      BY <1>0, <1>12, <3>1 DEF Consume, Owing
  <2> QED
    BY <1>0, <1>12, <2>1 DEF Consume
<1>13. ASSUME NEW i \in Positions, FreeContinuation(i) PROVE Counted'
  <2>1. Owing' = Owing
    BY <1>0, <1>13, Releases DEF FreeContinuation, Settled, Owing, Owes
  <2> QED
    BY <1>0, <1>13, <2>1 DEF FreeContinuation
<1>14. CASE Get
  <2>1. Owing' = Owing
    BY <1>0, <1>14, Releases DEF Get, Settled, Owing, Owes
  <2> QED
    BY <1>0, <1>14, <2>1 DEF Get
<1>15. CASE DropResult
  <2>1. Owing' = Owing
    BY <1>0, <1>15, Releases DEF DropResult, Settled, Owing, Owes
  <2> QED
    BY <1>0, <1>15, <2>1 DEF DropResult
<1>16. ASSUME NEW i \in Positions, DropInput(i) PROVE Counted'
  <2>1. Owing' = Owing
    BY <1>0, <1>16, Releases DEF DropInput, Settled, Owing, Owes
  <2> QED
    BY <1>0, <1>16, <2>1 DEF DropInput
<1>17. ASSUME NEW i \in Positions, DropExternal(i) PROVE Counted'
  <2>1. Owing' = Owing
    BY <1>0, <1>17, Releases DEF DropExternal, Settled, Owing, Owes
  <2> QED
    BY <1>0, <1>17, <2>1 DEF DropExternal
<1>18. CASE UNCHANGED vars
  <2>1. Owing' = Owing
    BY <1>18 DEF vars, Owing, Owes
  <2> QED
    BY <1>0, <1>18, <2>1 DEF vars
<1> HIDE DEF IInv, Counted
<1> QED
  BY <1>0, <1>1, <1>2, <1>3, <1>4, <1>5, <1>6, <1>7, <1>8, <1>9,
     <1>10, <1>11, <1>12, <1>13, <1>14, <1>15, <1>16, <1>17, <1>18
     DEF Next, MakerStep, ProducerStep, NotifyStep, ClientStep, Terminated

\* The variables keep their types.
LEMMA TypeStep == IInv /\ [Next]_vars => TypeOK'
<1> SUFFICES ASSUME IInv, [Next]_vars PROVE TypeOK'
  OBVIOUS
<1> USE DEF mvars, ivars, rvars, TypeOK, Inputs, Operations
<1>0. /\ TypeOK /\ Making /\ Called /\ Counted /\ Elected
      /\ size \in Nat /\ built \in Nat /\ built <= size /\ remains \in Nat
      /\ Positions \subseteq Actors /\ Maker \in Actors /\ \A b \in Actors : b \in Positions \/ b = Maker
      /\ Inputs \subseteq Actors /\ Inputs \subseteq Positions
      /\ \A i \in Positions : i \in Nat /\ i >= 1 /\ i # Maker /\ (i \in Inputs <=> i <= size)
      /\ (built < size => built + 1 \in 1..size /\ built + 1 \in Actors)
  BY Kinds, Numbers DEF Actors, Inputs, Positions
<1>1. CASE AttachNext
  BY <1>0, <1>1 DEF AttachNext, Continuation
<1>2. CASE CallNext
  BY <1>0, <1>2 DEF CallNext
<1>3. CASE InlineReturns
  <2>1. built < size
    BY <1>0, <1>3 DEF InlineReturns, Making
  <2> QED
    BY <1>0, <1>3, <2>1 DEF InlineReturns
<1>4. CASE LoopEnds
  BY <1>0, <1>4 DEF LoopEnds
<1>5. CASE LastReturns
  BY <1>0, <1>5 DEF LastReturns
<1>6. CASE Return
  BY <1>0, <1>6 DEF Return
<1>7. ASSUME NEW a \in Actors, NotifyAny(a) PROVE TypeOK'
  BY <1>0, <1>7 DEF NotifyAny
<1>8. ASSUME NEW a \in Actors, StoreIndex(a) PROVE TypeOK'
  <2>1. index' \in 0..size
    <3>1. CASE a \in Positions
      <4>1. a \in Inputs
        BY <1>0, <1>8, <3>1 DEF StoreIndex, Called
      <4> QED
        BY <1>0, <1>8, <3>1, <4>1 DEF StoreIndex
    <3>2. CASE a = Maker
      <4>1. built < size
        BY <1>0, <1>8, <3>2 DEF StoreIndex, Making, Notifying, Elected, Counted
      <4> QED
        BY <1>0, <1>8, <3>2, <4>1 DEF StoreIndex
    <3> QED
      BY <1>0, <3>1, <3>2
  <2> QED
    BY <1>0, <1>8, <2>1 DEF StoreIndex
<1>9. ASSUME NEW a \in Actors, NotifyAll(a) PROVE TypeOK'
  <2>1. remains >= 1 /\ remains' = remains - 1
    BY <1>9, Remains
  <2>2. remains' \in 0..Operations(size)
    BY <1>0, <2>1
  <2> QED
    BY <1>0, <1>9, <2>2 DEF NotifyAll
<1>10. ASSUME NEW a \in Actors, Execute(a) PROVE TypeOK'
  BY <1>0, <1>10 DEF Execute
<1>11. ASSUME NEW i \in Positions, Resolve(i) PROVE TypeOK'
  BY <1>0, <1>11 DEF Resolve
<1>12. ASSUME NEW i \in Positions, Consume(i) PROVE TypeOK'
  <2>1. i \in Inputs
    BY <1>0, <1>12 DEF Consume, Called
  <2> QED
    BY <1>0, <1>12, <2>1 DEF Consume
<1>13. ASSUME NEW i \in Positions, FreeContinuation(i) PROVE TypeOK'
  <2>1. /\ cref' \in SUBSET cref /\ attached' \in SUBSET attached /\ ext' \in SUBSET ext
        /\ op' \in SUBSET op /\ owner' \in [Positions -> Owners]
    BY <1>0, <1>13, Releases DEF Settled
  <2> QED
    BY <1>0, <1>13, <2>1 DEF FreeContinuation, Owners
<1>14. CASE Get
  <2>1. /\ cref' \in SUBSET cref /\ attached' \in SUBSET attached /\ ext' \in SUBSET ext
        /\ op' \in SUBSET op /\ owner' \in [Positions -> Owners]
    BY <1>0, <1>14, Releases DEF Settled
  <2> QED
    BY <1>0, <1>14, <2>1 DEF Get, Owners
<1>15. CASE DropResult
  <2>1. /\ cref' \in SUBSET cref /\ attached' \in SUBSET attached /\ ext' \in SUBSET ext
        /\ op' \in SUBSET op /\ owner' \in [Positions -> Owners]
    BY <1>0, <1>15, Releases DEF Settled
  <2> QED
    BY <1>0, <1>15, <2>1 DEF DropResult, Owners
<1>16. ASSUME NEW i \in Positions, DropInput(i) PROVE TypeOK'
  <2>1. /\ cref' \in SUBSET cref /\ attached' \in SUBSET attached /\ ext' \in SUBSET ext
        /\ op' \in SUBSET op /\ owner' \in [Positions -> Owners]
    BY <1>0, <1>16, Releases DEF Settled
  <2> QED
    BY <1>0, <1>16, <2>1 DEF DropInput, Owners
<1>17. ASSUME NEW i \in Positions, DropExternal(i) PROVE TypeOK'
  <2>1. /\ cref' \in SUBSET cref /\ attached' \in SUBSET attached /\ ext' \in SUBSET ext
        /\ op' \in SUBSET op /\ owner' \in [Positions -> Owners]
    BY <1>0, <1>17, Releases DEF Settled
  <2> QED
    BY <1>0, <1>17, <2>1 DEF DropExternal, Owners
<1>18. CASE UNCHANGED vars
  BY <1>0, <1>18 DEF vars
<1> HIDE DEF IInv, TypeOK
<1> QED
  BY <1>0, <1>1, <1>2, <1>3, <1>4, <1>5, <1>6, <1>7, <1>8, <1>9,
     <1>10, <1>11, <1>12, <1>13, <1>14, <1>15, <1>16, <1>17, <1>18
     DEF Next, MakerStep, ProducerStep, NotifyStep, ClientStep, Terminated

-----------------------------------------------------------------------------
\* At first every input and make() itself owe a notification.
LEMMA InitInv == Init => IInv
<1> SUFFICES ASSUME Init PROVE IInv
  OBVIOUS
<1>1. /\ mode \in {"any", "all"} /\ size \in 0..MaxSize /\ size \in Nat /\ mpc = "build" /\ built = 0
      /\ apc = [a \in Actors |-> "idle"] /\ op = {} /\ ready = {} /\ attached = {}
      /\ owner = [i \in Positions |-> IF i \in Inputs THEN "sequence" ELSE "none"]
      /\ ext \in SUBSET Inputs /\ cref = {Make} /\ flag = FALSE /\ index = 0
      /\ remains = size + 1 /\ done = FALSE /\ client = "none"
  BY Numbers DEF Init, Operations
<1>2. /\ Inputs \subseteq Positions /\ Positions \subseteq Actors /\ Maker \in Actors
      /\ \A i \in Positions : i \in Nat /\ i >= 1 /\ i # Make /\ i # Result /\ i # Maker
      /\ Make # Result /\ Make \in Actors
  BY <1>1, Numbers DEF Inputs, Make, Maker
<1>3. TypeOK
  <2>1. /\ size \in 0..MaxSize /\ built \in 0..size /\ index \in 0..size /\ remains \in 0..Operations(size)
    BY <1>1 DEF Operations
  <2>2. /\ apc \in [Actors -> {"idle", "resolve", "notify", "index", "execute", "free", "over"}]
        /\ owner \in [Positions -> {"sequence", "client", "none"}]
    BY <1>1
  <2> QED
    BY <1>1, <1>2, <2>1, <2>2 DEF TypeOK
<1>4. Making
  BY <1>1, <1>2 DEF Making
<1>5. Called
  BY <1>1, <1>2 DEF Called, Notifying, Alive, Inputs
<1>6. Owned
  BY <1>1, <1>2 DEF Owned
<1>7. Elected
  BY <1>1, <1>2 DEF Elected
<1>8. Owing = 0..size
  <2>1. Owing = Inputs \cup {Maker}
    BY <1>1 DEF Owing, Owes
  <2> QED
    BY <1>1, <2>1 DEF Inputs, Maker
<1>9. Cardinality(0..size) = size + 1
  BY <1>1, FS_Interval
<1>10. Counted
  BY <1>1, <1>2, <1>8, <1>9 DEF Counted
<1> QED
  BY <1>3, <1>4, <1>5, <1>6, <1>7, <1>10 DEF IInv

\* The inductive invariant of the combinators: who owns what, who calls whom,
\* and what is still to be counted.
THEOREM InductiveInvariant == Spec => []IInv
<1>1. Init => IInv
  BY InitInv
<1>2. IInv /\ [Next]_vars => IInv'
  BY TypeStep, MakingStep, CalledStep, OwnedStep, CountedStep, ElectedStep DEF IInv
<1> QED
  BY <1>1, <1>2, PTL DEF Spec

-----------------------------------------------------------------------------
\* The variables of the combinators keep their types: operations_remains_
\* never wraps around and result_.index is a position of the sequence.
THEOREM TypeCorrect == Spec => []TypeOK
<1>1. IInv => TypeOK
  BY DEF IInv
<1> QED
  BY <1>1, InductiveInvariant, PTL

\* Whoever finds the combined future ready finds what it promises: the index
\* of a ready input (when_any), or a sequence attached and ready completely
\* (when_all), for a sequence of any length and inputs resolved at any time.
THEOREM PromiseKept == Spec => []ResultIsReady
<1>1. ASSUME IInv, done, mode = "any"
      PROVE  IF size = 0 THEN index = 0 ELSE index \in ready
  BY <1>1, Kinds DEF Elected
<1>2. ASSUME IInv, done, mode = "all" PROVE ready = Inputs /\ built = size
  <2>1. Owing = {}
    BY <1>2, OwingFinite, Kinds DEF Counted
  <2>2. mpc \notin {"build", "inline"} /\ \A i \in Inputs : i \in ready
    BY <2>1 DEF Owing, Owes
  <2> QED
    BY <1>2, <2>2, Kinds DEF Making
<1>3. IInv => ResultIsReady
  BY <1>1, <1>2, Kinds DEF ResultIsReady
<1> QED
  BY <1>3, InductiveInvariant, PTL

\* What when_any's result says is not overwritten by an input that becomes
\* ready later.
THEOREM FirstStays == Spec => IndexIsFinal
<1>1. ASSUME IInv, Next PROVE done => index' = index
  <2>1. ASSUME NEW a \in Actors, StoreIndex(a) PROVE ~done
    BY <1>1, <2>1, Kinds DEF StoreIndex, Elected, Counted
  <2>2. Positions \subseteq Actors /\ Maker \in Actors
    BY DEF Actors
  <2> HIDE DEF Positions, Actors, Inputs
  <2> QED
    BY <1>1, <2>1, <2>2
       DEF Next, MakerStep, ProducerStep, NotifyStep, ClientStep, Terminated, vars, mvars, ivars,
           rvars, AttachNext, CallNext, InlineReturns, LoopEnds, LastReturns, Return, NotifyAny,
           NotifyAll, Execute, Resolve, Consume, FreeContinuation, Get, DropResult, DropInput,
           DropExternal
<1>2. IInv /\ [Next]_vars => [done => index' = index]_<<done, index>>
  BY <1>1 DEF vars, rvars
<1> QED
  BY <1>2, InductiveInvariant, PTL DEF Spec, IndexIsFinal

\* The cycle of ownership between the combined state and its inputs keeps the
\* state alive while it may be called, and is gone in the end.
THEOREM NoDanglingNorLeak == Spec => []OwnedWhileNeeded
<1>1. ASSUME IInv, NEW a \in Actors, Notifying(a) \/ a \in attached PROVE cref # {}
  <2>1. CASE a \in Positions
    BY <1>1, <2>1, Kinds DEF Called, Owned
  <2>2. CASE a = Maker
    <3>1. Maker \notin attached
      BY <1>1, Kinds, Numbers
    <3> QED
      BY <1>1, <2>2, <3>1, Kinds DEF Making, Notifying
  <2> QED
    BY <2>1, <2>2 DEF Actors
<1>2. ASSUME IInv, Quiet
      PROVE  cref = {} /\ attached = {} /\ \A i \in Inputs : owner[i] = "none"
  <2>1. attached = {}
    BY <1>2, Kinds DEF Quiet, Called
  <2>2. \A i \in Positions : i \notin cref
    BY <1>2, <2>1, Kinds DEF Quiet, Called, Owned, Notifying
  <2>3. cref = {}
    BY <1>2, <2>2, Kinds DEF Quiet, Making, TypeOK, Actors, Maker, Make
  <2>4. \A i \in Inputs : owner[i] = "none"
    BY <1>2, <2>3, Kinds DEF Quiet, Owned, Owners
  <2> QED
    BY <2>1, <2>3, <2>4
<1>3. IInv => OwnedWhileNeeded
  BY <1>1, <1>2 DEF OwnedWhileNeeded, Notifying
<1> QED
  BY <1>3, InductiveInvariant, PTL

\* A combined state that has been destroyed gets no owner again: neither the
\* loop of make() nor a late continuation makes a shared_ptr to it.
DestroyedForGood == [][cref = {} => cref' = {}]_vars

\* The combined state is destroyed once.
THEOREM NoRevival == Spec => DestroyedForGood
<1>1. ASSUME IInv, Next, cref = {} PROVE cref' = {}
  <2>1. ~AttachNext /\ ~Return
    BY <1>1, Kinds DEF AttachNext, Return, Making
  <2>2. Get \/ DropResult => cref' = {}
    BY <1>1, Kinds, Releases DEF Settled
  <2>3. \A i \in Positions : FreeContinuation(i) \/ DropInput(i) \/ DropExternal(i) => cref' = {}
    BY <1>1, Kinds, Releases DEF Settled
  <2>4. Inputs \subseteq Positions
    BY <1>1, Kinds
  <2> HIDE DEF Inputs
  <2> QED
    BY <1>1, <2>1, <2>2, <2>3, <2>4
       DEF Next, MakerStep, ProducerStep, NotifyStep, ClientStep, Terminated, vars, mvars, ivars,
           rvars, CallNext, InlineReturns, LoopEnds, LastReturns, NotifyAny, StoreIndex, NotifyAll,
           Execute, Resolve, Consume
<1>2. IInv /\ [Next]_vars => [cref = {} => cref' = {}]_vars
  BY <1>1 DEF vars
<1> QED
  BY <1>2, InductiveInvariant, PTL DEF Spec, DestroyedForGood
=============================================================================
