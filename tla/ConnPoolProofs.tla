--------------------------- MODULE ConnPoolProofs ---------------------------
(***************************************************************************)
(* Workers and connections, for any number of each, of requests, and of     *)
(* calls a login makes.                                                     *)
(*                                                                         *)
(* That every request ends is a liveness property and is left to TLC. Its   *)
(* two reasons are proved here: somebody can go on in every state, and what *)
(* goes on has fewer steps ahead of it afterwards.                          *)
(***************************************************************************)
EXTENDS ConnPool, FiniteSetTheorems, TLAPS

LEMMA PInit == Init => PTypeOK
  BY ResourceAssumption DEF Init, PTypeOK, Stage

LEMMA PTypeStep == PTypeOK /\ [Next]_vars => PTypeOK'
<1> SUFFICES ASSUME PTypeOK, [Next]_vars PROVE PTypeOK'
  OBVIOUS
<1>1. CASE UNCHANGED vars
  BY <1>1 DEF vars, PTypeOK
<1>2. ASSUME NEW r \in Request, Arrive(r) PROVE PTypeOK'
  BY <1>2, ResourceAssumption DEF PTypeOK, Arrive, Enter, Stage
<1>3. ASSUME NEW r \in Request,
             PickUp(r) \/ Get(r) \/ Timeout(r) \/ Answer(r) \/ Resume(r)
                \/ Cancel(r) \/ Return(r)
      PROVE  PTypeOK'
  BY <1>3 DEF PTypeOK, PickUp, Get, Timeout, Answer, Resume, Cancel, Return, Enter, Stage
<1>4. ASSUME NEW r \in Request, Await(r) \/ GetAgain(r) PROVE PTypeOK'
  <2>1. calls[r] - 1 \in 0 .. MaxCalls
    BY <1>4, ResourceAssumption DEF PTypeOK, Await, GetAgain
  <2> QED BY <1>4, <2>1 DEF PTypeOK, Await, GetAgain, Enter, Stage
<1> QED BY <1>1, <1>2, <1>3, <1>4 DEF Next

\* The variables keep their types.
THEOREM PoolTyped == Spec => []PTypeOK
<1>1. Init => PTypeOK
  BY PInit
<1> QED BY <1>1, PTypeStep, PTL DEF Spec

-----------------------------------------------------------------------------
\* The circle of workers that wait for connections and connections that wait for
\* workers is broken in every state: if all workers are taken, one of those
\* that took them runs, gets a connection or gives up.
THEOREM CircleBroken == Spec => []SomeoneCanGoOn
<1>1. PTypeOK => SomeoneCanGoOn
  <2> SUFFICES ASSUME PTypeOK, NEW r \in Request, stage[r] \notin {"away", "awaiting"}
               PROVE  \E q \in Request : CanGoOn(q)
    BY DEF SomeoneCanGoOn
  <2>1. stage[r] \in {"arrived", "ready", "getting", "running"}
    BY DEF PTypeOK, Stage
  <2>2. CASE FreeWorker \/ stage[r] \in {"getting", "running"}
    BY <2>1, <2>2 DEF CanGoOn, GivesUp
  <2>3. CASE ~FreeWorker
    <3>1. OnWorker # {}
      <4>1. Cardinality({}) = 0
        BY FS_EmptySet
      <4> QED BY <2>3, <4>1, ResourceAssumption DEF FreeWorker
    <3>2. PICK q \in Request : stage[q] \in {"getting", "running"}
      BY <3>1 DEF OnWorker
    <3> QED BY <3>2 DEF CanGoOn, GivesUp
  <2> QED BY <2>2, <2>3
<1> QED BY <1>1, PoolTyped, PTL

\* Every step of a request leaves it fewer steps to go, and no other request's
\* step costs it any of its progress.
THEOREM StepsAreBounded == Spec => StepsRunOut
<1>1. PTypeOK /\ [Next]_vars =>
         [\A r \in Request : stage[r] # "away" =>
             \/ Ahead(r)' < Ahead(r)
             \/ stage'[r] = stage[r] /\ calls'[r] = calls[r]]_vars
  <2> SUFFICES ASSUME PTypeOK, Next, NEW r \in Request, stage[r] # "away",
                      ~ (stage'[r] = stage[r] /\ calls'[r] = calls[r])
               PROVE  Ahead(r)' < Ahead(r)
    OBVIOUS
  <2>1. calls[r] \in Nat /\ stage[r] \in Stage
    BY ResourceAssumption DEF PTypeOK
  <2>2. PICK q \in Request :
          \/ Arrive(q) \/ PickUp(q) \/ Get(q) \/ Timeout(q) \/ Await(q) \/ GetAgain(q)
          \/ Answer(q) \/ Resume(q) \/ Cancel(q) \/ Return(q)
    BY DEF Next
  <2>3. q = r
    BY <2>2 DEF PTypeOK, Arrive, PickUp, Get, Timeout, Await, GetAgain, Answer, Resume,
                Cancel, Return, Enter
  <2>4. CASE Timeout(r) \/ Cancel(r) \/ Return(r)
    <3>1. stage'[r] = "away"
      BY <2>4 DEF PTypeOK, Timeout, Cancel, Return, Enter
    <3> QED BY <2>1, <3>1 DEF Ahead, Stage
  <2>5. CASE PickUp(r) \/ Get(r) \/ Answer(r) \/ Resume(r)
    <3>1. /\ calls'[r] = calls[r]
          /\ \/ stage[r] = "arrived" /\ stage'[r] = "getting"
             \/ stage[r] = "getting" /\ stage'[r] = "running"
             \/ stage[r] = "awaiting" /\ stage'[r] = "ready"
             \/ stage[r] = "ready" /\ stage'[r] = "running"
      BY <2>5 DEF PTypeOK, PickUp, Get, Answer, Resume, Enter
    <3> QED BY <2>1, <3>1 DEF Ahead
  <2>6. CASE Await(r) \/ GetAgain(r)
    <3>1. /\ calls'[r] = calls[r] - 1 /\ stage[r] = "running"
          /\ stage'[r] = "awaiting" \/ stage'[r] = "getting"
      BY <2>6 DEF PTypeOK, Await, GetAgain, Enter
    <3> QED BY <2>1, <3>1 DEF Ahead
  <2>7. ~ Arrive(r)
    BY DEF Arrive
  <2> QED BY <2>2, <2>3, <2>4, <2>5, <2>6, <2>7
<1> QED BY <1>1, PoolTyped, PTL DEF Spec, StepsRunOut
=============================================================================
