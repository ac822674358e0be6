---------------------------- MODULE SpineProofs ----------------------------
(***************************************************************************)
(* What a run of the spine keeps, for plans of every size and shape: the   *)
(* frontier is closed, nothing finished is lost, and a done context stops  *)
(* the run after at most one more operation.                               *)
(***************************************************************************)
EXTENDS Spine, SequenceTheorems, TLAPS

-----------------------------------------------------------------------------
(* A done context.                                                         *)

Operations == {"compile", "bind", "transition", "seal", "assess"}

\* An operation begins under a live context, so none has completed late while
\* one is under way.
LateInv ==
  /\ context \in {"live", "done"}
  /\ late \in 0 .. 1
  /\ context = "live" => late = 0
  /\ pc \in Operations => late = 0

LEMMA LateKept == LateInv /\ [Next]_vars => LateInv'
<1> SUFFICES ASSUME LateInv, [Next]_vars PROVE LateInv'
  OBVIOUS
<1> USE DEF LateInv, Operations
<1>1. CASE ContextDone
  BY <1>1 DEF ContextDone, place
<1>2. ASSUME NEW f, NEW i, Cancelled(f, i) PROVE LateInv'
  BY <1>2 DEF Cancelled, Machinery
<1>3. CASE IncompleteRequest
  BY <1>3 DEF IncompleteRequest
<1>4. ASSUME NEW f, NEW t, Proceed(f, t) PROVE LateInv'
  BY <1>4 DEF Proceed
<1>5. ASSUME NEW f \in Operations, Answer(f), pc' \notin Operations PROVE LateInv'
  BY <1>5 DEF Answer
<1>6. CASE Compile
  BY <1>6, <1>5 DEF Compile, Machinery
<1>7. CASE Bind
  BY <1>7, <1>5 DEF Bind, Machinery
<1>8. CASE Transition
  BY <1>8, <1>5 DEF Transition, Machinery, SemanticRejection
<1>9. CASE NextCheckpoint
  BY <1>9 DEF NextCheckpoint
<1>10. CASE Succeed
  BY <1>10 DEF Succeed
<1>11. CASE Seal
  BY <1>11, <1>5 DEF Seal, Machinery, SemanticRejection
<1>12. CASE Assess
  BY <1>12, <1>5 DEF Assess, Machinery, SemanticRejection
<1>13. CASE CheckpointDone
  BY <1>13 DEF CheckpointDone
<1>14. CASE UNCHANGED vars
  BY <1>14 DEF vars, place
<1>15. CASE CheckContext
  BY <1>15, <1>2 DEF CheckContext
<1>16. CASE StartCompile \/ StartBind \/ StartTransition \/ StartSeal \/ StartAssess
  BY <1>16, <1>4 DEF StartCompile, StartBind, StartTransition, StartSeal, StartAssess
<1> QED
  BY <1>1, <1>3, <1>6, <1>7, <1>8, <1>9, <1>10, <1>11, <1>12, <1>13, <1>14, <1>15, <1>16
     DEF Next

\* Once the context is done at most one operation completes, whatever the plan.
THEOREM LittleEverHappensLate == Spec => []LittleHappensLate
<1>1. Init => LateInv
  <2>1. Init => pc = "start" /\ context = "live" /\ late = 0
    BY DEF Init
  <2> QED
    BY <2>1 DEF LateInv, Operations
<1>2. LateInv => LittleHappensLate
  BY DEF LateInv, LittleHappensLate
<1> QED
  BY <1>1, <1>2, LateKept, PTL DEF Spec

-----------------------------------------------------------------------------
(* The frontier.                                                           *)

Places == Operations \cup
  {"start", "bind_check", "transition_check", "boundary", "seal_check",
   "assess_check", "returned"}

Finished(c) == c \in sealed /\ \A p \in Profile : <<c, p>> \in assessed

\* The parts of the run's state that the frontier is made of.
FrontierType ==
  /\ pc \in Places
  /\ accepted \in 0 .. Transformations
  /\ at \in Nat /\ under \in Nat
  /\ sealed \subseteq Checkpoint /\ disowned \subseteq Checkpoint
  /\ assessed \subseteq Checkpoint \X Profile

\* Where the loops are, the checkpoints behind them are finished.
LoopInv ==
  /\ pc \in {"start", "compile", "bind_check", "bind"} => accepted = 0
  /\ pc = "transition" => accepted < Transformations
  /\ \A c \in Checkpoint : After[c] < accepted => Finished(c)
  /\ pc \in {"transition_check", "transition"} =>
       \A c \in Checkpoint : After[c] = accepted => Finished(c)
  /\ pc \in {"boundary", "seal_check", "seal", "assess_check", "assess"} =>
       /\ at # 0
       /\ \A c \in Checkpoint : c < at /\ After[c] = accepted => Finished(c)
  /\ pc \in {"seal_check", "seal", "assess_check", "assess"} =>
       at \in Checkpoint /\ After[at] = accepted
  /\ pc \in {"assess_check", "assess"} =>
       /\ at \in sealed /\ under # 0
       /\ \A p \in Profile : p < under => <<at, p>> \in assessed
  /\ pc = "assess" => under \in Profile

\* Nothing is dropped from the frontier but on the way out.
EndInv ==
  /\ disowned # {} => pc = "returned"
  /\ status = "succeeded" =>
       /\ pc = "returned" /\ accepted = Transformations
       /\ \A c \in Checkpoint : Finished(c)

FrontierInv == FrontierType /\ FrontierIsClosed /\ LoopInv /\ EndInv

\* The run returns without touching the frontier and not with success.
LEMMA ReturnKeeps ==
  ASSUME FrontierInv, pc' = "returned", status' # "succeeded",
         UNCHANGED <<accepted, at, under, sealed, assessed, disowned>>
  PROVE  FrontierInv'
BY DEF FrontierInv, FrontierType, FrontierIsClosed, LoopInv, EndInv, Finished, Places, Operations

\* A failure of the machinery ends the run without success.
LEMMA MachineryStatus ==
  ASSUME NEW p, NEW c, NEW i, Machinery(p, c, i)
  PROVE  pc' = "returned" /\ status' # "succeeded"
BY DEF Machinery, FrontierStatus

\* So does a rejection.
LEMMA RejectionStatus ==
  ASSUME NEW p, NEW k, SemanticRejection(p, k)
  PROVE  pc' = "returned" /\ status' # "succeeded"
BY DEF SemanticRejection, FrontierStatus

\* Every step keeps the frontier's relation to the loops.
LEMMA FrontierKept == FrontierInv /\ [Next]_vars => FrontierInv'
<1> SUFFICES ASSUME FrontierInv, [Next]_vars PROVE FrontierInv'
  OBVIOUS
<1> USE SpineAssumption
<1>1. CASE ContextDone
  BY <1>1 DEF ContextDone, place, frontier, outcome,
     FrontierInv, FrontierType, FrontierIsClosed, LoopInv, EndInv, Finished
<1>2. ASSUME NEW f, NEW i, Cancelled(f, i) PROVE FrontierInv'
  BY <1>2, MachineryStatus, ReturnKeeps DEF Cancelled, frontier
<1>3. CASE IncompleteRequest
  BY <1>3, ReturnKeeps DEF IncompleteRequest, frontier
<1>4. ASSUME NEW f, NEW t, Proceed(f, t),
             <<f, t>> \in {<<"start", "compile">>, <<"bind_check", "bind">>,
                           <<"seal_check", "seal">>}
      PROVE  FrontierInv'
  BY <1>4 DEF Proceed, frontier, outcome, Places, Operations,
     FrontierInv, FrontierType, FrontierIsClosed, LoopInv, EndInv, Finished
<1>5. CASE StartTransition
  BY <1>5 DEF StartTransition, Proceed, frontier, outcome, Places, Operations,
     FrontierInv, FrontierType, FrontierIsClosed, LoopInv, EndInv, Finished
<1>6. CASE StartAssess
  BY <1>6 DEF StartAssess, Proceed, frontier, outcome, Places, Operations,
     FrontierInv, FrontierType, FrontierIsClosed, LoopInv, EndInv, Finished
<1>7. CASE Compile
  <2>1. UNCHANGED <<accepted, at, under, sealed, assessed, disowned>> /\ pc = "compile"
    BY <1>7 DEF Compile, Answer
  <2>2. CASE pc' = "returned" /\ status' # "succeeded"
    BY <2>1, <2>2, ReturnKeeps
  <2>3. CASE pc' = "bind_check" /\ status' = status
    BY <2>1, <2>3 DEF Places, Operations,
       FrontierInv, FrontierType, FrontierIsClosed, LoopInv, EndInv, Finished
  <2> QED
    BY <1>7, <2>2, <2>3, MachineryStatus DEF Compile, outcome
<1>8. CASE Bind
  <2>1. UNCHANGED <<accepted, at, under, sealed, assessed, disowned>> /\ pc = "bind"
    BY <1>8 DEF Bind, Answer
  <2>2. CASE pc' = "returned" /\ status' # "succeeded"
    BY <2>1, <2>2, ReturnKeeps
  <2>3. CASE pc' = "transition_check" /\ status' = status
    BY <2>1, <2>3 DEF Places, Operations,
       FrontierInv, FrontierType, FrontierIsClosed, LoopInv, EndInv, Finished
  <2> QED
    BY <1>8, <2>2, <2>3, MachineryStatus DEF Bind, outcome
<1>9. CASE Transition
  <2>1. UNCHANGED <<under, sealed, assessed, disowned>> /\ pc = "transition"
    BY <1>9 DEF Transition, Answer
  <2>2. CASE pc' = "returned" /\ status' # "succeeded" /\ UNCHANGED <<accepted, at>>
    BY <2>1, <2>2, ReturnKeeps
  <2>3. CASE pc' = "boundary" /\ accepted' = accepted + 1 /\ at' = 1 /\ status' = status
    BY <2>1, <2>3 DEF Places, Operations, Checkpoint,
       FrontierInv, FrontierType, FrontierIsClosed, LoopInv, EndInv, Finished
  <2> QED
    BY <1>9, <2>2, <2>3, MachineryStatus, RejectionStatus DEF Transition, outcome
<1>10. CASE NextCheckpoint
  <2>1. /\ pc = "boundary"
        /\ UNCHANGED <<accepted, under, sealed, assessed, disowned, status>>
    BY <1>10 DEF NextCheckpoint, frontier, outcome
  <2>2. CASE Declared /\ pc' = "seal_check" /\ at' = at
    BY <2>1, <2>2 DEF Declared, Places, Operations, FrontierInv, FrontierType, FrontierIsClosed, LoopInv, EndInv, Finished
  <2>3. CASE at \in Checkpoint /\ ~Declared /\ at' = at + 1 /\ pc' = pc
    <3>1. \A c \in Checkpoint : c < at + 1 /\ After[c] = accepted => Finished(c)
      BY <2>1, <2>3 DEF Declared, Checkpoint, FrontierInv, FrontierType, LoopInv
    <3> QED
      BY <2>1, <2>3, <3>1 DEF FrontierInv, FrontierType, FrontierIsClosed, LoopInv, EndInv, Finished
  <2>4. CASE at \notin Checkpoint /\ pc' = "transition_check" /\ at' = at
    <3>1. \A c \in Checkpoint : c < at
      BY <2>1, <2>4 DEF Checkpoint, FrontierInv, FrontierType, LoopInv
    <3>2. \A c \in Checkpoint : After[c] = accepted => Finished(c)
      BY <2>1, <3>1 DEF FrontierInv, LoopInv
    <3> QED
      BY <2>1, <2>4, <3>2 DEF Places, Operations, FrontierInv, FrontierType, FrontierIsClosed, LoopInv, EndInv, Finished
  <2> QED
    BY <1>10, <2>2, <2>3, <2>4 DEF NextCheckpoint
<1>11. CASE Succeed
  <2>1. /\ pc = "transition_check" /\ accepted = Transformations /\ pc' = "returned"
        /\ UNCHANGED <<accepted, at, under, sealed, assessed, disowned>>
    BY <1>11 DEF Succeed, frontier
  <2>2. \A c \in Checkpoint : After[c] < accepted \/ After[c] = accepted
    BY <2>1
  <2>3. \A c \in Checkpoint : Finished(c)
    BY <2>1, <2>2 DEF FrontierInv, LoopInv
  <2> QED
    BY <2>1, <2>3 DEF Places, Operations, FrontierInv, FrontierType, FrontierIsClosed, LoopInv, EndInv, Finished
<1>12. CASE Seal
  <2>1. UNCHANGED <<accepted, at, assessed, disowned>> /\ pc = "seal"
    BY <1>12 DEF Seal, Answer
  <2>2. CASE pc' = "returned" /\ status' # "succeeded" /\ UNCHANGED <<sealed, under>>
    BY <2>1, <2>2, ReturnKeeps
  <2>3. CASE /\ pc' = "assess_check" /\ sealed' = sealed \cup {at} /\ under' = 1
             /\ status' = status
    BY <2>1, <2>3 DEF Places, Operations, Checkpoint, Profile,
       FrontierInv, FrontierType, FrontierIsClosed, LoopInv, EndInv, Finished
  <2> QED
    BY <1>12, <2>2, <2>3, MachineryStatus, RejectionStatus DEF Seal, outcome
<1>13. CASE Assess
  <2>1. UNCHANGED <<accepted, at>> /\ pc = "assess"
    BY <1>13 DEF Assess, Answer
  <2>2. CASE /\ pc' = "returned" /\ status' # "succeeded"
             /\ UNCHANGED <<under, sealed, assessed, disowned>>
    BY <2>1, <2>2, ReturnKeeps
  <2>3. CASE /\ pc' = "returned" /\ status' # "succeeded" /\ under' = under
             /\ ExcludeUnverifiedCheckpoint(at) /\ disowned' = disowned \cup {at}
    BY <2>1, <2>3 DEF ExcludeUnverifiedCheckpoint, Places, Operations,
       FrontierInv, FrontierType, FrontierIsClosed, LoopInv, EndInv, Finished
  <2>4. CASE /\ pc' = "assess_check" /\ assessed' = assessed \cup {<<at, under>>}
             /\ under' = under + 1 /\ UNCHANGED <<sealed, disowned, status>>
    BY <2>1, <2>4 DEF Places, Operations, Checkpoint, Profile,
       FrontierInv, FrontierType, FrontierIsClosed, LoopInv, EndInv, Finished
  <2> QED
    BY <1>13, <2>2, <2>3, <2>4, MachineryStatus, RejectionStatus DEF Assess, outcome
<1>14. CASE CheckpointDone
  <2>1. /\ pc = "assess_check" /\ under \notin Profile /\ pc' = "boundary" /\ at' = at + 1
        /\ UNCHANGED <<accepted, under, sealed, assessed, disowned, status>>
    BY <1>14 DEF CheckpointDone, frontier, outcome
  <2>2. \A p \in Profile : p < under
    BY <2>1 DEF Profile, FrontierInv, FrontierType, LoopInv
  <2>3. Finished(at)
    BY <2>1, <2>2 DEF Finished, FrontierInv, LoopInv
  <2>4. \A c \in Checkpoint : c < at + 1 /\ After[c] = accepted => Finished(c)
    BY <2>1, <2>3 DEF Checkpoint, FrontierInv, FrontierType, LoopInv
  <2> QED
    BY <2>1, <2>4 DEF Places, Operations, FrontierInv, FrontierType, FrontierIsClosed, LoopInv, EndInv, Finished
<1>15. CASE UNCHANGED vars
  BY <1>15 DEF vars, place, frontier, outcome,
     FrontierInv, FrontierType, FrontierIsClosed, LoopInv, EndInv, Finished
<1>16. CASE CheckContext
  BY <1>16, <1>2 DEF CheckContext
<1>17. CASE StartCompile \/ StartBind \/ StartSeal
  BY <1>17, <1>4 DEF StartCompile, StartBind, StartSeal
<1> QED
  BY <1>1, <1>3, <1>5, <1>6, <1>7, <1>8, <1>9, <1>10, <1>11, <1>12, <1>13, <1>14, <1>15,
     <1>16, <1>17 DEF Next

LEMMA FrontierHolds == Spec => []FrontierInv
<1>1. Init => FrontierInv
  <2> SUFFICES ASSUME Init PROVE FrontierInv
    OBVIOUS
  <2>1. accepted = 0 /\ at = 0 /\ under = 0
    BY DEF Init
  <2>2. pc = "start" /\ status = ""
    BY DEF Init
  <2>3. sealed = {} /\ assessed = {} /\ disowned = {}
    BY DEF Init
  <2>4. accepted \in 0 .. Transformations /\ at \in Nat /\ under \in Nat
    BY <2>1, SpineAssumption
  <2>5. pc \in Places
    BY <2>2 DEF Places
  <2>6. FrontierType
    BY <2>3, <2>4, <2>5 DEF FrontierType
  <2>7. FrontierIsClosed /\ EndInv
    BY <2>2, <2>3 DEF FrontierIsClosed, EndInv
  <2>8. \A c \in Checkpoint : ~(After[c] < accepted)
    BY <2>1, SpineAssumption
  <2>9. LoopInv
    BY <2>1, <2>2, <2>8 DEF LoopInv
  <2> QED
    BY <2>6, <2>7, <2>9 DEF FrontierInv
<1> QED
  BY <1>1, FrontierKept, PTL DEF Spec

\* Wherever a run of whatever plan stops, what it keeps refers to nothing that it
\* does not keep.
THEOREM FrontierStaysClosed == Spec => []FrontierIsClosed
<1>1. FrontierInv => FrontierIsClosed
  BY DEF FrontierInv
<1> QED
  BY <1>1, FrontierHolds, PTL

\* A run that stops short keeps every checkpoint it had finished, and a run that
\* succeeds has sealed and assessed all of them.
THEOREM NothingIsLost == Spec => []NothingFinishedIsLost
<1>1. FrontierInv => NothingFinishedIsLost
  <2> SUFFICES ASSUME FrontierInv PROVE NothingFinishedIsLost
    OBVIOUS
  <2>1. \A c \in Checkpoint : After[c] < accepted => Finished(c)
    BY DEF FrontierInv, LoopInv
  <2>2. ASSUME status = "succeeded"
        PROVE  accepted = Transformations /\ sealed = Checkpoint
               /\ assessed = Checkpoint \X Profile
    BY <2>2 DEF FrontierInv, FrontierType, EndInv, Finished
  <2> QED
    BY <2>1, <2>2 DEF NothingFinishedIsLost, Finished
<1> QED
  BY <1>1, FrontierHolds, PTL

-----------------------------------------------------------------------------
(* The observer.                                                           *)

Phase == {"compile", "transition", "seal", "assess"}

OpenInv ==
  /\ pc = "returned" => open = << >>
  /\ pc \in Phase => open = Append(<<"spine">>, pc)
  /\ pc \notin Phase \cup {"returned"} => open = <<"spine">>

EstablishedInv ==
  /\ pc \in {"start", "compile"} => established = "nothing"
  /\ pc \in {"bind_check", "bind"} => established = "plan"

Agrees ==
  /\ verdict = "success" <=> status = "succeeded"
  /\ verdict \in FailureKind \cup {"invalid_plan"} <=> failure # ""
  /\ verdict \in Cause \cup {"cancelled"} <=> error # ""
  /\ ~(failure # "" /\ error # "")
  /\ verdict = "invalid_input" => established # "execution"

ObserverInv == OpenInv /\ EstablishedInv /\ (pc = "returned" => Agrees)

\* Ending the phase that began last leaves the others open.
LEMMA EndsInnermost ==
  ASSUME NEW S, NEW s \in Seq(S), NEW x \in S
  PROVE  Ended(Append(s, x), x) = s
<1> DEFINE t == Append(s, x)
<1>1. t \in Seq(S) /\ t # << >> /\ Len(t) = Len(s) + 1 /\ t[Len(s) + 1] = x
  BY AppendProperties
<1>2. \A i \in 1 .. Len(s) : t[i] = s[i]
  BY AppendProperties
<1>3. Len(s) \in Nat /\ \A i \in 1 .. Len(s) : s[i] \in S
  OBVIOUS
<1> HIDE DEF t
<1> DEFINE r == SubSeq(t, 1, Len(s))
<1>4. r \in Seq(S) /\ Len(r) = Len(s) /\ \A i \in 1 .. Len(s) : r[i] = s[i]
  BY <1>1, <1>2, <1>3
<1> HIDE DEF r
<1>5. r = s
  BY <1>4, SeqEqual
<1>6. Ended(t, x) = s
  BY <1>1, <1>3, <1>5 DEF Ended, r
<1> QED
  BY <1>6 DEF t

\* Phases close in the order opposite to that of their opening.
LEMMA Nesting ==
  /\ Ended(<<"spine">>, "spine") = << >>
  /\ \A p \in Phase : Ended(Append(<<"spine">>, p), p) = <<"spine">>
  /\ \A p \in Phase : \A i \in 1 .. Len(Append(<<"spine">>, p)) :
       Append(<<"spine">>, p)[i] # "misnested"
<1>1. Ended(<<"spine">>, "spine") = << >>
  BY DEF Ended
<1>2. ASSUME NEW p \in Phase
      PROVE  Ended(Append(<<"spine">>, p), p) = <<"spine">>
  <2>1. <<"spine">> \in Seq(Phase \cup {"spine"}) /\ p \in Phase \cup {"spine"}
    OBVIOUS
  <2> QED
    BY <2>1, EndsInnermost
<1>3. ASSUME NEW p \in Phase, NEW i \in 1 .. Len(Append(<<"spine">>, p))
      PROVE  Append(<<"spine">>, p)[i] # "misnested"
  BY DEF Phase
<1> QED
  BY <1>1, <1>2, <1>3

\* What is open closes on the way out.
LEMMA EndsClose ==
  ASSUME OpenInv, pc # "returned", NEW p, NEW r, EndBoth(p, r),
         \/ p = "none" /\ pc \notin Phase
         \/ p = pc /\ pc \in Phase
  PROVE  open' = << >> /\ verdict' = r
<1>1. CASE p = "none" /\ pc \notin Phase
  BY <1>1, Nesting DEF EndBoth, OpenInv
<1>2. CASE p = pc /\ pc \in Phase
  <2>1. p # "none"
    BY <1>2 DEF Phase
  <2>2. Ended(open, p) = <<"spine">>
    BY <1>2, Nesting DEF OpenInv
  <2> QED
    BY <2>1, <2>2, Nesting DEF EndBoth
<1> QED
  BY <1>1, <1>2

\* A failure of the machinery closes the phases that are open and reports the caller's outcome.
LEMMA MachineryAgrees ==
  ASSUME ObserverInv, pc # "returned", NEW p, NEW c \in Cause \cup {"cancelled"}, NEW i,
         Machinery(p, c, i), established' = established,
         i = "later" \/ established # "execution",
         \/ p = "none" /\ pc \notin Phase
         \/ p = pc /\ pc \in Phase
  PROVE  ObserverInv'
<1>1. open' = << >> /\ verdict' = ClassifyMachinery(c, i)
  BY EndsClose DEF Machinery, ObserverInv
<1>2. /\ pc' = "returned" /\ status' \in {"zero", "failed"} /\ failure' = "" /\ error' = c
  BY DEF Machinery, FrontierStatus
<1>3. /\ verdict' \in Cause \cup {"cancelled"}
      /\ verdict' = "invalid_input" => established' # "execution"
  BY <1>1 DEF ClassifyMachinery, Cause
<1>4. Agrees'
  BY <1>2, <1>3 DEF Agrees, Cause, FailureKind
<1> QED
  BY <1>1, <1>2, <1>4 DEF ObserverInv, OpenInv, EstablishedInv, Phase

\* So does a rejection.
LEMMA RejectionAgrees ==
  ASSUME ObserverInv, NEW k \in FailureKind, pc \in Phase,
         SemanticRejection(pc, k), established' = established
  PROVE  ObserverInv'
<1>0. pc # "returned"
  BY DEF Phase
<1>1. open' = << >> /\ verdict' = k
  BY <1>0, EndsClose DEF SemanticRejection, ObserverInv
<1>2. /\ pc' = "returned" /\ status' \in {"zero", "failed"} /\ failure' = k /\ error' = ""
  BY DEF SemanticRejection, FrontierStatus
<1>3. Agrees'
  BY <1>1, <1>2 DEF Agrees, Cause, FailureKind
<1> QED
  BY <1>1, <1>2, <1>3 DEF ObserverInv, OpenInv, EstablishedInv, Phase

\* A step that opens a phase.
LEMMA BeginKeeps ==
  ASSUME ObserverInv, NEW f, NEW t \in Phase, Proceed(f, t), Begin(t),
         f \notin Phase, f # "returned", t = "compile" => f = "start"
  PROVE  ObserverInv'
<1>1. pc = f /\ pc' = t /\ established' = established
  BY DEF Proceed, frontier
<1>2. open' = Append(<<"spine">>, t)
  BY <1>1 DEF Begin, ObserverInv, OpenInv
<1>3. t # "returned" /\ t \notin {"start", "bind_check", "bind"}
  BY DEF Phase
<1>4. OpenInv'
  BY <1>1, <1>2, <1>3 DEF OpenInv
<1>5. EstablishedInv'
  BY <1>1, <1>3 DEF EstablishedInv, ObserverInv
<1> QED
  BY <1>1, <1>3, <1>4, <1>5 DEF ObserverInv

\* A step that leaves what is open as it should be and does not return.
LEMMA MoveKeeps ==
  ASSUME pc' \in {"bind_check", "bind", "transition_check", "boundary", "seal_check",
                  "assess_check"},
         open' = <<"spine">>,
         pc' \in {"bind_check", "bind"} => established' = "plan"
  PROVE  ObserverInv'
BY DEF ObserverInv, OpenInv, EstablishedInv, Phase

\* Every step keeps phases and place together.
LEMMA ObserverKept == ObserverInv /\ [Next]_vars => ObserverInv'
<1> SUFFICES ASSUME ObserverInv, [Next]_vars PROVE ObserverInv'
  OBVIOUS
<1>1. CASE ContextDone
  BY <1>1 DEF ContextDone, place, frontier, outcome, ObserverInv, OpenInv, EstablishedInv, Agrees
<1>2. ASSUME NEW f \in {"start", "bind_check"}, Cancelled(f, "initial") PROVE ObserverInv'
  <2>1. /\ pc \notin Phase /\ pc # "returned" /\ established' = established
        /\ established # "execution" /\ Machinery("none", "cancelled", "initial")
    BY <1>2 DEF Cancelled, frontier, ObserverInv, EstablishedInv, Phase
  <2> QED
    BY <2>1, MachineryAgrees
<1>3. ASSUME NEW f \in {"transition_check", "seal_check", "assess_check"},
             Cancelled(f, "later")
      PROVE  ObserverInv'
  <2>1. /\ pc \notin Phase /\ pc # "returned" /\ established' = established
        /\ Machinery("none", "cancelled", "later")
    BY <1>3 DEF Cancelled, frontier, Phase
  <2> QED
    BY <2>1, MachineryAgrees
<1>4. CASE CheckContext
  BY <1>2, <1>3, <1>4 DEF CheckContext
<1>5. CASE IncompleteRequest
  <2>1. pc \notin Phase /\ pc # "returned" /\ pc = "start" /\ established' = established
    BY <1>5 DEF IncompleteRequest, frontier, Phase
  <2>2. open' = << >> /\ verdict' = "invalid_input"
    BY <1>5, <2>1, EndsClose DEF IncompleteRequest, ObserverInv
  <2>3. /\ pc' = "returned" /\ status' = "zero" /\ failure' = "" /\ error' = "invalid_input"
        /\ established' = "nothing"
    BY <1>5, <2>1 DEF IncompleteRequest, ObserverInv, EstablishedInv
  <2> QED
    BY <2>2, <2>3 DEF ObserverInv, OpenInv, EstablishedInv, Agrees, Phase, Cause, FailureKind
<1>6. CASE StartCompile
  BY <1>6, BeginKeeps DEF StartCompile, Phase
<1>7. CASE StartTransition
  BY <1>7, BeginKeeps DEF StartTransition, Phase
<1>8. CASE StartSeal
  BY <1>8, BeginKeeps DEF StartSeal, Phase
<1>9. CASE StartAssess
  BY <1>9, BeginKeeps DEF StartAssess, Phase
<1>10. CASE StartBind
  <2>1. pc = "bind_check" /\ pc' = "bind" /\ UNCHANGED <<open, established>>
    BY <1>10 DEF StartBind, Proceed, frontier
  <2>2. open' = <<"spine">> /\ established' = "plan"
    BY <2>1 DEF ObserverInv, OpenInv, EstablishedInv, Phase
  <2> QED
    BY <2>1, <2>2, MoveKeeps
<1>11. CASE Compile
  <2>1. pc = "compile" /\ pc \in Phase /\ pc # "returned" /\ established = "nothing"
    BY <1>11 DEF Compile, Answer, ObserverInv, EstablishedInv, Phase
  <2>2. ASSUME NEW c \in Cause, Machinery("compile", c, "initial"), UNCHANGED established
        PROVE  ObserverInv'
    BY <2>1, <2>2, MachineryAgrees
  <2>3. ASSUME EndBoth("compile", "invalid_plan"), status' = "invalid_plan",
               failure' = "compilation", error' = "", pc' = "returned"
        PROVE  ObserverInv'
    <3>1. open' = << >> /\ verdict' = "invalid_plan"
      BY <2>1, <2>3, EndsClose DEF ObserverInv
    <3> QED
      BY <2>3, <3>1
         DEF ObserverInv, OpenInv, EstablishedInv, Agrees, Phase, Cause, FailureKind
  <2>4. ASSUME End("compile"), pc' = "bind_check", established' = "plan"
        PROVE  ObserverInv'
    <3>1. open' = <<"spine">>
      BY <2>1, <2>4, Nesting DEF End, ObserverInv, OpenInv
    <3> QED
      BY <2>4, <3>1, MoveKeeps
  <2> QED
    BY <1>11, <2>2, <2>3, <2>4 DEF Compile
<1>12. CASE Bind
  <2>1. /\ pc = "bind" /\ pc \notin Phase /\ pc # "returned" /\ established = "plan"
        /\ open = <<"spine">>
    BY <1>12 DEF Bind, Answer, ObserverInv, OpenInv, EstablishedInv, Phase
  <2>2. ASSUME NEW c \in Cause, Machinery("none", c, "initial"), UNCHANGED established
        PROVE  ObserverInv'
    BY <2>1, <2>2, MachineryAgrees
  <2>3. ASSUME pc' = "transition_check", UNCHANGED open PROVE ObserverInv'
    BY <2>1, <2>3, MoveKeeps
  <2> QED
    BY <1>12, <2>2, <2>3 DEF Bind
<1>13. ASSUME NEW p \in Phase, pc = p, UNCHANGED established,
              \/ \E c \in Cause : Machinery(p, c, "later")
              \/ \E k \in FailureKind : SemanticRejection(p, k)
              \/ End(p) /\ pc' \in {"boundary", "assess_check"}
       PROVE  ObserverInv'
  <2>1. pc # "returned"
    BY <1>13 DEF Phase
  <2>2. ASSUME NEW c \in Cause, Machinery(p, c, "later") PROVE ObserverInv'
    BY <1>13, <2>1, <2>2, MachineryAgrees
  <2>3. ASSUME NEW k \in FailureKind, SemanticRejection(p, k) PROVE ObserverInv'
    BY <1>13, <2>3, RejectionAgrees
  <2>4. ASSUME End(p), pc' \in {"boundary", "assess_check"} PROVE ObserverInv'
    <3>1. open' = <<"spine">>
      BY <1>13, <2>4, Nesting DEF End, ObserverInv, OpenInv
    <3> QED
      BY <2>4, <3>1, MoveKeeps
  <2> QED
    BY <1>13, <2>2, <2>3, <2>4
<1>14. CASE Transition
  BY <1>14, <1>13 DEF Transition, Answer, Phase
<1>15. CASE Seal
  BY <1>15, <1>13 DEF Seal, Answer, Phase, FailureKind
<1>16. CASE Assess
  BY <1>16, <1>13 DEF Assess, Answer, Phase, FailureKind
<1>17. CASE NextCheckpoint
  <2>1. /\ pc = "boundary" /\ open' = open
        /\ pc' \in {"boundary", "seal_check", "transition_check"}
    BY <1>17 DEF NextCheckpoint
  <2>2. open = <<"spine">>
    BY <2>1 DEF ObserverInv, OpenInv, Phase
  <2> QED
    BY <2>1, <2>2, MoveKeeps
<1>18. CASE Succeed
  <2>1. pc = "transition_check" /\ pc \notin Phase /\ pc # "returned"
    BY <1>18 DEF Succeed, Phase
  <2>2. open' = << >> /\ verdict' = "success"
    BY <1>18, <2>1, EndsClose DEF Succeed, ObserverInv
  <2>3. pc' = "returned" /\ status' = "succeeded" /\ failure' = "" /\ error' = ""
    BY <1>18 DEF Succeed
  <2> QED
    BY <2>2, <2>3 DEF ObserverInv, OpenInv, EstablishedInv, Agrees, Phase, Cause, FailureKind
<1>19. CASE CheckpointDone
  <2>1. pc = "assess_check" /\ open' = open /\ pc' = "boundary"
    BY <1>19 DEF CheckpointDone
  <2>2. open = <<"spine">>
    BY <2>1 DEF ObserverInv, OpenInv, Phase
  <2> QED
    BY <2>1, <2>2, MoveKeeps
<1>20. CASE UNCHANGED vars
  BY <1>20 DEF vars, place, frontier, outcome, ObserverInv, OpenInv, EstablishedInv, Agrees
<1> QED
  BY <1>1, <1>4, <1>5, <1>6, <1>7, <1>8, <1>9, <1>10, <1>11, <1>12, <1>14, <1>15, <1>16,
     <1>17, <1>18, <1>19, <1>20 DEF Next

LEMMA ObserverHolds == Spec => []ObserverInv
<1>1. Init => ObserverInv
  <2> SUFFICES ASSUME Init PROVE ObserverInv
    OBVIOUS
  <2>1. pc = "start" /\ established = "nothing"
    BY DEF Init
  <2>2. open = <<"spine">>
    BY DEF Init
  <2> QED
    BY <2>1, <2>2 DEF ObserverInv, OpenInv, EstablishedInv, Phase
<1> QED
  BY <1>1, ObserverKept, PTL DEF Spec

\* Phases nest and end on every path through the run, and the observer's verdict
\* on it is the outcome the caller is given.
THEOREM ObserverSeesTheOutcome == Spec => []ObserverSawTheOutcome
<1>2. ObserverInv => ObserverSawTheOutcome
  <2> SUFFICES ASSUME ObserverInv PROVE ObserverSawTheOutcome
    OBVIOUS
  <2>1. pc = "returned" => Agrees /\ open = << >>
    BY DEF ObserverInv, OpenInv
  <2>2. \A i \in 1 .. Len(open) : open[i] # "misnested"
    <3>1. CASE pc = "returned"
      BY <3>1 DEF ObserverInv, OpenInv
    <3>2. CASE pc \in Phase
      BY <3>2, Nesting DEF ObserverInv, OpenInv
    <3>3. CASE pc \notin Phase \cup {"returned"}
      <4>1. open = <<"spine">>
        BY <3>3 DEF ObserverInv, OpenInv
      <4>2. \A i \in 1 .. Len(<<"spine">>) : <<"spine">>[i] # "misnested"
        OBVIOUS
      <4> QED
        BY <4>1, <4>2
    <3> QED
      BY <3>1, <3>2, <3>3
  <2> QED
    BY <2>1, <2>2 DEF ObserverSawTheOutcome, Agrees
<1> QED
  BY <1>2, ObserverHolds, PTL

-----------------------------------------------------------------------------
(* Types.                                                                  *)

\* What the run has established and what it returned.
OutcomeType ==
  /\ established \in {"nothing", "plan", "execution"}
  /\ status \in {"", "zero", "succeeded", "failed", "invalid_plan"}
  /\ failure \in {"", "compilation"} \cup FailureKind
  /\ error \in {"", "cancelled"} \cup Cause
  /\ verdict \in {"", "success", "invalid_plan", "cancelled"} \cup Cause \cup FailureKind

\* Every step keeps the outcome within its type.
LEMMA OutcomeKept == OutcomeType /\ [Next]_vars => OutcomeType'
<1> SUFFICES ASSUME OutcomeType, [Next]_vars PROVE OutcomeType'
  OBVIOUS
<1> USE DEF OutcomeType
<1>1. ASSUME UNCHANGED <<established, outcome>> PROVE OutcomeType'
  BY <1>1 DEF outcome
<1>2. ASSUME NEW p, NEW c \in Cause \cup {"cancelled"}, NEW i, Machinery(p, c, i), UNCHANGED established
      PROVE  OutcomeType'
  <2>1. ClassifyMachinery(c, i) \in Cause \cup {"cancelled"}
    BY DEF ClassifyMachinery, Cause
  <2> QED
    BY <1>2, <2>1 DEF Machinery, EndBoth, FrontierStatus
<1>3. ASSUME NEW p, NEW k \in FailureKind, SemanticRejection(p, k), UNCHANGED established
      PROVE  OutcomeType'
  BY <1>3 DEF SemanticRejection, EndBoth, FrontierStatus
<1>4. ASSUME NEW f, NEW i, Cancelled(f, i) PROVE OutcomeType'
  BY <1>4, <1>2 DEF Cancelled, frontier
<1>5. ASSUME NEW f, NEW t, Proceed(f, t) PROVE OutcomeType'
  BY <1>5, <1>1 DEF Proceed, frontier
<1>6. CASE IncompleteRequest
  BY <1>6 DEF IncompleteRequest, EndBoth, frontier, Cause
<1>7. CASE Compile
  <2>1. ASSUME NEW c \in Cause, Machinery("compile", c, "initial"), UNCHANGED established PROVE OutcomeType'
    BY <2>1, <1>2
  <2>2. ASSUME established' = "plan", UNCHANGED outcome PROVE OutcomeType'
    BY <2>2 DEF outcome
  <2>3. ASSUME EndBoth("compile", "invalid_plan"), status' = "invalid_plan", failure' = "compilation",
               error' = "", UNCHANGED established
        PROVE  OutcomeType'
    BY <2>3 DEF EndBoth
  <2> QED
    BY <1>7, <2>1, <2>2, <2>3 DEF Compile
<1>8. CASE Bind
  <2>1. ASSUME NEW c \in Cause, Machinery("none", c, "initial"), UNCHANGED established PROVE OutcomeType'
    BY <2>1, <1>2
  <2>2. ASSUME established' = "execution", UNCHANGED outcome PROVE OutcomeType'
    BY <2>2 DEF outcome
  <2> QED
    BY <1>8, <2>1, <2>2 DEF Bind
<1>9. ASSUME NEW p, UNCHANGED established,
             \/ UNCHANGED outcome
             \/ \E c \in Cause : Machinery(p, c, "later")
             \/ \E k \in FailureKind : SemanticRejection(p, k)
      PROVE  OutcomeType'
  BY <1>9, <1>1, <1>2, <1>3
<1>10. CASE Transition
  BY <1>10, <1>9 DEF Transition
<1>11. CASE Seal
  BY <1>11, <1>9 DEF Seal, FailureKind
<1>12. CASE Assess
  BY <1>12, <1>9 DEF Assess, FailureKind, outcome
<1>13. CASE Succeed
  BY <1>13 DEF Succeed, EndBoth, frontier
<1>14. CASE NextCheckpoint \/ CheckpointDone \/ ContextDone \/ UNCHANGED vars
  BY <1>14, <1>1 DEF NextCheckpoint, CheckpointDone, ContextDone, vars, frontier
<1>15. CASE CheckContext
  BY <1>15, <1>4 DEF CheckContext
<1>16. CASE StartCompile \/ StartBind \/ StartTransition \/ StartSeal \/ StartAssess
  BY <1>16, <1>5 DEF StartCompile, StartBind, StartTransition, StartSeal, StartAssess
<1> QED
  BY <1>6, <1>7, <1>8, <1>10, <1>11, <1>12, <1>13, <1>14, <1>15, <1>16 DEF Next

\* Every variable of a run keeps its type, whatever the plan and whatever the
\* kernel answers.
THEOREM SpineTypeCorrect == Spec => []TypeOK
<1>1. Init => OutcomeType
  <2> SUFFICES ASSUME Init PROVE OutcomeType
    OBVIOUS
  <2>1. established = "nothing" /\ status = "" /\ failure = "" /\ error = "" /\ verdict = ""
    BY DEF Init
  <2> QED
    BY <2>1 DEF OutcomeType
<1>2. FrontierInv /\ LateInv /\ ObserverInv /\ OutcomeType => TypeOK
  <2> SUFFICES ASSUME FrontierInv, LateInv, ObserverInv, OutcomeType PROVE TypeOK
    OBVIOUS
  <2> DEFINE Phases == {"spine", "compile", "transition", "seal", "assess", "misnested"}
  <2>1. open \in Seq(Phases)
    <3>1. CASE pc = "returned"
      BY <3>1 DEF ObserverInv, OpenInv
    <3>2. CASE pc \in Phase
      <4>1. open = Append(<<"spine">>, pc)
        BY <3>2 DEF ObserverInv, OpenInv
      <4>2. pc \in Phases
        BY <3>2 DEF Phase
      <4>3. "spine" \in Phases
        OBVIOUS
      <4> HIDE DEF Phases
      <4>4. <<"spine">> \in Seq(Phases)
        BY <4>3
      <4> QED
        BY <4>1, <4>2, <4>4, AppendProperties
    <3>3. CASE pc \notin Phase \cup {"returned"}
      <4>1. open = <<"spine">>
        BY <3>3 DEF ObserverInv, OpenInv
      <4>2. "spine" \in Phases
        OBVIOUS
      <4> HIDE DEF Phases
      <4> QED
        BY <4>1, <4>2
    <3> QED
      BY <3>1, <3>2, <3>3
  <2>2. pc \in Places /\ accepted \in 0 .. Transformations /\ at \in Nat /\ under \in Nat
        /\ sealed \subseteq Checkpoint /\ disowned \subseteq Checkpoint
        /\ assessed \subseteq Checkpoint \X Profile
    BY DEF FrontierInv, FrontierType
  <2>3. context \in {"live", "done"} /\ late \in Nat
    BY DEF LateInv
  <2> QED
    BY <2>1, <2>2, <2>3 DEF TypeOK, OutcomeType, Places, Operations
<1>3. Init => LateInv
  <2>1. Init => pc = "start" /\ context = "live" /\ late = 0
    BY DEF Init
  <2> QED
    BY <2>1 DEF LateInv, Operations
<1> QED
  BY <1>1, <1>2, <1>3, LateKept, FrontierHolds, ObserverHolds, OutcomeKept, PTL DEF Spec
=============================================================================
