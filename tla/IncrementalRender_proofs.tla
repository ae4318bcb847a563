---------------------- MODULE IncrementalRender_proofs ----------------------
(***************************************************************************)
(* Theorems of IncrementalRender, for every set of workers, shots, slots,  *)
(* requests and every combination of faults.                               *)
(***************************************************************************)
EXTENDS IncrementalRender, Naturals, TLAPS

\* The fields of a request, as the planner and the pipeline read them.
LEMMA RequestFields ==
  ASSUME NEW r \in Requests
  PROVE  /\ r.config \in Config /\ r.prompt \in Prompts
         /\ r.slotsOf \in [Shots -> SUBSET Slots]
         /\ r.pretrained \in SUBSET Slots /\ r.cast \in SUBSET Slots
         /\ r.use \in SUBSET Slots /\ r.shots \in SUBSET Shots
         /\ r.scope \in SUBSET Shots
BY RequestsAssumption DEF Request

\* A plan made from a request and a set of trained slots is a plan.
LEMMA PlanTyped ==
  ASSUME NEW r \in Requests, NEW trained, NEW existing, NEW hash
  PROVE  MakePlan(r, trained, existing, hash) \in Plan
<1>1. SlotsToTrain(r, trained) \in SUBSET Slots
  BY RequestFields DEF SlotsToTrain
<1>2. \A s \in Shots : KeyframeMode(r, s, existing, hash) \in Modes
  BY DEF KeyframeMode, Modes
<1> QED BY <1>1, <1>2 DEF MakePlan, Plan

-----------------------------------------------------------------------------
(* Type correctness *)

\* A worker that holds a job has its request and a built model server: without
\* this TypeOK is not inductive, for a keyframe is drawn by that server.
Bound ==
    \A w \in Workers : pc[w] \in Busy => req[w] \in Requests
                                         /\ server[w] \in Models

TypeInv == TypeOK /\ Bound

LEMMA BlanksTyped ==
    /\ NoTree \in Tree /\ NoPlan \in Plan /\ NoOutput \in Output
    /\ NoResult \in Result
    /\ NoKnown \in [trained: SUBSET Slots, kf: SUBSET Shots]
BY DEF NoTree, NoPlan, NoOutput, NoResult, NoKnown, Tree, Plan, Output, Result

LEMMA DropTyped ==
  ASSUME TypeOK, NEW w \in Workers, DropJob(w)
  PROVE  /\ req' \in [Workers -> Requests \cup {None}]
         /\ tree' \in [Workers -> Tree]
         /\ known' \in [Workers -> [trained: SUBSET Slots, kf: SUBSET Shots]]
         /\ plan' \in [Workers -> Plan]
         /\ made' \in [Workers -> Output]
         /\ \A v \in Workers \ {w} : req'[v] = req[v]
BY BlanksTyped DEF TypeOK, DropJob

LEMMA AbortTyped ==
  ASSUME TypeInv, NEW w \in Workers, Abort(w)
  PROVE  TypeInv'
<1>1. TypeOK'
  BY DropTyped, BlanksTyped DEF TypeInv, TypeOK, Abort, r2, Resting
<1>2. Bound'
  BY DropTyped DEF TypeInv, TypeOK, Bound, Abort, Busy
<1> QED BY <1>1, <1>2 DEF TypeInv

LEMMA RestoredTyped ==
  ASSUME TypeInv, NEW w \in Workers, NEW t \in Tree,
         NEW k \in [trained: SUBSET Slots, kf: SUBSET Shots], Restored(w, t, k)
  PROVE  TypeInv'
<1>1. TypeOK'
  BY DEF TypeInv, TypeOK, Restored, Goto, r2, Busy
<1>2. Bound'
  BY DEF TypeInv, TypeOK, Bound, Restored, Goto, Busy
<1> QED BY <1>1, <1>2 DEF TypeInv

\* What is drawn is an image, and a shot is animated from an image or nothing.
LEMMA DrawTyped ==
  ASSUME TypeInv, NEW w \in Workers, pc[w] \in Busy, NEW s \in Shots
  PROVE  Draw(w, s) \in Image /\ ResolveKeyframe(w, s) \in Source \cup {None}
<1>1. req[w] \in Requests /\ server[w] \in Models
  BY DEF TypeInv, Bound
<1>2. Draw(w, s) \in Image
  BY <1>1, RequestFields DEF Draw, Image, Config
<1>3. tree[w].kf[s] \in Image \cup {None}
  BY DEF TypeInv, TypeOK, Tree
<1>4. ResolveKeyframe(w, s) \in Source \cup {None}
  BY <1>2, <1>3 DEF ResolveKeyframe, Source
<1> QED BY <1>2, <1>4

LEMMA StepTyped ==
  ASSUME TypeInv, NEW w \in Workers, Step(w)
  PROVE  TypeInv'
<1> USE DEF TypeInv
<1>1. CASE RestoreState(w)
  <2>1. state \in Tree
    BY <1>1 DEF RestoreState, TypeOK
  <2>2. [trained |-> state.trained, kf |-> Present(state.kf)]
          \in [trained: SUBSET Slots, kf: SUBSET Shots]
    BY <2>1 DEF Tree, Present
  <2> QED BY <1>1, <2>1, <2>2, RestoredTyped DEF RestoreState
<1>2. CASE RestoreNothing(w)
  BY <1>2, RestoredTyped, BlanksTyped DEF RestoreNothing
<1>3. CASE RestorePart(w)
  <2>1. state \in Tree
    BY <1>3 DEF RestorePart, TypeOK
  <2>2. PICK K \in SUBSET Present(state.kf), M \in SUBSET state.trained,
             H \in SUBSET Shots :
          Restored(w,
            [kf      |-> [s \in Shots |-> IF s \in K THEN state.kf[s] ELSE None],
             hash    |-> [s \in Shots |-> IF s \in H THEN state.hash[s] ELSE None],
             trained |-> M], NoKnown)
    BY <1>3 DEF RestorePart
  <2>3. [kf      |-> [s \in Shots |-> IF s \in K THEN state.kf[s] ELSE None],
         hash    |-> [s \in Shots |-> IF s \in H THEN state.hash[s] ELSE None],
         trained |-> M] \in Tree
    BY <2>1 DEF Tree
  <2> QED BY <2>2, <2>3, RestoredTyped, BlanksTyped
<1>4. CASE RestoreScanFails(w)
  <2>1. state \in Tree
    BY <1>4 DEF RestoreScanFails, TypeOK
  <2>2. PICK K \in SUBSET Present(state.kf) :
          Restored(w, state, [trained |-> state.trained, kf |-> K])
    BY <1>4 DEF RestoreScanFails
  <2>3. [trained |-> state.trained, kf |-> K]
          \in [trained: SUBSET Slots, kf: SUBSET Shots]
    BY <2>1 DEF Tree, Present
  <2> QED BY <2>1, <2>2, <2>3, RestoredTyped
<1>5. CASE LoadBundle(w)
  <2>1. req[w] \in Requests
    BY <1>5 DEF LoadBundle, Goto, Bound, Busy
  <2>2. MakePlan(req[w], known[w].trained, known[w].kf, tree[w].hash) \in Plan
    BY <2>1, PlanTyped
  <2>3. TypeOK'
    BY <1>5, <2>2, BlanksTyped DEF LoadBundle, Goto, TypeOK, r2, Busy
  <2>4. Bound'
    BY <1>5 DEF LoadBundle, Goto, TypeOK, Bound, Busy
  <2> QED BY <2>3, <2>4
<1>6. CASE RejectJob(w)
  BY <1>6, AbortTyped DEF RejectJob
<1>7. CASE StageLoras(w)
  BY <1>7 DEF StageLoras, Goto, TypeOK, Bound, r2, Busy
<1>8. CASE StagingFails(w)
  BY <1>8, AbortTyped DEF StagingFails
<1>9. CASE Train(w)
  <2>1. made[w] \in Output /\ plan[w] \in Plan
    BY DEF TypeOK
  <2>2. [made[w] EXCEPT !.lora = plan[w].train \cap req[w].cast] \in Output
    BY <2>1 DEF Output, Plan
  <2>3. made' = [made EXCEPT ![w] = [made[w] EXCEPT
                    !.lora = plan[w].train \cap req[w].cast]]
    BY <1>9 DEF Train, TypeOK
  <2>4. TypeOK'
    BY <1>9, <2>2, <2>3 DEF Train, Goto, TypeOK, r2, Busy
  <2>5. Bound'
    BY <1>9 DEF Train, Goto, TypeOK, Bound, Busy
  <2> QED BY <2>4, <2>5
<1>10. CASE RenderScenes(w)
  <2>1. pc[w] \in Busy /\ req[w] \in Requests
    BY <1>10 DEF RenderScenes, Goto, Bound, Busy
  <2>2. PICK unhashed \in SUBSET Drawn(w) :
          made' = [made EXCEPT
            ![w].kf   = [s \in Shots |-> IF s \in Drawn(w) THEN Draw(w, s)
                                         ELSE None],
            ![w].hash = [s \in Shots |-> IF s \in Drawn(w) \ unhashed
                                         THEN KfHash(req[w].config) ELSE None],
            ![w].clip = [s \in Shots |-> IF WantI2V(req[w])
                                         THEN ResolveKeyframe(w, s) ELSE None]]
    BY <1>10 DEF RenderScenes
  <2> DEFINE kf   == [s \in Shots |-> IF s \in Drawn(w) THEN Draw(w, s) ELSE None]
             hash == [s \in Shots |-> IF s \in Drawn(w) \ unhashed
                                      THEN KfHash(req[w].config) ELSE None]
             clip == [s \in Shots |-> IF WantI2V(req[w])
                                      THEN ResolveKeyframe(w, s) ELSE None]
  <2>3. kf \in [Shots -> Image \cup {None}]
    BY <2>1, DrawTyped
  <2>4. hash \in [Shots -> Hash \cup {None}]
    BY <2>1, RequestFields DEF KfHash, Hash, Config
  <2>5. clip \in [Shots -> Source \cup {None}]
    BY <2>1, DrawTyped
  <2>6. made' \in [Workers -> Output]
    <3>1. made' = [made EXCEPT ![w].kf = kf, ![w].hash = hash, ![w].clip = clip]
      BY <2>2
    <3> HIDE DEF kf, hash, clip
    <3>2. \A out \in Output :
            [out EXCEPT !.kf = kf, !.hash = hash, !.clip = clip] \in Output
      BY <2>3, <2>4, <2>5 DEF Output
    <3>3. made' = [made EXCEPT ![w] =
                    [made[w] EXCEPT !.kf = kf, !.hash = hash, !.clip = clip]]
      BY <3>1 DEF TypeOK, Output
    <3> QED BY <3>2, <3>3 DEF TypeOK
  <2>7. TypeOK'
    BY <1>10, <2>6 DEF RenderScenes, Goto, TypeOK, r2, Busy
  <2>8. Bound'
    BY <1>10 DEF RenderScenes, Goto, TypeOK, Bound, Busy
  <2> QED BY <2>7, <2>8
<1>11. ASSUME NEW slot \in Slots, PutLora(w, slot) PROVE TypeInv'
  <2>1. tree' \in [Workers -> Tree]
    BY <1>11 DEF PutLora, TypeOK, Tree
  <2>2. result' \in [Workers -> Result]
    BY <1>11 DEF PutLora, TypeOK, Result
  <2>3. TypeOK'
    BY <1>11, <2>1, <2>2 DEF PutLora, TypeOK
  <2>4. Bound'
    BY <1>11 DEF PutLora, Bound
  <2> QED BY <2>3, <2>4
<1>12. CASE PassPretrained(w)
  <2>1. req[w] \in Requests
    BY <1>12 DEF PassPretrained, Goto, Bound, Busy
  <2>2. result' \in [Workers -> Result]
    <3>1. req[w].pretrained \ req[w].local \in SUBSET Slots
      BY <2>1, RequestFields
    <3> QED BY <1>12, <3>1 DEF PassPretrained, TypeOK, Result
  <2>3. TypeOK'
    BY <1>12, <2>2 DEF PassPretrained, Goto, TypeOK, r2, Busy
  <2>4. Bound'
    BY <1>12 DEF PassPretrained, Goto, TypeOK, Bound, Busy
  <2> QED BY <2>3, <2>4
<1>13. ASSUME NEW s \in Shots, PutKeyframe(w, s) PROVE TypeInv'
  <2>1. made[w] \in Output /\ tree[w] \in Tree
    BY DEF TypeOK
  <2>2. made[w].kf[s] \in Image
    BY <1>13, <2>1 DEF PutKeyframe, Present, Output
  <2>3. TreeWithKeyframe(w, s) \in Tree
    BY <2>1, <2>2 DEF TreeWithKeyframe, Tree, Output
  <2>4. kfObj' \in [Shots -> Image \cup {None}]
    BY <1>13, <2>2 DEF PutKeyframe, TypeOK
  <2>5. result' \in [Workers -> Result]
    BY <1>13 DEF PutKeyframe, TypeOK, Result
  <2>6. TypeOK'
    BY <1>13, <2>3, <2>4, <2>5 DEF PutKeyframe, TypeOK
  <2>7. Bound'
    BY <1>13 DEF PutKeyframe, Bound
  <2> QED BY <2>6, <2>7
<1>14. CASE KeyframesUp(w)
  BY <1>14 DEF KeyframesUp, Goto, TypeOK, Bound, r2, Busy
<1>15. ASSUME NEW s \in Shots, PutClip(w, s) PROVE TypeInv'
  <2>1. made[w].clip[s] \in Source \cup {None}
    BY DEF TypeOK, Output
  <2>2. clipObj' \in [Shots -> Source \cup {None}]
    BY <1>15, <2>1 DEF PutClip, TypeOK
  <2>3. result' \in [Workers -> Result]
    BY <1>15 DEF PutClip, TypeOK, Result
  <2>4. TypeOK'
    BY <1>15, <2>2, <2>3 DEF PutClip, TypeOK
  <2>5. Bound'
    BY <1>15 DEF PutClip, Bound
  <2> QED BY <2>4, <2>5
<1>16. CASE PutManifest(w)
  <2>1. manifest' \in SUBSET Shots
    BY <1>16 DEF PutManifest, Present
  <2>2. result' \in [Workers -> Result]
    BY <1>16 DEF PutManifest, TypeOK, Result
  <2>3. TypeOK'
    BY <1>16, <2>1, <2>2 DEF PutManifest, Goto, TypeOK, Busy
  <2>4. Bound'
    BY <1>16 DEF PutManifest, Goto, TypeOK, Bound, Busy
  <2> QED BY <2>3, <2>4
<1>17. CASE PutFilm(w)
  <2>1. film' \in [Shots -> Source \cup {None}]
    BY <1>17 DEF PutFilm, TypeOK, Output
  <2>2. result' \in [Workers -> Result]
    BY <1>17 DEF PutFilm, TypeOK, Result
  <2>3. TypeOK'
    BY <1>17, <2>1, <2>2 DEF PutFilm, Goto, TypeOK, Busy
  <2>4. Bound'
    BY <1>17 DEF PutFilm, Goto, TypeOK, Bound, Busy
  <2> QED BY <2>3, <2>4
<1>18. CASE NoFilm(w)
  BY <1>18 DEF NoFilm, Goto, TypeOK, Bound, r2, Busy
<1>19. CASE PutState(w)
  <2>1. state' \in Tree
    BY <1>19 DEF PutState, SavedTree, TypeOK
  <2>2. result' \in [Workers -> Result]
    BY <1>19 DEF PutState, TypeOK, Result
  <2>3. TypeOK'
    BY <1>19, <2>1, <2>2 DEF PutState, Goto, TypeOK, Busy
  <2>4. Bound'
    BY <1>19 DEF PutState, Goto, TypeOK, Bound, Busy
  <2> QED BY <2>3, <2>4
<1>20. CASE Respond(w)
  <2>1. TypeOK'
    BY <1>20, DropTyped DEF Respond, Goto, TypeOK, r2, Resting
  <2>2. Bound'
    BY <1>20, DropTyped DEF Respond, Goto, TypeOK, Bound, Busy
  <2> QED BY <2>1, <2>2
<1> QED
  BY <1>1, <1>2, <1>3, <1>4, <1>5, <1>6, <1>7, <1>8, <1>9, <1>10, <1>11,
     <1>12, <1>13, <1>14, <1>15, <1>16, <1>17, <1>18, <1>19, <1>20 DEF Step

LEMMA TypeNext == TypeInv /\ [Next]_vars => TypeInv'
<1> SUFFICES ASSUME TypeInv, [Next]_vars PROVE TypeInv'
  OBVIOUS
<1>1. CASE UNCHANGED vars
  BY <1>1 DEF TypeInv, TypeOK, Bound, vars
<1>2. ASSUME NEW w \in Workers, NEW r \in Requests, Receive(w, r)
      PROVE  TypeInv'
  <2>1. ServerFor(w, r) \in Models
    BY RequestFields DEF TypeInv, TypeOK, ServerFor, Config
  <2>2. TypeOK'
    BY <1>2, <2>1, BlanksTyped DEF Receive, TypeInv, TypeOK, r2, Busy
  <2>3. Bound'
    BY <1>2, <2>1 DEF Receive, TypeInv, TypeOK, Bound
  <2> QED BY <2>2, <2>3 DEF TypeInv
<1>3. ASSUME NEW w \in Workers, Crash(w) PROVE TypeInv'
  <2>1. TypeOK'
    BY <1>3, DropTyped, BlanksTyped DEF Crash, TypeInv, TypeOK, r2, Resting
  <2>2. Bound'
    BY <1>3, DropTyped DEF Crash, TypeInv, TypeOK, Bound, Busy
  <2> QED BY <2>1, <2>2 DEF TypeInv
<1> QED BY <1>1, <1>2, <1>3, StepTyped, AbortTyped DEF Next, FailJob

LEMMA TypeInit == Init => TypeInv
BY BlanksTyped DEF Init, TypeInv, TypeOK, Bound, Resting, Busy

LEMMA TypeInvariant == Spec => []TypeInv
BY TypeInit, TypeNext, PTL DEF Spec

\* Every variable keeps its type, with any workers, requests and faults.
THEOREM TypeCorrect == Spec => []TypeOK
BY TypeInvariant, PTL DEF TypeInv

-----------------------------------------------------------------------------
(* Training markers *)

\* The strengthening: every work tree, restored or being finished, is backed as
\* well, so whichever of them is saved next is.
MarkerInv ==
    /\ TrainedMarkerBacked
    /\ \A w \in Workers : tree[w].trained \subseteq adapters

LEMMA MarkerNext == TypeInv /\ MarkerInv /\ [Next]_vars => MarkerInv'
<1> SUFFICES ASSUME TypeInv, MarkerInv, [Next]_vars PROVE MarkerInv'
  OBVIOUS
<1> USE DEF MarkerInv, TrainedMarkerBacked, Persisted
<1>1. NoTree.trained = {}
  BY DEF NoTree
<1>2. ASSUME UNCHANGED <<state, adapters, tree>> PROVE MarkerInv'
  BY <1>2
<1>3. ASSUME NEW w \in Workers, DropJob(w), UNCHANGED <<state, adapters>>
      PROVE  MarkerInv'
  BY <1>3, <1>1 DEF DropJob, TypeInv, TypeOK
<1>4. ASSUME NEW w \in Workers, NEW t, NEW k, Restored(w, t, k),
             t.trained \subseteq adapters
      PROVE  MarkerInv'
  BY <1>4 DEF Restored, r2, TypeInv, TypeOK
<1>5. ASSUME NEW w \in Workers, NEW slot \in Slots, PutLora(w, slot)
      PROVE  MarkerInv'
  BY <1>5 DEF PutLora, TypeInv, TypeOK, Tree
<1>6. ASSUME NEW w \in Workers, NEW s \in Shots, PutKeyframe(w, s)
      PROVE  MarkerInv'
  <2>1. TreeWithKeyframe(w, s).trained = tree[w].trained
    BY DEF TreeWithKeyframe, TypeInv, TypeOK, Tree
  <2> QED BY <1>6, <2>1 DEF PutKeyframe, TypeInv, TypeOK
<1>7. ASSUME NEW w \in Workers, PutState(w) PROVE MarkerInv'
  BY <1>7, NoneAssumption DEF PutState, SavedTree, TypeInv, TypeOK
<1>8. ASSUME NEW w \in Workers, Step(w) PROVE MarkerInv'
  <2>1. CASE \/ RestoreState(w) \/ RestoreNothing(w) \/ RestorePart(w)
             \/ RestoreScanFails(w)
    BY <2>1, <1>1, <1>4 DEF RestoreState, RestoreNothing, RestorePart,
       RestoreScanFails
  <2>2. CASE \/ RejectJob(w) \/ StagingFails(w) \/ Respond(w)
    BY <2>2, <1>3 DEF RejectJob, StagingFails, Respond, Abort, r2
  <2>3. CASE \/ LoadBundle(w) \/ StageLoras(w) \/ Train(w) \/ RenderScenes(w)
             \/ PassPretrained(w) \/ KeyframesUp(w) \/ PutManifest(w)
             \/ PutFilm(w) \/ NoFilm(w)
    BY <2>3, <1>2 DEF LoadBundle, StageLoras, Train, RenderScenes,
       PassPretrained, KeyframesUp, PutManifest, PutFilm, NoFilm, r2
  <2>4. CASE \E s \in Shots : PutClip(w, s)
    BY <2>4, <1>2 DEF PutClip
  <2> QED BY <1>5, <1>6, <1>7, <1>8, <2>1, <2>2, <2>3, <2>4 DEF Step
<1>9. CASE UNCHANGED vars
  BY <1>9, <1>2 DEF vars
<1>10. ASSUME NEW w \in Workers, NEW r \in Requests, Receive(w, r)
       PROVE  MarkerInv'
  BY <1>10, <1>2 DEF Receive, r2
<1>11. ASSUME NEW w \in Workers, FailJob(w) \/ Crash(w) PROVE MarkerInv'
  BY <1>11, <1>3 DEF FailJob, Crash, Abort, r2
<1> QED BY <1>8, <1>9, <1>10, <1>11 DEF Next

LEMMA MarkerInit == Init => MarkerInv
BY DEF Init, MarkerInv, TrainedMarkerBacked, Persisted, NoTree

\* The project state never claims a LoRA that is not in R2: for any number of
\* jobs at once, failing or dying anywhere, with any restore failure.
THEOREM MarkersBacked == Spec => []TrainedMarkerBacked
<1>1. TypeInv /\ MarkerInv /\ [Next]_vars => (TypeInv /\ MarkerInv)'
  BY TypeNext, MarkerNext
<1>2. MarkerInv => TrainedMarkerBacked
  BY DEF MarkerInv
<1> QED BY <1>1, <1>2, TypeInit, MarkerInit, PTL DEF Spec

-----------------------------------------------------------------------------
(* Responses *)

\* A job past staging knows the adapters its references name are in R2.
Staged == {"train", "scenes", "loras", "keyframes", "film", "state", "respond"}

\* The strengthening: what the response already names, at any point of _finish,
\* is in R2, and nothing in R2 goes away.
ResponseInv ==
    /\ \A w \in Workers :
         /\ result[w].lora \subseteq adapters
         /\ result[w].kf \subseteq Present(kfObj)
         /\ result[w].clips \subseteq Present(clipObj)
         /\ result[w].output => film # None
         /\ pc[w] \in Staged => req[w].pretrained \ req[w].local \subseteq adapters
         /\ pc[w] \in {"respond", "done"} => state # None

LEMMA ResponseNext == TypeInv /\ ResponseInv /\ [Next]_vars => ResponseInv'
<1> SUFFICES ASSUME TypeInv, ResponseInv, [Next]_vars PROVE ResponseInv'
  OBVIOUS
<1> USE DEF ResponseInv
<1>1. ASSUME NEW w \in Workers, Abort(w) PROVE ResponseInv'
  BY <1>1 DEF Abort, DropJob, NoResult, r2, Staged, TypeInv, TypeOK
<1>2. ASSUME NEW w \in Workers, NEW t, NEW k, Restored(w, t, k)
      PROVE  ResponseInv'
  BY <1>2 DEF Restored, Goto, r2, Staged, TypeInv, TypeOK
<1>3. ASSUME NEW w \in Workers, NEW slot \in Slots, PutLora(w, slot)
      PROVE  ResponseInv'
  BY <1>3 DEF PutLora, TypeInv, TypeOK, Result
<1>4. ASSUME NEW w \in Workers, PassPretrained(w) PROVE ResponseInv'
  BY <1>4 DEF PassPretrained, Goto, r2, Staged, TypeInv, TypeOK, Result
<1>5. ASSUME NEW w \in Workers, NEW s \in Shots, PutKeyframe(w, s)
      PROVE  ResponseInv'
  <2>1. made[w].kf[s] # None
    BY <1>5 DEF PutKeyframe, Present
  <2>2. Present(kfObj') = Present(kfObj) \cup {s}
    BY <1>5, <2>1 DEF PutKeyframe, Present, TypeInv, TypeOK
  <2>3. result' = [result EXCEPT ![w] =
                    [result[w] EXCEPT !.kf = result[w].kf \cup {s}]]
    BY <1>5 DEF PutKeyframe, TypeInv, TypeOK
  <2>4. \A v \in Workers :
          /\ result'[v].lora = result[v].lora
          /\ result'[v].clips = result[v].clips
          /\ result'[v].output = result[v].output
          /\ result'[v].kf \subseteq result[v].kf \cup {s}
    BY <2>3 DEF TypeInv, TypeOK, Result
  <2>5. Present(kfObj)' = Present(kfObj) \cup {s}
    BY <2>2
  <2> QED BY <1>5, <2>4, <2>5 DEF PutKeyframe
<1>6. ASSUME NEW w \in Workers, NEW s \in Shots, PutClip(w, s)
      PROVE  ResponseInv'
  <2>1. made[w].clip[s] # None
    BY <1>6 DEF PutClip, Present
  <2>2. Present(clipObj') = Present(clipObj) \cup {s}
    BY <1>6, <2>1 DEF PutClip, Present, TypeInv, TypeOK
  <2>3. result' = [result EXCEPT ![w] =
                    [result[w] EXCEPT !.clips = result[w].clips \cup {s}]]
    BY <1>6 DEF PutClip, TypeInv, TypeOK
  <2>4. \A v \in Workers :
          /\ result'[v].lora = result[v].lora
          /\ result'[v].kf = result[v].kf
          /\ result'[v].output = result[v].output
          /\ result'[v].clips \subseteq result[v].clips \cup {s}
    BY <2>3 DEF TypeInv, TypeOK, Result
  <2>5. Present(clipObj)' = Present(clipObj) \cup {s}
    BY <2>2
  <2> QED BY <1>6, <2>4, <2>5 DEF PutClip
<1>7. ASSUME NEW w \in Workers, PutManifest(w) PROVE ResponseInv'
  BY <1>7 DEF PutManifest, Goto, Staged, TypeInv, TypeOK, Result
<1>8. ASSUME NEW w \in Workers, PutFilm(w) PROVE ResponseInv'
  <2>1. film' # None
    BY <1>8, NoneAssumption DEF PutFilm, TypeInv, TypeOK, Output
  <2> QED BY <1>8, <2>1 DEF PutFilm, Goto, Staged, TypeInv, TypeOK, Result
<1>9. ASSUME NEW w \in Workers, PutState(w) PROVE ResponseInv'
  <2>1. state' # None
    BY <1>9, NoneAssumption DEF PutState, SavedTree, TypeInv, TypeOK
  <2> QED BY <1>9, <2>1 DEF PutState, Goto, Staged, TypeInv, TypeOK, Result
<1>10. ASSUME NEW w \in Workers, Respond(w) PROVE ResponseInv'
  BY <1>10 DEF Respond, Goto, DropJob, r2, Staged, TypeInv, TypeOK
<1>11. ASSUME NEW w \in Workers, StageLoras(w) PROVE ResponseInv'
  BY <1>11 DEF StageLoras, Stageable, Goto, r2, Staged, TypeInv, TypeOK
<1>12. ASSUME NEW w \in Workers,
              LoadBundle(w) \/ Train(w) \/ RenderScenes(w) \/ KeyframesUp(w)
              \/ NoFilm(w)
       PROVE  ResponseInv'
  BY <1>12 DEF LoadBundle, Train, RenderScenes, KeyframesUp, NoFilm, Goto, r2,
     Staged, TypeInv, TypeOK
<1>13. ASSUME NEW w \in Workers, Step(w) PROVE ResponseInv'
  BY <1>13, <1>1, <1>2, <1>3, <1>4, <1>5, <1>6, <1>7, <1>8, <1>9, <1>10, <1>11,
     <1>12 DEF Step, RestoreState, RestoreNothing, RestorePart,
     RestoreScanFails, RejectJob, StagingFails
<1>14. ASSUME NEW w \in Workers, Crash(w) PROVE ResponseInv'
  BY <1>14 DEF Crash, DropJob, NoResult, r2, Staged, TypeInv, TypeOK
<1>15. ASSUME NEW w \in Workers, NEW r \in Requests, Receive(w, r)
       PROVE  ResponseInv'
  BY <1>15 DEF Receive, NoResult, r2, Staged, TypeInv, TypeOK
<1>16. CASE UNCHANGED vars
  BY <1>16 DEF vars
<1> QED BY <1>1, <1>13, <1>14, <1>15, <1>16 DEF Next, FailJob

LEMMA ResponseInit == Init => ResponseInv
BY DEF Init, ResponseInv, NoResult, Staged

\* Every R2 key a response names holds an object when the control plane reads
\* it, whatever the other workers did or failed to do.
THEOREM ResponsesBacked == Spec => []ResponseBacked
<1>1. TypeInv /\ ResponseInv /\ [Next]_vars => (TypeInv /\ ResponseInv)'
  BY TypeNext, ResponseNext
<1>2. ResponseInv => ResponseBacked
  BY DEF ResponseInv, ResponseBacked
<1> QED BY <1>1, <1>2, TypeInit, ResponseInit, PTL DEF Spec

-----------------------------------------------------------------------------
(* The manifest *)

\* Which objects the clip keys hold only grows, and the manifest lists what its
\* writer had uploaded; ResponseInv says that much of every job.
LEMMA ManifestNext ==
    TypeInv /\ ResponseInv /\ ManifestBacked /\ [Next]_vars => ManifestBacked'
<1> SUFFICES ASSUME TypeInv, ResponseInv, ManifestBacked, [Next]_vars
             PROVE  ManifestBacked'
  OBVIOUS
<1> USE DEF ManifestBacked
<1>1. ASSUME UNCHANGED <<manifest, clipObj>> PROVE ManifestBacked'
  BY <1>1 DEF Present
<1>2. ASSUME NEW w \in Workers, NEW s \in Shots, PutClip(w, s)
      PROVE  ManifestBacked'
  <2>1. made[w].clip[s] # None
    BY <1>2 DEF PutClip, Present
  <2>2. Present(clipObj)' = Present(clipObj) \cup {s}
    BY <1>2, <2>1 DEF PutClip, Present, TypeInv, TypeOK
  <2> QED BY <1>2, <2>2 DEF PutClip
<1>3. ASSUME NEW w \in Workers, PutManifest(w) PROVE ManifestBacked'
  <2>1. manifest' \subseteq Present(clipObj)
    BY <1>3 DEF PutManifest, ClipsUp, ResponseInv
  <2>2. Present(clipObj)' = Present(clipObj)
    BY <1>3 DEF PutManifest, Present
  <2> QED BY <2>1, <2>2
<1>4. ASSUME NEW w \in Workers, Abort(w) PROVE ManifestBacked'
  BY <1>4, <1>1 DEF Abort, r2
<1>5. ASSUME NEW w \in Workers, Step(w) PROVE ManifestBacked'
  <2>1. CASE \/ RestoreState(w) \/ RestoreNothing(w) \/ RestorePart(w)
             \/ RestoreScanFails(w) \/ LoadBundle(w) \/ StageLoras(w) \/ Train(w)
             \/ RenderScenes(w) \/ PassPretrained(w) \/ KeyframesUp(w)
             \/ PutFilm(w) \/ NoFilm(w) \/ PutState(w) \/ Respond(w)
             \/ (\E slot \in Slots : PutLora(w, slot))
             \/ \E s \in Shots : PutKeyframe(w, s)
    BY <2>1, <1>1 DEF RestoreState, RestoreNothing, RestorePart, RestoreScanFails,
       Restored, LoadBundle, StageLoras, Train, RenderScenes, PassPretrained,
       KeyframesUp, PutFilm, NoFilm, PutState, Respond, PutLora, PutKeyframe, r2
  <2>2. CASE RejectJob(w) \/ StagingFails(w)
    BY <2>2, <1>4 DEF RejectJob, StagingFails
  <2> QED BY <1>2, <1>3, <1>5, <2>1, <2>2 DEF Step
<1>6. ASSUME NEW w \in Workers, FailJob(w) \/ Crash(w) PROVE ManifestBacked'
  BY <1>6, <1>1, <1>4 DEF FailJob, Crash, r2
<1>7. ASSUME NEW w \in Workers, NEW r \in Requests, Receive(w, r)
      PROVE  ManifestBacked'
  BY <1>7, <1>1 DEF Receive, r2
<1>8. CASE UNCHANGED vars
  BY <1>8, <1>1 DEF vars
<1> QED BY <1>5, <1>6, <1>7, <1>8 DEF Next

\* A manifest lists only clips that are in R2, whichever jobs ran or failed since.
THEOREM ManifestsBacked == Spec => []ManifestBacked
<1>1. Init => ManifestBacked
  BY DEF Init, ManifestBacked
<1>2. TypeInv /\ ResponseInv /\ ManifestBacked /\ [Next]_vars
        => (TypeInv /\ ResponseInv /\ ManifestBacked)'
  BY TypeNext, ResponseNext, ManifestNext
<1> QED BY <1>1, <1>2, TypeInit, ResponseInit, PTL DEF Spec

-----------------------------------------------------------------------------
(* Keyframe hashes *)

\* A stored hash has the parameters of the image beside it.
Paired(t) ==
    \A s \in Shots : t.kf[s] # None /\ t.hash[s] # None =>
        t.hash[s].params = t.kf[s].params

\* Of the state and of every work tree; and a job has a hash for each keyframe it made.
ParamsInv ==
    /\ Paired(Persisted)
    /\ \A w \in Workers :
         /\ Paired(tree[w])
         /\ \A s \in Shots : made[w].kf[s] # None =>
              made[w].hash[s].params = made[w].kf[s].params /\ made[w].hash[s] # None

\* Hash writes succeed.
Written == "hash" \notin Faults

LEMMA BlanksPaired ==
    Paired(NoTree) /\ \A s \in Shots : NoOutput.kf[s] = None
BY DEF Paired, NoTree, NoOutput

LEMMA ParamsNext ==
  ASSUME Written, TypeInv, ParamsInv, [Next]_vars
  PROVE  ParamsInv'
<1> USE DEF ParamsInv, Persisted
<1>1. ASSUME UNCHANGED <<state, tree, made>> PROVE ParamsInv'
  BY <1>1 DEF Paired
<1>2. ASSUME NEW w \in Workers, DropJob(w), UNCHANGED state PROVE ParamsInv'
  <2>1. \A v \in Workers : /\ tree'[v] \in {tree[v], NoTree}
                           /\ made'[v] \in {made[v], NoOutput}
    BY <1>2 DEF DropJob, TypeInv, TypeOK
  <2> QED BY <1>2, <2>1, BlanksPaired DEF Paired
<1>3. ASSUME NEW w \in Workers, NEW t, NEW k, Restored(w, t, k), Paired(t)
      PROVE  ParamsInv'
  <2>1. \A v \in Workers : tree'[v] \in {tree[v], t}
    BY <1>3 DEF Restored, TypeInv, TypeOK
  <2> QED BY <1>3, <2>1 DEF Paired, Restored, r2
<1>4. ASSUME NEW w \in Workers, RestorePart(w) PROVE ParamsInv'
  <2>1. PICK K \in SUBSET Present(state.kf), M \in SUBSET state.trained,
             H \in SUBSET Shots :
          /\ K \subseteq H
          /\ Restored(w,
               [kf      |-> [s \in Shots |-> IF s \in K THEN state.kf[s] ELSE None],
                hash    |-> [s \in Shots |-> IF s \in H THEN state.hash[s] ELSE None],
                trained |-> M], NoKnown)
    BY <1>4 DEF RestorePart
  <2>2. Paired(state)
    BY <1>4 DEF RestorePart
  <2>3. Paired(
            [kf      |-> [s \in Shots |-> IF s \in K THEN state.kf[s] ELSE None],
             hash    |-> [s \in Shots |-> IF s \in H THEN state.hash[s] ELSE None],
             trained |-> M])
    BY <2>1, <2>2 DEF Paired
  <2> QED BY <2>1, <2>3, <1>3
<1>5. ASSUME NEW w \in Workers, RenderScenes(w) PROVE ParamsInv'
  <2>1. req[w] \in Requests
    BY <1>5 DEF RenderScenes, Goto, TypeInv, Bound, Busy
  <2>2. PICK unhashed \in SUBSET Drawn(w) :
          /\ unhashed # {} => "hash" \in Faults
          /\ made' = [made EXCEPT
            ![w].kf   = [s \in Shots |-> IF s \in Drawn(w) THEN Draw(w, s)
                                         ELSE None],
            ![w].hash = [s \in Shots |-> IF s \in Drawn(w) \ unhashed
                                         THEN KfHash(req[w].config) ELSE None],
            ![w].clip = [s \in Shots |-> IF WantI2V(req[w])
                                         THEN ResolveKeyframe(w, s) ELSE None]]
    BY <1>5 DEF RenderScenes
  <2>3. /\ made'[w].kf = [s \in Shots |-> IF s \in Drawn(w) THEN Draw(w, s)
                                          ELSE None]
        /\ made'[w].hash = [s \in Shots |-> IF s \in Drawn(w)
                                THEN KfHash(req[w].config) ELSE None]
        /\ \A v \in Workers \ {w} : made'[v] = made[v]
    <3>1. unhashed = {}
      BY <2>2 DEF Written
    <3> DEFINE kf   == [s \in Shots |-> IF s \in Drawn(w) THEN Draw(w, s)
                                       ELSE None]
               hash == [s \in Shots |-> IF s \in Drawn(w)
                                       THEN KfHash(req[w].config) ELSE None]
               clip == [s \in Shots |-> IF WantI2V(req[w])
                                       THEN ResolveKeyframe(w, s) ELSE None]
    <3>2. made' = [made EXCEPT ![w].kf = kf, ![w].hash = hash, ![w].clip = clip]
      BY <2>2, <3>1
    <3> HIDE DEF kf, hash, clip
    <3>3. /\ made'[w].kf = kf /\ made'[w].hash = hash
          /\ \A v \in Workers \ {w} : made'[v] = made[v]
      BY <3>2 DEF TypeInv, TypeOK, Output
    <3> QED BY <3>3 DEF kf, hash
  <2>4. KfHash(req[w].config) \in Hash
    BY <2>1, RequestFields DEF KfHash, Hash, Config
  <2>5. \A s \in Shots : KfHash(req[w].config).params = Draw(w, s).params
    BY DEF Draw, KfHash
  <2>6. \A s \in Shots : made'[w].kf[s] # None =>
          made'[w].hash[s].params = made'[w].kf[s].params /\ made'[w].hash[s] # None
    BY <2>3, <2>4, <2>5, NoneAssumption
  <2>7. UNCHANGED <<state, tree>>
    BY <1>5 DEF RenderScenes, r2
  <2> QED BY <2>3, <2>6, <2>7 DEF Paired
<1>6. ASSUME NEW w \in Workers, NEW s \in Shots, PutKeyframe(w, s)
      PROVE  ParamsInv'
  <2>1. tree[w] \in Tree /\ made[w].kf[s] # None
    BY <1>6 DEF PutKeyframe, Present, TypeInv, TypeOK
  <2>2. Paired(TreeWithKeyframe(w, s))
    BY <2>1 DEF Paired, TreeWithKeyframe, Tree
  <2>3. \A v \in Workers : tree'[v] \in {tree[v], TreeWithKeyframe(w, s)}
    BY <1>6 DEF PutKeyframe, TypeInv, TypeOK
  <2> QED BY <1>6, <2>2, <2>3 DEF PutKeyframe, Paired
<1>7. ASSUME NEW w \in Workers, NEW slot \in Slots, PutLora(w, slot)
      PROVE  ParamsInv'
  <2>1. \A v \in Workers : /\ tree'[v].kf = tree[v].kf
                           /\ tree'[v].hash = tree[v].hash
    BY <1>7 DEF PutLora, TypeInv, TypeOK, Tree
  <2> QED BY <1>7, <2>1 DEF PutLora, Paired
<1>8. ASSUME NEW w \in Workers, Train(w) PROVE ParamsInv'
  <2>1. \A v \in Workers : /\ made'[v].kf = made[v].kf
                           /\ made'[v].hash = made[v].hash
    BY <1>8 DEF Train, TypeInv, TypeOK, Output
  <2> QED BY <1>8, <2>1 DEF Train, r2, Paired
<1>9. ASSUME NEW w \in Workers, PutState(w) PROVE ParamsInv'
  BY <1>9, NoneAssumption DEF PutState, SavedTree, Paired, TypeInv, TypeOK
<1>10. ASSUME NEW w \in Workers, Step(w) PROVE ParamsInv'
  <2>1. CASE RestoreState(w) \/ RestoreNothing(w) \/ RestoreScanFails(w)
    BY <2>1, <1>3, BlanksPaired DEF RestoreState, RestoreNothing,
       RestoreScanFails
  <2>2. CASE RejectJob(w) \/ StagingFails(w) \/ Respond(w)
    BY <2>2, <1>2 DEF RejectJob, StagingFails, Respond, Abort, r2
  <2>3. CASE \/ LoadBundle(w) \/ StageLoras(w) \/ PassPretrained(w)
             \/ KeyframesUp(w) \/ PutManifest(w) \/ PutFilm(w) \/ NoFilm(w)
    BY <2>3, <1>1 DEF LoadBundle, StageLoras, PassPretrained, KeyframesUp,
       PutManifest, PutFilm, NoFilm, r2
  <2>4. CASE \E s \in Shots : PutClip(w, s)
    BY <2>4, <1>1 DEF PutClip
  <2> QED BY <1>4, <1>5, <1>6, <1>7, <1>8, <1>9, <1>10, <2>1, <2>2, <2>3, <2>4
          DEF Step
<1>11. ASSUME NEW w \in Workers, NEW r \in Requests, Receive(w, r)
       PROVE  ParamsInv'
  BY <1>11, <1>1 DEF Receive, r2
<1>12. ASSUME NEW w \in Workers, FailJob(w) \/ Crash(w) PROVE ParamsInv'
  BY <1>12, <1>2 DEF FailJob, Crash, Abort, r2
<1>13. CASE UNCHANGED vars
  BY <1>13, <1>1 DEF vars
<1> QED BY <1>10, <1>11, <1>12, <1>13 DEF Next

LEMMA ParamsInit == Init => ParamsInv
BY BlanksPaired DEF Init, ParamsInv, Persisted

\* Hash writes succeed, and every job asks for the model the workers have.
Faithful == Written /\ \A m, n \in Models : m = n

\* Then the hash is that of the image: the model, its other part, is the only one.
HashInv ==
    /\ HashVouchesForImage
    /\ \A w \in Workers :
         /\ Vouched(tree[w])
         /\ \A s \in Shots : made[w].kf[s] # None =>
              made[w].hash[s] = HashOf(made[w].kf[s]) /\ made[w].hash[s] # None

LEMMA HashFollows ==
  ASSUME Faithful, TypeInv, ParamsInv
  PROVE  HashInv
<1>1. ASSUME NEW h \in Hash, NEW i \in Image, h.params = i.params PROVE h = HashOf(i)
  BY <1>1 DEF Faithful, Hash, Image, HashOf
<1>2. ASSUME NEW t \in Tree, Paired(t) PROVE Vouched(t)
  BY <1>1, <1>2 DEF Paired, Vouched, Tree
<1>3. Persisted \in Tree
  BY BlanksTyped DEF Persisted, TypeInv, TypeOK
<1>4. ASSUME NEW w \in Workers, NEW s \in Shots, made[w].kf[s] # None
      PROVE  made[w].hash[s] = HashOf(made[w].kf[s]) /\ made[w].hash[s] # None
  <2>1. made[w].kf[s] \in Image /\ made[w].hash[s] \in Hash
    BY <1>4 DEF ParamsInv, TypeInv, TypeOK, Output
  <2> QED BY <1>1, <1>4, <2>1 DEF ParamsInv
<1> QED BY <1>2, <1>3, <1>4 DEF HashInv, HashVouchesForImage, ParamsInv, TypeInv, TypeOK

\* With hash writes that succeed and one model for every job, a stored hash is
\* the hash of what drew the image beside it: concurrent jobs, crashes and
\* restore failures cannot pair an image with the hash of another.
THEOREM HashesVouch ==
  ASSUME Faithful
  PROVE  Spec => []HashVouchesForImage
<1>1. TypeInv /\ ParamsInv /\ [Next]_vars => (TypeInv /\ ParamsInv)'
  BY TypeNext, ParamsNext DEF Faithful
<1>2. TypeInv /\ ParamsInv => HashVouchesForImage
  BY HashFollows DEF HashInv
<1> QED BY <1>1, <1>2, TypeInit, ParamsInit, PTL DEF Spec
-----------------------------------------------------------------------------
(* Exact reuse *)

\* Requests that agree on the parameters kf_hash folds agree on the scheduler and the
\* prompt, which it does not: whoever changes those changes a parameter, too.
HashDetermines ==
    \A r, q \in Requests : r.config.params = q.config.params =>
        r.config.scheduler = q.config.scheduler /\ r.prompt = q.prompt

\* The image has the parameters, scheduler and prompt of one request.
Origin(i) ==
    \E r \in Requests : /\ i.params = r.config.params /\ i.prompt = r.prompt
                        /\ i.scheduler = r.config.scheduler

FromRequests(kf) == \A s \in Shots : kf[s] # None => Origin(kf[s])

\* No image is put together from the settings of two jobs.
OriginInv ==
    /\ FromRequests(Persisted.kf)
    /\ \A w \in Workers : FromRequests(tree[w].kf) /\ FromRequests(made[w].kf)

LEMMA OriginNext ==
  ASSUME TypeInv, OriginInv, [Next]_vars
  PROVE  OriginInv'
<1> USE DEF OriginInv, Persisted
<1>1. ASSUME UNCHANGED <<state, tree, made>> PROVE OriginInv'
  BY <1>1
<1>2. FromRequests(NoTree.kf) /\ FromRequests(NoOutput.kf)
  BY DEF FromRequests, NoTree, NoOutput
<1>3. ASSUME NEW w \in Workers, DropJob(w), UNCHANGED state PROVE OriginInv'
  <2>1. \A v \in Workers : /\ tree'[v] \in {tree[v], NoTree}
                           /\ made'[v] \in {made[v], NoOutput}
    BY <1>3 DEF DropJob, TypeInv, TypeOK
  <2> QED BY <1>2, <1>3, <2>1
<1>4. ASSUME NEW w \in Workers, NEW t, NEW k, Restored(w, t, k), FromRequests(t.kf)
      PROVE  OriginInv'
  <2>1. \A v \in Workers : tree'[v] \in {tree[v], t}
    BY <1>4 DEF Restored, TypeInv, TypeOK
  <2> QED BY <1>4, <2>1 DEF Restored, r2
<1>5. ASSUME NEW w \in Workers, RestorePart(w) PROVE OriginInv'
  <2>1. PICK K \in SUBSET Present(state.kf), M \in SUBSET state.trained,
             H \in SUBSET Shots :
          Restored(w,
            [kf      |-> [s \in Shots |-> IF s \in K THEN state.kf[s] ELSE None],
             hash    |-> [s \in Shots |-> IF s \in H THEN state.hash[s] ELSE None],
             trained |-> M], NoKnown)
    BY <1>5 DEF RestorePart
  <2>2. FromRequests([s \in Shots |-> IF s \in K THEN state.kf[s] ELSE None])
    BY <1>5 DEF RestorePart, FromRequests
  <2> QED BY <2>1, <2>2, <1>4
<1>6. ASSUME NEW w \in Workers, RenderScenes(w) PROVE OriginInv'
  <2>1. req[w] \in Requests
    BY <1>6 DEF RenderScenes, Goto, TypeInv, Bound, Busy
  <2> DEFINE kf == [s \in Shots |-> IF s \in Drawn(w) THEN Draw(w, s) ELSE None]
  <2>2. FromRequests(kf)
    BY <2>1 DEF FromRequests, Origin, Draw
  <2>3. made'[w].kf = kf /\ \A v \in Workers \ {w} : made'[v] = made[v]
    <3>1. PICK hash, clip :
            made' = [made EXCEPT ![w].kf = kf, ![w].hash = hash, ![w].clip = clip]
      BY <1>6 DEF RenderScenes
    <3> HIDE DEF kf
    <3> QED BY <3>1 DEF TypeInv, TypeOK, Output
  <2> HIDE DEF kf
  <2> QED BY <1>6, <2>2, <2>3 DEF RenderScenes, r2
<1>7. ASSUME NEW w \in Workers, NEW s \in Shots, PutKeyframe(w, s) PROVE OriginInv'
  <2>1. /\ tree'[w].kf[s] = made[w].kf[s]
        /\ \A t \in Shots \ {s} : tree'[w].kf[t] = tree[w].kf[t]
        /\ \A v \in Workers \ {w} : tree'[v] = tree[v]
    BY <1>7 DEF PutKeyframe, TreeWithKeyframe, TypeInv, TypeOK, Tree
  <2>2. FromRequests(tree'[w].kf)
    BY <2>1 DEF FromRequests
  <2> QED BY <1>7, <2>1, <2>2 DEF PutKeyframe
<1>8. ASSUME NEW w \in Workers, NEW slot \in Slots, PutLora(w, slot) PROVE OriginInv'
  <2>1. \A v \in Workers : tree'[v].kf = tree[v].kf
    BY <1>8 DEF PutLora, TypeInv, TypeOK, Tree
  <2> QED BY <1>8, <2>1 DEF PutLora
<1>9. ASSUME NEW w \in Workers, Train(w) PROVE OriginInv'
  <2>1. \A v \in Workers : made'[v].kf = made[v].kf
    BY <1>9 DEF Train, TypeInv, TypeOK, Output
  <2> QED BY <1>9, <2>1 DEF Train, r2
<1>10. ASSUME NEW w \in Workers, PutState(w) PROVE OriginInv'
  BY <1>10, NoneAssumption DEF PutState, SavedTree, TypeInv, TypeOK
<1>11. ASSUME NEW w \in Workers, Step(w) PROVE OriginInv'
  <2>1. CASE RestoreState(w) \/ RestoreNothing(w) \/ RestoreScanFails(w)
    BY <2>1, <1>2, <1>4 DEF RestoreState, RestoreNothing, RestoreScanFails
  <2>2. CASE RejectJob(w) \/ StagingFails(w) \/ Respond(w)
    BY <2>2, <1>3 DEF RejectJob, StagingFails, Respond, Abort, r2
  <2>3. CASE \/ LoadBundle(w) \/ StageLoras(w) \/ PassPretrained(w)
             \/ KeyframesUp(w) \/ PutManifest(w) \/ PutFilm(w) \/ NoFilm(w)
    BY <2>3, <1>1 DEF LoadBundle, StageLoras, PassPretrained, KeyframesUp,
       PutManifest, PutFilm, NoFilm, r2
  <2>4. CASE \E s \in Shots : PutClip(w, s)
    BY <2>4, <1>1 DEF PutClip
  <2> QED BY <1>5, <1>6, <1>7, <1>8, <1>9, <1>10, <1>11, <2>1, <2>2, <2>3, <2>4
          DEF Step
<1>12. ASSUME NEW w \in Workers, NEW r \in Requests, Receive(w, r) PROVE OriginInv'
  BY <1>12, <1>1 DEF Receive, r2
<1>13. ASSUME NEW w \in Workers, FailJob(w) \/ Crash(w) PROVE OriginInv'
  BY <1>13, <1>3 DEF FailJob, Crash, Abort, r2
<1>14. CASE UNCHANGED vars
  BY <1>14, <1>1 DEF vars
<1> QED BY <1>11, <1>12, <1>13, <1>14 DEF Next

LEMMA OriginInit == Init => OriginInv
BY DEF Init, OriginInv, FromRequests, Persisted, NoTree, NoOutput
Planned == {"stage", "train", "scenes"}

\* The strengthening: what the planner is told exists is in the tree, and the tree
\* a plan was made for stays as it is while the plan is carried out.
ReuseInv ==
    \A w \in Workers, s \in Shots :
        /\ pc[w] = "bundle" /\ s \in known[w].kf => tree[w].kf[s] # None
        /\ /\ pc[w] \in Planned
           /\ plan[w].mode[s] = "reuse" /\ WantKeyframe(req[w])
           => /\ tree[w].kf[s] # None
              /\ tree[w].hash[s] \in {None, KfHash(req[w].config)}

LEMMA ReuseNext == TypeInv /\ ReuseInv /\ [Next]_vars => ReuseInv'
<1> SUFFICES ASSUME TypeInv, ReuseInv, [Next]_vars PROVE ReuseInv'
  OBVIOUS
<1>1. ASSUME NEW w \in Workers,
             \A v \in Workers \ {w} :
                 /\ pc'[v] = pc[v] /\ req'[v] = req[v] /\ tree'[v] = tree[v]
                 /\ known'[v] = known[v] /\ plan'[v] = plan[v],
             pc'[w] \notin Planned \cup {"bundle"}
      PROVE  ReuseInv'
  BY <1>1 DEF ReuseInv, WantKeyframe
<1>2. ASSUME NEW w \in Workers, UNCHANGED <<req, tree, plan>>,
             \A v \in Workers \ {w} : pc'[v] = pc[v] /\ known'[v] = known[v],
             pc[w] \in Planned, pc'[w] \in Planned
      PROVE  ReuseInv'
  BY <1>2 DEF ReuseInv, WantKeyframe, Planned
<1>3. ASSUME NEW w \in Workers, NEW t, NEW k, Restored(w, t, k),
             \A s \in Shots : s \in k.kf => t.kf[s] # None
      PROVE  ReuseInv'
  <2>1. /\ pc' = [pc EXCEPT ![w] = "bundle"]
        /\ tree' = [tree EXCEPT ![w] = t] /\ known' = [known EXCEPT ![w] = k]
        /\ UNCHANGED <<req, plan>>
    BY <1>3 DEF Restored, Goto
  <2>2. pc'[w] = "bundle" /\ tree'[w] = t /\ known'[w] = k
    BY <2>1 DEF TypeInv, TypeOK
  <2>3. \A v \in Workers \ {w} :
          pc'[v] = pc[v] /\ tree'[v] = tree[v] /\ known'[v] = known[v]
    BY <2>1 DEF TypeInv, TypeOK
  <2> QED BY <1>3, <2>1, <2>2, <2>3 DEF ReuseInv, WantKeyframe, Planned
<1>4. ASSUME NEW w \in Workers, LoadBundle(w) PROVE ReuseInv'
  <2> DEFINE p == MakePlan(req[w], known[w].trained, known[w].kf, tree[w].hash)
  <2>1. /\ pc[w] = "bundle" /\ pc'[w] = "stage" /\ plan'[w] = p
        /\ UNCHANGED <<req, tree>>
        /\ \A v \in Workers \ {w} :
             pc'[v] = pc[v] /\ plan'[v] = plan[v] /\ known'[v] = known[v]
    BY <1>4 DEF LoadBundle, Goto, TypeInv, TypeOK
  <2>2. ASSUME NEW s \in Shots, p.mode[s] = "reuse", WantKeyframe(req[w])
        PROVE  s \in known[w].kf /\ tree[w].hash[s] \in {None, KfHash(req[w].config)}
    <3>1. req[w].action # "finalize"
      BY <2>2 DEF WantKeyframe
    <3>2. p.mode[s] = IF s \in PlannedShots(req[w])
                      THEN KeyframeMode(req[w], s, known[w].kf, tree[w].hash)
                      ELSE None
      BY DEF MakePlan
    <3>3. p.mode[s] = KeyframeMode(req[w], s, known[w].kf, tree[w].hash)
      BY <2>2, <3>2, NoneAssumption DEF Modes
    <3> QED BY <2>2, <3>1, <3>3 DEF KeyframeMode
  <2> HIDE DEF p
  <2> QED BY <2>1, <2>2 DEF ReuseInv, WantKeyframe, Planned
<1>5. ASSUME NEW w \in Workers, Abort(w) PROVE ReuseInv'
  BY <1>5, <1>1 DEF Abort, DropJob, TypeInv, TypeOK, Planned
<1>6. ASSUME NEW w \in Workers, Step(w) PROVE ReuseInv'
  <2>1. CASE RestoreState(w)
    <3> DEFINE k == [trained |-> state.trained, kf |-> Present(state.kf)]
    <3>1. Restored(w, state, k)
      BY <2>1 DEF RestoreState
    <3>2. \A s \in Shots : s \in k.kf => state.kf[s] # None
      BY DEF Present
    <3> QED BY <3>1, <3>2, <1>3
  <2>2. CASE RestoreNothing(w) \/ RestorePart(w) \/ RestoreScanFails(w)
    <3>1. \A s \in Shots : s \notin NoKnown.kf
      BY DEF NoKnown
    <3>2. CASE RestoreNothing(w)
      BY <3>1, <3>2, <1>3 DEF RestoreNothing
    <3>3. CASE RestorePart(w)
      BY <3>1, <3>3, <1>3 DEF RestorePart
    <3>4. CASE RestoreScanFails(w)
      <4>1. PICK K \in SUBSET Present(state.kf) :
              Restored(w, state, [trained |-> state.trained, kf |-> K])
        BY <3>4 DEF RestoreScanFails
      <4>2. \A s \in Shots : s \in [trained |-> state.trained, kf |-> K].kf
              => state.kf[s] # None
        BY <4>1 DEF Present
      <4> QED BY <4>1, <4>2, <1>3
    <3> QED BY <2>2, <3>2, <3>3, <3>4
  <2>3. CASE RejectJob(w) \/ StagingFails(w)
    BY <2>3, <1>5 DEF RejectJob, StagingFails
  <2>4. CASE StageLoras(w) \/ Train(w)
    BY <2>4, <1>2 DEF StageLoras, Train, Goto, Planned, TypeInv, TypeOK
  <2>5. CASE RenderScenes(w) \/ PassPretrained(w) \/ KeyframesUp(w)
             \/ PutManifest(w) \/ PutFilm(w) \/ NoFilm(w) \/ PutState(w)
    BY <2>5, <1>1 DEF RenderScenes, PassPretrained, KeyframesUp, PutManifest,
       PutFilm, NoFilm, PutState, Goto, Planned, TypeInv, TypeOK
  <2>6. CASE Respond(w)
    BY <2>6, <1>1 DEF Respond, DropJob, Goto, Planned, TypeInv, TypeOK
  <2>7. ASSUME NEW slot \in Slots, PutLora(w, slot) PROVE ReuseInv'
    BY <2>7, <1>1 DEF PutLora, Planned, TypeInv, TypeOK
  <2>8. ASSUME NEW s \in Shots, PutKeyframe(w, s) PROVE ReuseInv'
    BY <2>8, <1>1 DEF PutKeyframe, Planned, TypeInv, TypeOK
  <2>9. ASSUME NEW s \in Shots, PutClip(w, s) PROVE ReuseInv'
    BY <2>9, <1>1 DEF PutClip, Planned, TypeInv, TypeOK
  <2> QED BY <1>4, <1>6, <2>1, <2>2, <2>3, <2>4, <2>5, <2>6, <2>7, <2>8, <2>9
          DEF Step
<1>7. ASSUME NEW w \in Workers, Crash(w) PROVE ReuseInv'
  BY <1>7, <1>1 DEF Crash, DropJob, TypeInv, TypeOK, Planned
<1>8. ASSUME NEW w \in Workers, NEW r \in Requests, Receive(w, r) PROVE ReuseInv'
  BY <1>8, <1>1 DEF Receive, TypeInv, TypeOK, Planned
<1>9. CASE UNCHANGED vars
  BY <1>9 DEF vars, ReuseInv, WantKeyframe
<1> QED BY <1>5, <1>6, <1>7, <1>8, <1>9 DEF Next, FailJob

LEMMA ReuseInit == Init => ReuseInv
BY DEF Init, ReuseInv, Planned

LEMMA ReuseFollows ==
  ASSUME HashDetermines, TypeInv, HashInv, OriginInv, ReuseInv
  PROVE  ReuseIsExact
<1> SUFFICES ASSUME NEW w \in Workers, NEW s \in Shots,
                    pc[w] \in Planned, plan[w].mode[s] = "reuse",
                    WantKeyframe(req[w]), tree[w].hash[s] # None
             PROVE  /\ tree[w].kf[s] # None
                    /\ tree[w].kf[s].params    = req[w].config.params
                    /\ tree[w].kf[s].model     = req[w].config.model
                    /\ tree[w].kf[s].scheduler = req[w].config.scheduler
                    /\ tree[w].kf[s].prompt    = req[w].prompt
  BY DEF ReuseIsExact, Planned
<1>1. tree[w].kf[s] # None /\ tree[w].hash[s] = KfHash(req[w].config)
  BY DEF ReuseInv
<1>2. tree[w].kf[s] \in Image
  BY <1>1 DEF TypeInv, TypeOK, Tree
<1>3. HashOf(tree[w].kf[s]) = KfHash(req[w].config)
  BY <1>1 DEF HashInv, Vouched
<1>4. req[w] \in Requests
  BY DEF TypeInv, Bound, Planned, Busy
<1>5. /\ tree[w].kf[s].params = req[w].config.params
      /\ tree[w].kf[s].model  = req[w].config.model
  BY <1>3 DEF HashOf, KfHash
<1>6. /\ tree[w].kf[s].scheduler = req[w].config.scheduler
      /\ tree[w].kf[s].prompt    = req[w].prompt
  <2>1. Origin(tree[w].kf[s])
    BY <1>1 DEF OriginInv, FromRequests
  <2> QED BY <1>4, <1>5, <2>1 DEF Origin, HashDetermines
<1> QED BY <1>1, <1>5, <1>6

\* With jobs that differ in parameters, scheduler and prompt alike, a keyframe reused
\* on the strength of its hash is the one the job would draw, after any history of
\* failed jobs and of restores that broke off anywhere, with any number of jobs at
\* once: as long as the parameters tell apart what the hash leaves out.
THEOREM ReusesExact ==
  ASSUME Faithful, HashDetermines
  PROVE  Spec => []ReuseIsExact
<1>1. TypeInv /\ ParamsInv /\ OriginInv /\ ReuseInv /\ [Next]_vars
        => (TypeInv /\ ParamsInv /\ OriginInv /\ ReuseInv)'
  BY TypeNext, ParamsNext, OriginNext, ReuseNext DEF Faithful
<1>2. TypeInv /\ ParamsInv /\ OriginInv /\ ReuseInv => ReuseIsExact
  BY HashFollows, ReuseFollows
<1> QED BY <1>1, <1>2, TypeInit, ParamsInit, OriginInit, ReuseInit, PTL DEF Spec

\* ReuseIsExact without its last three lines, which are about what kf_hash does not
\* fold or a warm worker does not honour.
ReuseHasParams ==
    \A w \in Workers, s \in Shots :
        /\ pc[w] \in Planned
        /\ plan[w].mode[s] = "reuse" /\ WantKeyframe(req[w])
        /\ tree[w].hash[s] # None
        => tree[w].kf[s] # None /\ tree[w].kf[s].params = req[w].config.params

\* Whatever models, schedulers and prompts the jobs of the project differ in, warm
\* workers that kept another model included, a reused keyframe is there and was drawn
\* with the parameters the job asks for.
THEOREM ReusesParams ==
  ASSUME Written
  PROVE  Spec => []ReuseHasParams
<1>1. TypeInv /\ ParamsInv /\ ReuseInv /\ [Next]_vars
        => (TypeInv /\ ParamsInv /\ ReuseInv)'
  BY TypeNext, ParamsNext, ReuseNext
<1>2. ParamsInv /\ ReuseInv => ReuseHasParams
  BY DEF ParamsInv, Paired, ReuseInv, ReuseHasParams, KfHash
<1> QED BY <1>1, <1>2, TypeInit, ParamsInit, ReuseInit, PTL DEF Spec

-----------------------------------------------------------------------------
(* The film and the state saved with it *)

\* One job of the project at a time.
Alone == \A v, w \in Workers : v = w

\* The keyframe of a shot once the job's own are in the tree.
Shown(w, s) ==
    IF made[w].kf[s] # None /\ s \notin result[w].kf THEN made[w].kf[s]
    ELSE tree[w].kf[s]

\* The strengthening: from the scene loop on, every clip is of the authored image
\* or of the keyframe the saved tree will hold.
FilmOf(w) ==
    /\ pc[w] \in {"restore", "bundle"} \cup Planned => result[w].kf = {}
    /\ pc[w] \in Busy \ {"state", "respond"} => ~result[w].output
    /\ pc[w] \in {"loras", "keyframes", "film", "state", "respond"} =>
         \A s \in Shots : made[w].clip[s] \in {None, Authored, Shown(w, s)}
    /\ pc[w] \in {"film", "state", "respond"} =>
         Present(made[w].kf) \subseteq result[w].kf
    /\ pc[w] \in {"state", "respond"} /\ result[w].output =>
         film = made[w].clip /\ Present(film) # {}
    /\ pc[w] = "respond" => state = tree[w]

FilmInv == \A w \in Workers : FilmOf(w)

LEMMA FilmNext ==
  ASSUME Alone, TypeInv, FilmInv, [Next]_vars
  PROVE  FilmInv'
<1>1. ASSUME NEW w \in Workers, FilmOf(w)' PROVE FilmInv'
  <2>1. \A v \in Workers : v = w
    BY DEF Alone
  <2> QED BY <1>1, <2>1 DEF FilmInv
<1>2. ASSUME NEW w \in Workers, pc'[w] \in Resting PROVE FilmInv'
  BY <1>1, <1>2 DEF FilmOf, Resting, Busy, Planned
<1>3. ASSUME NEW w \in Workers, UNCHANGED result,
             pc[w] \in {"restore", "bundle"} \cup Planned,
             pc'[w] \in {"restore", "bundle"} \cup Planned
      PROVE  FilmInv'
  <2>1. FilmOf(w)'
    BY <1>3 DEF FilmInv, FilmOf, Busy, Planned
  <2> QED BY <1>1, <2>1
<1>4. ASSUME NEW w \in Workers, RenderScenes(w) PROVE FilmInv'
  <2>1. PICK unhashed \in SUBSET Drawn(w) :
          made' = [made EXCEPT
            ![w].kf   = [s \in Shots |-> IF s \in Drawn(w) THEN Draw(w, s)
                                         ELSE None],
            ![w].hash = [s \in Shots |-> IF s \in Drawn(w) \ unhashed
                                         THEN KfHash(req[w].config) ELSE None],
            ![w].clip = [s \in Shots |-> IF WantI2V(req[w])
                                         THEN ResolveKeyframe(w, s) ELSE None]]
    BY <1>4 DEF RenderScenes
  <2> DEFINE kf   == [s \in Shots |-> IF s \in Drawn(w) THEN Draw(w, s) ELSE None]
             hash == [s \in Shots |-> IF s \in Drawn(w) \ unhashed
                                      THEN KfHash(req[w].config) ELSE None]
             clip == [s \in Shots |-> IF WantI2V(req[w])
                                      THEN ResolveKeyframe(w, s) ELSE None]
  <2>2. made'[w].kf = kf /\ made'[w].clip = clip
    <3>1. made' = [made EXCEPT ![w].kf = kf, ![w].hash = hash, ![w].clip = clip]
      BY <2>1
    <3> HIDE DEF kf, hash, clip
    <3> QED BY <3>1 DEF TypeInv, TypeOK, Output
  <2>3. /\ pc[w] = "scenes" /\ pc'[w] = "loras" /\ UNCHANGED <<result, tree>>
        /\ result[w].kf = {} /\ ~result[w].output
    BY <1>4 DEF RenderScenes, Goto, TypeInv, TypeOK, FilmInv, FilmOf, Planned, Busy
  <2>4. ASSUME NEW s \in Shots
        PROVE  clip[s] \in {None, Authored,
                            IF kf[s] # None THEN kf[s] ELSE tree[w].kf[s]}
    BY DEF ResolveKeyframe, Drawn
  <2> HIDE DEF kf, hash, clip
  <2>5. \A s \in Shots : (made[w].clip[s] \in {None, Authored, Shown(w, s)})'
    BY <2>2, <2>3, <2>4 DEF Shown
  <2>6. FilmOf(w)'
    BY <2>3, <2>5 DEF FilmOf, Planned
  <2> QED BY <1>1, <2>6
<1>5. ASSUME NEW w \in Workers, NEW slot \in Slots, PutLora(w, slot)
      PROVE  FilmInv'
  <2>1. /\ result'[w].kf = result[w].kf /\ result'[w].output = result[w].output
        /\ tree'[w].kf = tree[w].kf
    BY <1>5 DEF PutLora, TypeInv, TypeOK, Result, Tree
  <2>2. FilmOf(w)'
    BY <1>5, <2>1 DEF PutLora, FilmInv, FilmOf, Shown, Planned
  <2> QED BY <1>1, <2>2
<1>6. ASSUME NEW w \in Workers, PassPretrained(w) PROVE FilmInv'
  <2>1. result'[w].kf = result[w].kf /\ result'[w].output = result[w].output
    BY <1>6 DEF PassPretrained, TypeInv, TypeOK, Result
  <2>2. pc[w] = "loras" /\ pc'[w] = "keyframes" /\ UNCHANGED <<made, tree, film, state>>
    BY <1>6 DEF PassPretrained, Goto, TypeInv, TypeOK, r2
  <2>3. FilmOf(w)'
    BY <2>1, <2>2 DEF FilmInv, FilmOf, Shown, Planned, Busy
  <2> QED BY <1>1, <2>3
<1>7. ASSUME NEW w \in Workers, NEW s \in Shots, PutKeyframe(w, s)
      PROVE  FilmInv'
  <2>1. /\ result'[w].kf = result[w].kf \cup {s}
        /\ result'[w].output = result[w].output
    BY <1>7 DEF PutKeyframe, TypeInv, TypeOK, Result
  <2>2. /\ tree'[w].kf[s] = made[w].kf[s]
        /\ \A t \in Shots \ {s} : tree'[w].kf[t] = tree[w].kf[t]
    BY <1>7 DEF PutKeyframe, TreeWithKeyframe, TypeInv, TypeOK, Tree
  <2>3. /\ pc[w] = "keyframes" /\ UNCHANGED <<made, pc>>
        /\ made[w].kf[s] # None /\ s \notin result[w].kf
    BY <1>7 DEF PutKeyframe, Present
  <2>4. \A t \in Shots : Shown(w, t)' = Shown(w, t)
    BY <2>1, <2>2, <2>3 DEF Shown
  <2>5. FilmOf(w)'
    BY <2>1, <2>3, <2>4 DEF FilmInv, FilmOf, Planned, Busy
  <2> QED BY <1>1, <2>5
<1>8. ASSUME NEW w \in Workers, KeyframesUp(w) PROVE FilmInv'
  <2>1. FilmOf(w)'
    BY <1>8 DEF KeyframesUp, Goto, FilmInv, FilmOf, Shown, Present, Planned, Busy,
       TypeInv, TypeOK
  <2> QED BY <1>1, <2>1
<1>9. ASSUME NEW w \in Workers, NEW s \in Shots, PutClip(w, s) PROVE FilmInv'
  <2>1. result'[w].kf = result[w].kf /\ result'[w].output = result[w].output
    BY <1>9 DEF PutClip, TypeInv, TypeOK, Result
  <2>2. FilmOf(w)'
    BY <1>9, <2>1 DEF PutClip, FilmInv, FilmOf, Shown, Present, Planned, Busy
  <2> QED BY <1>1, <2>2
<1>10. ASSUME NEW w \in Workers, PutManifest(w) \/ NoFilm(w) PROVE FilmInv'
  <2>1. result'[w].kf = result[w].kf /\ result'[w].output = result[w].output
    BY <1>10 DEF PutManifest, NoFilm, TypeInv, TypeOK, Result
  <2>2. /\ pc[w] = "film" /\ pc'[w] = "state" /\ ~result[w].output
        /\ UNCHANGED <<made, tree>>
    BY <1>10 DEF PutManifest, NoFilm, Goto, TypeInv, TypeOK, FilmInv, FilmOf, Busy
  <2>3. FilmOf(w)'
    BY <2>1, <2>2 DEF FilmInv, FilmOf, Shown, Present, Planned, Busy
  <2> QED BY <1>1, <2>3
<1>11. ASSUME NEW w \in Workers, PutFilm(w) PROVE FilmInv'
  <2>1. result'[w].kf = result[w].kf
    BY <1>11 DEF PutFilm, TypeInv, TypeOK, Result
  <2>2. /\ pc[w] = "film" /\ pc'[w] = "state" /\ film' = made[w].clip
        /\ Present(made[w].clip) # {} /\ UNCHANGED <<made, tree>>
    BY <1>11 DEF PutFilm, Goto, TypeInv, TypeOK
  <2>3. FilmOf(w)'
    BY <2>1, <2>2 DEF FilmInv, FilmOf, Shown, Present, Planned, Busy
  <2> QED BY <1>1, <2>3
<1>12. ASSUME NEW w \in Workers, PutState(w) PROVE FilmInv'
  <2>1. result'[w].kf = result[w].kf /\ result'[w].output = result[w].output
    BY <1>12 DEF PutState, TypeInv, TypeOK, Result
  <2>2. /\ pc[w] = "state" /\ pc'[w] = "respond" /\ state' = tree[w]
        /\ UNCHANGED <<made, tree, film>>
    BY <1>12 DEF PutState, SavedTree, Goto, TypeInv, TypeOK
  <2>3. FilmOf(w)'
    BY <2>1, <2>2 DEF FilmInv, FilmOf, Shown, Present, Planned, Busy
  <2> QED BY <1>1, <2>3
<1>13. ASSUME NEW w \in Workers, NEW r \in Requests, Receive(w, r) PROVE FilmInv'
  <2>1. pc'[w] = "restore" /\ result'[w] = NoResult
    BY <1>13 DEF Receive, TypeInv, TypeOK
  <2>2. FilmOf(w)'
    BY <2>1 DEF FilmOf, NoResult, Planned
  <2> QED BY <1>1, <2>2
<1>14. ASSUME NEW w \in Workers, Abort(w) PROVE FilmInv'
  BY <1>14, <1>2 DEF Abort, Resting, TypeInv, TypeOK
<1>15. ASSUME NEW w \in Workers, Step(w) PROVE FilmInv'
  <2>1. CASE RestoreState(w) \/ RestoreNothing(w) \/ RestorePart(w)
             \/ RestoreScanFails(w)
    <3>1. pc[w] = "restore" /\ pc'[w] = "bundle" /\ UNCHANGED result
      BY <2>1 DEF RestoreState, RestoreNothing, RestorePart, RestoreScanFails,
         Restored, Goto, TypeInv, TypeOK
    <3> QED BY <3>1, <1>3
  <2>2. CASE LoadBundle(w) \/ StageLoras(w) \/ Train(w)
    BY <2>2, <1>3 DEF LoadBundle, StageLoras, Train, Goto, Planned, TypeInv, TypeOK
  <2>3. CASE RejectJob(w) \/ StagingFails(w)
    BY <2>3, <1>14 DEF RejectJob, StagingFails
  <2>4. CASE Respond(w)
    BY <2>4, <1>2 DEF Respond, Goto, Resting, TypeInv, TypeOK
  <2> QED BY <1>4, <1>5, <1>6, <1>7, <1>8, <1>9, <1>10, <1>11, <1>12, <1>15, <2>1,
             <2>2, <2>3, <2>4 DEF Step
<1>16. ASSUME NEW w \in Workers, Crash(w) PROVE FilmInv'
  BY <1>16, <1>2 DEF Crash, Resting, TypeInv, TypeOK
<1>17. CASE UNCHANGED vars
  BY <1>17 DEF vars, FilmInv, FilmOf, Shown, Present
<1> QED BY <1>13, <1>14, <1>15, <1>16, <1>17 DEF Next, FailJob

LEMMA FilmInit == Init => FilmInv
BY DEF Init, FilmInv, FilmOf, Busy, Planned

\* While one job of the project runs at a time, a delivered film shows the
\* keyframes of the state saved with it, whatever failed or was lost before.
THEOREM FilmsShowSaved ==
  ASSUME Alone
  PROVE  Spec => []FilmShowsSavedKeyframes
<1>1. TypeInv /\ FilmInv /\ [Next]_vars => (TypeInv /\ FilmInv)'
  BY TypeNext, FilmNext
<1>2. TypeInv /\ FilmInv => FilmShowsSavedKeyframes
  <2> SUFFICES ASSUME TypeInv, FilmInv, NEW w \in Workers, NEW s \in Shots,
                      pc[w] = "respond", result[w].output
               PROVE  film[s] \in {None, Authored, Persisted.kf[s]}
    BY DEF FilmShowsSavedKeyframes
  <2>1. state = tree[w] /\ film = made[w].clip
    BY DEF FilmInv, FilmOf
  <2>2. Persisted = tree[w]
    BY <2>1, NoneAssumption DEF Persisted, TypeInv, TypeOK
  <2>3. made[w].clip[s] \in {None, Authored, Shown(w, s)}
    BY DEF FilmInv, FilmOf
  <2>4. Shown(w, s) = tree[w].kf[s]
    BY DEF FilmInv, FilmOf, Shown, Present
  <2> QED BY <2>1, <2>2, <2>3, <2>4
<1> QED BY <1>1, <1>2, TypeInit, FilmInit, PTL DEF Spec
-----------------------------------------------------------------------------
(* Every shot in the film *)

Finishing == {"loras", "keyframes", "film", "state", "respond"}

\* The shots of the film this job will not be excused for.
Asked(w) == InScope(req[w]) \ (req[w].start \ req[w].authored)

\* The plan covers them, and the scene loop has animated each that has a keyframe.
Covered(w) ==
    /\ pc[w] \in Planned /\ WantI2V(req[w]) => \A s \in Asked(w) :
         \/ plan[w].mode[s] \in {"generate", "reuse"}
         \/ plan[w].mode[s] = "inject" /\ s \in req[w].authored
    /\ pc[w] \in Finishing =>
         \/ Present(made[w].clip) = {}
         \/ \A s \in Asked(w) : Shown(w, s) # None => made[w].clip[s] # None

CoverInv == \A w \in Workers : Covered(w)

\* What _finish does leaves the clips and the keyframes to be shown as they are.
Settled(w) ==
    /\ pc[w] \in Finishing /\ pc'[w] \in Finishing
    /\ req' = req /\ made'[w].clip = made[w].clip
    /\ \A s \in Shots : Shown(w, s)' = Shown(w, s)

LEMMA SettledCovered ==
  ASSUME TypeInv, CoverInv, NEW w \in Workers, Settled(w)
  PROVE  Covered(w)'
<1>1. req[w] \in Requests
  BY DEF Settled, Finishing, TypeInv, Bound, Busy
<1>2. Asked(w) \subseteq Shots
  BY <1>1, RequestFields DEF Asked, InScope
<1>3. Asked(w)' = Asked(w) /\ Present(made[w].clip)' = Present(made[w].clip)
  BY DEF Settled, Asked, Present
<1>4. pc'[w] \notin Planned
  BY DEF Settled, Finishing, Planned
<1> QED BY <1>2, <1>3, <1>4 DEF CoverInv, Covered, Settled

\* Every shot a job is asked for is planned for, by a mode that finds what there is.
LEMMA PlanCovers ==
  ASSUME NEW r \in Requests, Valid(r), WantI2V(r), NEW trained, NEW existing, NEW hash,
         NEW s \in InScope(r) \ (r.start \ r.authored)
  PROVE  LET m == MakePlan(r, trained, existing, hash).mode[s]
         IN  m \in {"generate", "reuse"} \/ (m = "inject" /\ s \in r.authored)
<1>1. s \in Shots /\ s \in PlannedShots(r)
  BY RequestFields DEF InScope, PlannedShots
<1>2. MakePlan(r, trained, existing, hash).mode[s] = KeyframeMode(r, s, existing, hash)
  BY <1>1 DEF MakePlan
<1> QED BY <1>2 DEF KeyframeMode

LEMMA CoverNext ==
  ASSUME Alone, TypeInv, FilmInv, CoverInv, [Next]_vars
  PROVE  CoverInv'
<1>1. ASSUME NEW w \in Workers, Covered(w)' PROVE CoverInv'
  <2>1. \A v \in Workers : v = w
    BY DEF Alone
  <2> QED BY <1>1, <2>1 DEF CoverInv
<1>2. ASSUME NEW w \in Workers, pc'[w] \in Resting \cup {"restore", "bundle"}
      PROVE  CoverInv'
  BY <1>1, <1>2 DEF Covered, Resting, Planned, Finishing
<1>3. ASSUME NEW w \in Workers, UNCHANGED <<req, plan>>, pc[w] \in Planned,
             pc'[w] \in Planned
      PROVE  CoverInv'
  <2>1. pc'[w] \notin Finishing
    BY <1>3 DEF Planned, Finishing
  <2>2. Asked(w)' = Asked(w) /\ WantI2V(req[w])' = WantI2V(req[w])
    BY <1>3 DEF Asked, WantI2V
  <2>3. Covered(w)'
    BY <1>3, <2>1, <2>2 DEF CoverInv, Covered
  <2> QED BY <1>1, <2>3
<1>4. ASSUME NEW w \in Workers, Settled(w) PROVE CoverInv'
  BY <1>1, <1>4, SettledCovered
<1>5. ASSUME NEW w \in Workers, LoadBundle(w) PROVE CoverInv'
  <2> DEFINE p == MakePlan(req[w], known[w].trained, known[w].kf, tree[w].hash)
  <2>1. /\ pc'[w] = "stage" /\ plan'[w] = p /\ req' = req
        /\ req[w] \in Requests /\ Valid(req[w])
    BY <1>5 DEF LoadBundle, Goto, TypeInv, TypeOK, Bound, Busy
  <2>2. WantI2V(req[w]) => \A s \in Asked(w) :
          \/ p.mode[s] \in {"generate", "reuse"}
          \/ p.mode[s] = "inject" /\ s \in req[w].authored
    BY <2>1, PlanCovers DEF Asked
  <2> HIDE DEF p
  <2>3. Covered(w)'
    BY <2>1, <2>2 DEF Covered, Asked, WantI2V, Finishing
  <2> QED BY <1>1, <2>3
<1>6. ASSUME NEW w \in Workers, RenderScenes(w) PROVE CoverInv'
  <2> DEFINE kf   == [s \in Shots |-> IF s \in Drawn(w) THEN Draw(w, s) ELSE None]
             clip == [s \in Shots |-> IF WantI2V(req[w])
                                      THEN ResolveKeyframe(w, s) ELSE None]
  <2>1. made'[w].kf = kf /\ made'[w].clip = clip
    <3>1. PICK hash :
            made' = [made EXCEPT ![w].kf = kf, ![w].hash = hash, ![w].clip = clip]
      BY <1>6 DEF RenderScenes
    <3> HIDE DEF kf, clip
    <3> QED BY <3>1 DEF TypeInv, TypeOK, Output
  <2>2. /\ pc[w] = "scenes" /\ pc'[w] = "loras" /\ UNCHANGED <<req, result, tree>>
        /\ result[w].kf = {} /\ req[w] \in Requests
    BY <1>6 DEF RenderScenes, Goto, TypeInv, TypeOK, Bound, FilmInv, FilmOf, Planned, Busy
  <2>3. Asked(w) \subseteq Shots
    BY <2>2, RequestFields DEF Asked, InScope
  <2>4. \A s \in Shots : Shown(w, s)' = IF kf[s] # None THEN kf[s] ELSE tree[w].kf[s]
    BY <2>1, <2>2 DEF Shown
  <2>5. ASSUME WantI2V(req[w]), NEW s \in Asked(w), Shown(w, s)' # None
        PROVE  clip[s] # None
    <3>1. s \in Shots
      BY <2>3
    <3>2. \/ plan[w].mode[s] \in {"generate", "reuse"}
          \/ plan[w].mode[s] = "inject" /\ s \in req[w].authored
      BY <2>2, <2>5 DEF CoverInv, Covered, Planned
    <3>3. Authored # None /\ Draw(w, s) # None
      <4>1. Draw(w, s) \in Image
        BY <2>2, <3>1, DrawTyped DEF Busy
      <4> QED BY <4>1, NoneAssumption DEF Source
    <3>4. clip[s] = ResolveKeyframe(w, s)
      BY <2>5, <3>1
    <3>5. CASE plan[w].mode[s] = "generate"
      BY <3>3, <3>4, <3>5 DEF ResolveKeyframe
    <3>6. CASE plan[w].mode[s] = "inject" /\ s \in req[w].authored
      BY <3>3, <3>4, <3>6 DEF ResolveKeyframe
    <3>7. CASE plan[w].mode[s] = "reuse"
      <4>1. kf[s] = None
        BY <3>1, <3>7 DEF Drawn
      <4>2. tree[w].kf[s] # None
        BY <2>4, <2>5, <3>1, <4>1
      <4> QED BY <3>4, <3>7, <4>2 DEF ResolveKeyframe
    <3> QED BY <3>2, <3>5, <3>6, <3>7
  <2>6. ~WantI2V(req[w]) => Present(clip) = {}
    BY DEF Present
  <2> HIDE DEF kf, clip
  <2>7. Asked(w)' = Asked(w)
    BY <2>2 DEF Asked
  <2>8. Covered(w)'
    BY <2>1, <2>2, <2>5, <2>6, <2>7 DEF Covered, Planned, Present
  <2> QED BY <1>1, <2>8
<1>7. ASSUME NEW w \in Workers, NEW slot \in Slots, PutLora(w, slot) PROVE CoverInv'
  <2>1. Settled(w)
    BY <1>7 DEF PutLora, Settled, Shown, Finishing, TypeInv, TypeOK, Result, Tree
  <2> QED BY <1>4, <2>1
<1>8. ASSUME NEW w \in Workers, NEW s \in Shots, PutKeyframe(w, s) PROVE CoverInv'
  <2>1. /\ result'[w].kf = result[w].kf \cup {s}
        /\ tree'[w].kf[s] = made[w].kf[s]
        /\ \A t \in Shots \ {s} : tree'[w].kf[t] = tree[w].kf[t]
    BY <1>8 DEF PutKeyframe, TreeWithKeyframe, TypeInv, TypeOK, Result, Tree
  <2>2. /\ pc[w] = "keyframes" /\ UNCHANGED <<made, pc, req>>
        /\ made[w].kf[s] # None /\ s \notin result[w].kf
    BY <1>8 DEF PutKeyframe, Present
  <2>3. Settled(w)
    BY <2>1, <2>2 DEF Settled, Shown, Finishing
  <2> QED BY <1>4, <2>3
<1>9. ASSUME NEW w \in Workers, NEW s \in Shots, PutClip(w, s) PROVE CoverInv'
  <2>1. result'[w].kf = result[w].kf /\ UNCHANGED <<made, tree, pc, req>> /\ pc[w] = "film"
    BY <1>9 DEF PutClip, TypeInv, TypeOK, Result
  <2>2. Settled(w)
    BY <2>1 DEF Settled, Shown, Finishing
  <2> QED BY <1>4, <2>2
<1>10. ASSUME NEW w \in Workers,
              \/ PassPretrained(w) \/ KeyframesUp(w) \/ PutManifest(w) \/ PutFilm(w)
              \/ NoFilm(w) \/ PutState(w)
       PROVE  CoverInv'
  <2>1. /\ result'[w].kf = result[w].kf /\ UNCHANGED <<made, tree, req>>
        /\ pc[w] \in Finishing /\ pc'[w] \in Finishing
    BY <1>10 DEF PassPretrained, KeyframesUp, PutManifest, PutFilm, NoFilm, PutState, Goto,
       Finishing, TypeInv, TypeOK, Result
  <2>2. Settled(w)
    BY <2>1 DEF Settled, Shown
  <2> QED BY <1>4, <2>2
<1>11. ASSUME NEW w \in Workers, Step(w) PROVE CoverInv'
  <2>1. CASE \/ RestoreState(w) \/ RestoreNothing(w) \/ RestorePart(w)
             \/ RestoreScanFails(w)
    BY <2>1, <1>2 DEF RestoreState, RestoreNothing, RestorePart, RestoreScanFails,
       Restored, Goto, TypeInv, TypeOK
  <2>2. CASE StageLoras(w) \/ Train(w)
    BY <2>2, <1>3 DEF StageLoras, Train, Goto, Planned, TypeInv, TypeOK
  <2>3. CASE RejectJob(w) \/ StagingFails(w)
    BY <2>3, <1>2 DEF RejectJob, StagingFails, Abort, Resting, TypeInv, TypeOK
  <2>4. CASE Respond(w)
    BY <2>4, <1>2 DEF Respond, Goto, Resting, TypeInv, TypeOK
  <2> QED BY <1>5, <1>6, <1>7, <1>8, <1>9, <1>10, <1>11, <2>1, <2>2, <2>3, <2>4
          DEF Step
<1>12. ASSUME NEW w \in Workers, NEW r \in Requests, Receive(w, r) PROVE CoverInv'
  BY <1>12, <1>2 DEF Receive, TypeInv, TypeOK
<1>13. ASSUME NEW w \in Workers, FailJob(w) \/ Crash(w) PROVE CoverInv'
  BY <1>13, <1>2 DEF FailJob, Crash, Abort, Resting, TypeInv, TypeOK
<1>14. CASE UNCHANGED vars
  BY <1>14 DEF vars, CoverInv, Covered, Asked, Shown, Present, WantI2V
<1> QED BY <1>11, <1>12, <1>13, <1>14 DEF Next

LEMMA CoverInit == Init => CoverInv
BY DEF Init, CoverInv, Covered, Planned, Finishing

\* While one job of the project runs at a time, a delivered film has every shot the job
\* was asked for that the saved state has a keyframe of: no plan, restore failure or
\* history of failed jobs makes execute() drop one.
THEOREM FilmsComplete ==
  ASSUME Alone
  PROVE  Spec => []FilmHasEveryShot
<1>1. TypeInv /\ FilmInv /\ CoverInv /\ [Next]_vars => (TypeInv /\ FilmInv /\ CoverInv)'
  BY TypeNext, FilmNext, CoverNext
<1>2. TypeInv /\ FilmInv /\ CoverInv => FilmHasEveryShot
  <2> SUFFICES ASSUME TypeInv, FilmInv, CoverInv, NEW w \in Workers,
                      pc[w] = "respond", result[w].output, NEW s \in Asked(w),
                      Persisted.kf[s] # None
               PROVE  film[s] # None
    BY DEF FilmHasEveryShot, Asked
  <2>1. s \in Shots
    BY RequestFields DEF Asked, InScope, TypeInv, Bound, Busy
  <2>2. state = tree[w] /\ film = made[w].clip /\ Present(film) # {}
    BY DEF FilmInv, FilmOf
  <2>3. Persisted = tree[w]
    BY <2>2, NoneAssumption DEF Persisted, TypeInv, TypeOK
  <2>4. Shown(w, s) = tree[w].kf[s]
    BY <2>1 DEF FilmInv, FilmOf, Shown, Present
  <2> QED BY <2>2, <2>3, <2>4 DEF CoverInv, Covered, Finishing
<1> QED BY <1>1, <1>2, TypeInit, FilmInit, CoverInit, PTL DEF Spec

-----------------------------------------------------------------------------
(* The project state grows *)

\* One job at a time, and a state tar that is read whole whenever there is one.
Readable == Alone /\ "restore" \notin Faults /\ "extract" \notin Faults

\* The strengthening: what the one running job has in its work tree is no less
\* than what it would replace.
GrowInv ==
    \A w \in Workers :
        pc[w] \in Busy \ {"restore", "respond"} =>
            /\ Present(Persisted.kf) \subseteq Present(tree[w].kf)
            /\ Persisted.trained \subseteq tree[w].trained

LEMMA GrowNext ==
  ASSUME Readable, TypeInv, GrowInv, [Next]_vars
  PROVE  GrowInv'
<1>1. \A v, w \in Workers : v = w
  BY DEF Readable, Alone
<1>2. ASSUME NEW w \in Workers, pc'[w] \in Resting \cup {"restore", "respond"}
      PROVE  GrowInv'
  BY <1>1, <1>2 DEF GrowInv, Resting, Busy
<1>3. ASSUME NEW w \in Workers, pc[w] \in Busy \ {"restore", "respond"},
             UNCHANGED state,
             Present(tree[w].kf) \subseteq Present(tree'[w].kf),
             tree[w].trained \subseteq tree'[w].trained
      PROVE  GrowInv'
  BY <1>1, <1>3 DEF GrowInv, Persisted
<1>4. ASSUME NEW w \in Workers, NEW k, Restored(w, Persisted, k)
      PROVE  GrowInv'
  <2>1. tree'[w] = Persisted /\ UNCHANGED state
    BY <1>4 DEF Restored, r2, TypeInv, TypeOK
  <2> QED BY <1>1, <2>1 DEF GrowInv, Persisted
<1>5. ASSUME NEW w \in Workers, NEW slot \in Slots, PutLora(w, slot)
      PROVE  GrowInv'
  <2>1. tree'[w].kf = tree[w].kf /\ tree[w].trained \subseteq tree'[w].trained
    BY <1>5 DEF PutLora, TypeInv, TypeOK, Tree
  <2> QED BY <1>3, <1>5, <2>1 DEF PutLora, Present, Busy
<1>6. ASSUME NEW w \in Workers, NEW s \in Shots, PutKeyframe(w, s)
      PROVE  GrowInv'
  <2>1. /\ tree'[w].kf[s] = made[w].kf[s] /\ made[w].kf[s] # None
        /\ tree'[w].trained = tree[w].trained
        /\ \A t \in Shots \ {s} : tree'[w].kf[t] = tree[w].kf[t]
    BY <1>6 DEF PutKeyframe, Present, TreeWithKeyframe, TypeInv, TypeOK, Tree
  <2> QED BY <1>3, <1>6, <2>1 DEF PutKeyframe, Present, Busy
<1>7. ASSUME NEW w \in Workers, Abort(w) PROVE GrowInv'
  BY <1>7, <1>2 DEF Abort, Resting, TypeInv, TypeOK
<1>8. ASSUME NEW w \in Workers, Step(w) PROVE GrowInv'
  <2>1. CASE RestoreState(w) \/ RestoreNothing(w) \/ RestoreScanFails(w)
    BY <2>1, <1>4 DEF RestoreState, RestoreNothing, RestoreScanFails, Persisted,
       Readable
  <2>2. ~RestorePart(w)
    BY DEF RestorePart, Readable
  <2>3. CASE LoadBundle(w) \/ StageLoras(w) \/ Train(w) \/ RenderScenes(w)
             \/ PassPretrained(w) \/ KeyframesUp(w) \/ PutManifest(w)
             \/ PutFilm(w) \/ NoFilm(w)
    BY <2>3, <1>3 DEF LoadBundle, StageLoras, Train, RenderScenes, PassPretrained,
       KeyframesUp, PutManifest, PutFilm, NoFilm, Goto, r2, Busy
  <2>4. CASE RejectJob(w) \/ StagingFails(w)
    BY <2>4, <1>7 DEF RejectJob, StagingFails
  <2>5. CASE PutState(w) \/ Respond(w)
    BY <2>5, <1>2 DEF PutState, Respond, Goto, Resting, TypeInv, TypeOK
  <2>6. CASE \E s \in Shots : PutClip(w, s)
    BY <2>6, <1>3 DEF PutClip, Busy
  <2> QED BY <1>5, <1>6, <1>8, <2>1, <2>2, <2>3, <2>4, <2>5, <2>6 DEF Step
<1>9. ASSUME NEW w \in Workers, Crash(w) PROVE GrowInv'
  BY <1>9, <1>2 DEF Crash, Resting, TypeInv, TypeOK
<1>10. ASSUME NEW w \in Workers, NEW r \in Requests, Receive(w, r) PROVE GrowInv'
  BY <1>10, <1>2 DEF Receive, TypeInv, TypeOK
<1>11. CASE UNCHANGED vars
  BY <1>11 DEF vars, GrowInv, Persisted
<1> QED BY <1>7, <1>8, <1>9, <1>10, <1>11 DEF Next, FailJob

LEMMA GrowInit == Init => GrowInv
BY DEF Init, GrowInv, Busy

\* The project state is written by one action, with the work tree of its worker.
LEMMA StateWritten ==
  ASSUME TypeInv, [Next]_vars
  PROVE  \/ UNCHANGED state
         \/ \E w \in Workers : /\ PutState(w) /\ pc[w] = "state"
                               /\ state' = tree[w] /\ tree[w] \in Tree
<1>1. ASSUME NEW w \in Workers, Step(w), ~PutState(w) PROVE UNCHANGED state
  <2>1. CASE \/ RestoreState(w) \/ RestoreNothing(w) \/ RestorePart(w)
             \/ RestoreScanFails(w) \/ LoadBundle(w) \/ StageLoras(w) \/ Train(w)
             \/ RenderScenes(w) \/ PassPretrained(w) \/ KeyframesUp(w)
             \/ PutManifest(w) \/ PutFilm(w) \/ NoFilm(w) \/ Respond(w)
    BY <2>1 DEF RestoreState, RestoreNothing, RestorePart, RestoreScanFails,
       Restored, LoadBundle, StageLoras, Train, RenderScenes, PassPretrained,
       KeyframesUp, PutManifest, PutFilm, NoFilm, Respond, r2
  <2>2. CASE RejectJob(w) \/ StagingFails(w)
    BY <2>2 DEF RejectJob, StagingFails, Abort, r2
  <2>3. CASE \/ \E slot \in Slots : PutLora(w, slot)
             \/ \E s \in Shots : PutKeyframe(w, s) \/ PutClip(w, s)
    BY <2>3 DEF PutLora, PutKeyframe, PutClip
  <2> QED BY <1>1, <2>1, <2>2, <2>3 DEF Step
<1>2. ASSUME NEW w \in Workers, FailJob(w) \/ Crash(w) PROVE UNCHANGED state
  BY <1>2 DEF FailJob, Crash, Abort, r2
<1>3. ASSUME NEW w \in Workers, NEW r \in Requests, Receive(w, r)
      PROVE  UNCHANGED state
  BY <1>3 DEF Receive, r2
<1>4. ASSUME NEW w \in Workers, PutState(w)
      PROVE  pc[w] = "state" /\ state' = tree[w] /\ tree[w] \in Tree
  BY <1>4 DEF PutState, SavedTree, Goto, TypeInv, TypeOK
<1>5. CASE UNCHANGED vars
  BY <1>5 DEF vars
<1> QED BY <1>1, <1>2, <1>3, <1>4, <1>5 DEF Next

\* While one job of the project runs at a time over a state tar it can read, no
\* keyframe and no training marker is ever lost from the project state: whatever
\* models and parameters the jobs ask for, whichever call fails or process dies, and
\* whether or not hash files are written and the restored keyframes are all listed.
THEOREM StateGrows ==
  ASSUME Readable
  PROVE  Spec => StateOnlyGrows
<1>1. TypeInv /\ GrowInv /\ [Next]_vars => (TypeInv /\ GrowInv)'
  BY TypeNext, GrowNext
<1>2. TypeInv /\ GrowInv /\ [Next]_vars =>
        [/\ Present(Persisted.kf) \subseteq Present(Persisted'.kf)
         /\ Persisted.trained \subseteq Persisted'.trained]_vars
  <2> SUFFICES ASSUME TypeInv, GrowInv, [Next]_vars
               PROVE  /\ Present(Persisted.kf) \subseteq Present(Persisted'.kf)
                      /\ Persisted.trained \subseteq Persisted'.trained
    OBVIOUS
  <2>1. CASE UNCHANGED state
    BY <2>1 DEF Persisted
  <2>2. ASSUME NEW w \in Workers, pc[w] = "state", state' = tree[w],
               tree[w] \in Tree
        PROVE  /\ Present(Persisted.kf) \subseteq Present(Persisted'.kf)
               /\ Persisted.trained \subseteq Persisted'.trained
    BY <2>2, NoneAssumption DEF Persisted, GrowInv, Busy
  <2> QED BY <2>1, <2>2, StateWritten
<1> QED BY <1>1, <1>2, TypeInit, GrowInit, PTL DEF Spec, StateOnlyGrows

-----------------------------------------------------------------------------
(* The ledger *)

\* One job at a time over a state tar it can read, one model, and hash files that
\* are written.
Orderly == Readable /\ Faithful

\* What a ledger may make of a shot: nothing, or a new keyframe with its hash.
KeptOrDrawn(w, s) ==
    \/ tree[w].kf[s] = Persisted.kf[s] /\ tree[w].hash[s] = Persisted.hash[s]
    \/ tree[w].kf[s] \in Image /\ tree[w].hash[s] = HashOf(tree[w].kf[s])

\* The strengthening: with GrowInv, the work tree of the one running job is always a
\* publication the ledger allows.
LedgerInv ==
    \A w \in Workers :
        pc[w] \in Busy \ {"restore", "respond"} => \A s \in Shots : KeptOrDrawn(w, s)

LEMMA LedgerNext ==
  ASSUME Orderly, TypeInv, HashInv, LedgerInv, [Next]_vars
  PROVE  LedgerInv'
<1>1. \A v, w \in Workers : v = w
  BY DEF Orderly, Readable, Alone
<1>2. ASSUME NEW w \in Workers, pc'[w] \in Resting \cup {"restore", "respond"}
      PROVE  LedgerInv'
  BY <1>1, <1>2 DEF LedgerInv, Resting, Busy
<1>3. ASSUME NEW w \in Workers, pc[w] \in Busy \ {"restore", "respond"},
             UNCHANGED <<tree, state>>
      PROVE  LedgerInv'
  BY <1>1, <1>3 DEF LedgerInv, KeptOrDrawn, Persisted
<1>4. ASSUME NEW w \in Workers, NEW k, Restored(w, Persisted, k)
      PROVE  LedgerInv'
  <2>1. tree'[w] = Persisted /\ UNCHANGED state
    BY <1>4 DEF Restored, r2, TypeInv, TypeOK
  <2> QED BY <1>1, <2>1 DEF LedgerInv, KeptOrDrawn, Persisted
<1>5. ASSUME NEW w \in Workers, NEW slot \in Slots, PutLora(w, slot)
      PROVE  LedgerInv'
  <2>1. /\ tree'[w].kf = tree[w].kf /\ tree'[w].hash = tree[w].hash
        /\ pc[w] = "loras" /\ UNCHANGED state
    BY <1>5 DEF PutLora, TypeInv, TypeOK, Tree
  <2> QED BY <1>1, <2>1 DEF LedgerInv, KeptOrDrawn, Persisted, Busy
<1>6. ASSUME NEW w \in Workers, NEW s \in Shots, PutKeyframe(w, s)
      PROVE  LedgerInv'
  <2>1. /\ made[w].kf[s] \in Image
        /\ made[w].hash[s] = HashOf(made[w].kf[s]) /\ made[w].hash[s] # None
    BY <1>6 DEF PutKeyframe, Present, HashInv, TypeInv, TypeOK, Output
  <2>2. /\ tree'[w].kf[s] = made[w].kf[s] /\ tree'[w].hash[s] = made[w].hash[s]
        /\ \A t \in Shots \ {s} : /\ tree'[w].kf[t] = tree[w].kf[t]
                                  /\ tree'[w].hash[t] = tree[w].hash[t]
    BY <1>6, <2>1 DEF PutKeyframe, TreeWithKeyframe, TypeInv, TypeOK, Tree
  <2>3. pc[w] = "keyframes" /\ UNCHANGED <<state, pc>>
    BY <1>6 DEF PutKeyframe
  <2>4. KeptOrDrawn(w, s)'
    BY <2>1, <2>2 DEF KeptOrDrawn, HashOf
  <2>5. \A t \in Shots \ {s} : KeptOrDrawn(w, t)'
    BY <2>2, <2>3 DEF LedgerInv, KeptOrDrawn, Persisted, Busy
  <2> QED BY <1>1, <2>4, <2>5 DEF LedgerInv
<1>7. ASSUME NEW w \in Workers, Abort(w) PROVE LedgerInv'
  BY <1>7, <1>2 DEF Abort, Resting, TypeInv, TypeOK
<1>8. ASSUME NEW w \in Workers, Step(w) PROVE LedgerInv'
  <2>1. CASE RestoreState(w) \/ RestoreNothing(w) \/ RestoreScanFails(w)
    BY <2>1, <1>4 DEF RestoreState, RestoreNothing, RestoreScanFails, Persisted,
       Orderly, Readable
  <2>2. ~RestorePart(w)
    BY DEF RestorePart, Orderly, Readable
  <2>3. CASE LoadBundle(w) \/ StageLoras(w) \/ Train(w) \/ RenderScenes(w)
             \/ PassPretrained(w) \/ KeyframesUp(w) \/ PutManifest(w)
             \/ PutFilm(w) \/ NoFilm(w)
    BY <2>3, <1>3 DEF LoadBundle, StageLoras, Train, RenderScenes, PassPretrained,
       KeyframesUp, PutManifest, PutFilm, NoFilm, Goto, r2, Busy
  <2>4. CASE RejectJob(w) \/ StagingFails(w)
    BY <2>4, <1>7 DEF RejectJob, StagingFails
  <2>5. CASE PutState(w) \/ Respond(w)
    BY <2>5, <1>2 DEF PutState, Respond, Goto, Resting, TypeInv, TypeOK
  <2>6. CASE \E s \in Shots : PutClip(w, s)
    BY <2>6, <1>3 DEF PutClip, Busy
  <2> QED BY <1>5, <1>6, <1>8, <2>1, <2>2, <2>3, <2>4, <2>5, <2>6 DEF Step
<1>9. ASSUME NEW w \in Workers, Crash(w) PROVE LedgerInv'
  BY <1>9, <1>2 DEF Crash, Resting, TypeInv, TypeOK
<1>10. ASSUME NEW w \in Workers, NEW r \in Requests, Receive(w, r) PROVE LedgerInv'
  BY <1>10, <1>2 DEF Receive, TypeInv, TypeOK
<1>11. CASE UNCHANGED vars
  BY <1>11 DEF vars, LedgerInv, KeptOrDrawn, Persisted
<1> QED BY <1>7, <1>8, <1>9, <1>10, <1>11 DEF Next, FailJob

LEMMA LedgerInit == Init => LedgerInv
BY DEF Init, LedgerInv, Busy

\* Every step is one of the ledger's: an adapter, a publication, or nothing.
LEMMA LedgerStep ==
  ASSUME TypeInv, MarkerInv, GrowInv, LedgerInv, [Next]_vars
  PROVE  [Ledger!Next]_(Ledger!vars)
<1>1. ASSUME UNCHANGED <<state, adapters>> PROVE [Ledger!Next]_(Ledger!vars)
  BY <1>1 DEF Ledger!vars
<1>2. ASSUME NEW w \in Workers, NEW slot \in Slots, PutLora(w, slot)
      PROVE  [Ledger!Next]_(Ledger!vars)
  BY <1>2 DEF PutLora, Ledger!Next, Ledger!AddAdapter
<1>3. ASSUME NEW w \in Workers, PutState(w) PROVE [Ledger!Next]_(Ledger!vars)
  <2>1. state' = tree[w] /\ tree[w] \in Tree /\ UNCHANGED adapters
        /\ pc[w] = "state"
    BY <1>3 DEF PutState, SavedTree, Goto, TypeInv, TypeOK
  <2>2. Ledger!Current = Persisted
    BY DEF Ledger!Current, Ledger!Nothing, Persisted, NoTree
  <2>3. /\ Persisted.trained \subseteq tree[w].trained
        /\ \A s \in Shots : KeptOrDrawn(w, s)
    BY <2>1 DEF GrowInv, LedgerInv, Busy
  <2>4. tree[w].trained \subseteq adapters
    BY DEF MarkerInv
  <2>5. DOMAIN tree[w].kf = Shots /\ DOMAIN tree[w].hash = Shots
    BY <2>1 DEF Tree
  <2>6. Ledger!Publish
    BY <2>1, <2>2, <2>3, <2>4, <2>5, NoneAssumption DEF Ledger!Publish, KeptOrDrawn
  <2> QED BY <2>6 DEF Ledger!Next
<1>4. ASSUME NEW w \in Workers, Step(w) PROVE [Ledger!Next]_(Ledger!vars)
  <2>1. CASE \/ RestoreState(w) \/ RestoreNothing(w) \/ RestorePart(w)
             \/ RestoreScanFails(w) \/ LoadBundle(w) \/ StageLoras(w) \/ Train(w)
             \/ RenderScenes(w) \/ PassPretrained(w) \/ KeyframesUp(w)
             \/ PutManifest(w) \/ PutFilm(w) \/ NoFilm(w) \/ Respond(w)
             \/ (\E s \in Shots : PutKeyframe(w, s))
             \/ \E s \in Shots : PutClip(w, s)
    BY <2>1, <1>1 DEF RestoreState, RestoreNothing, RestorePart, RestoreScanFails,
       Restored, LoadBundle, StageLoras, Train, RenderScenes, PassPretrained,
       KeyframesUp, PutManifest, PutFilm, NoFilm, Respond, PutKeyframe, PutClip, r2
  <2>2. CASE RejectJob(w) \/ StagingFails(w)
    BY <2>2, <1>1 DEF RejectJob, StagingFails, Abort, r2
  <2> QED BY <1>2, <1>3, <1>4, <2>1, <2>2 DEF Step
<1>5. ASSUME NEW w \in Workers, FailJob(w) \/ Crash(w)
      PROVE  [Ledger!Next]_(Ledger!vars)
  BY <1>5, <1>1 DEF FailJob, Crash, Abort, r2
<1>6. ASSUME NEW w \in Workers, NEW r \in Requests, Receive(w, r)
      PROVE  [Ledger!Next]_(Ledger!vars)
  BY <1>6, <1>1 DEF Receive, r2
<1>7. CASE UNCHANGED vars
  BY <1>7, <1>1 DEF vars
<1> QED BY <1>4, <1>5, <1>6, <1>7 DEF Next

\* Jobs that run one at a time, with a state tar that can be read, implement the
\* ledger: whatever fails or dies, the project state loses no keyframe and no
\* marker, pairs every new keyframe with its hash, and marks only what is there.
THEOREM ImplementsLedger ==
  ASSUME Orderly
  PROVE  Spec => LedgerSpec
<1>1. Init => Ledger!Init
  BY DEF Init, Ledger!Init
<1>2. TypeInv /\ ParamsInv /\ MarkerInv /\ GrowInv /\ LedgerInv /\ [Next]_vars
        => (TypeInv /\ ParamsInv /\ MarkerInv /\ GrowInv /\ LedgerInv)'
  BY TypeNext, ParamsNext, HashFollows, MarkerNext, GrowNext, LedgerNext
     DEF Orderly, Faithful
<1>3. TypeInv /\ MarkerInv /\ GrowInv /\ LedgerInv /\ [Next]_vars
        => [Ledger!Next]_(Ledger!vars)
  BY LedgerStep
<1> QED BY <1>1, <1>2, <1>3, TypeInit, ParamsInit, MarkerInit, GrowInit,
        LedgerInit, PTL
        DEF Spec, LedgerSpec, Ledger!Spec
-----------------------------------------------------------------------------
(* The steps left *)

Rank(p) ==
    IF p = "restore" THEN 10 ELSE IF p = "bundle" THEN 9 ELSE IF p = "stage" THEN 8
    ELSE IF p = "train" THEN 7 ELSE IF p = "scenes" THEN 6
    ELSE IF p = "loras" THEN 5 ELSE IF p = "keyframes" THEN 4
    ELSE IF p = "film" THEN 3 ELSE IF p = "state" THEN 2
    ELSE IF p = "respond" THEN 1 ELSE 0

\* What the job has still to upload before it can leave the point where it is.
ToUpload(w) ==
    IF pc[w] = "loras" THEN made[w].lora \ result[w].lora
    ELSE IF pc[w] = "keyframes" THEN Present(made[w].kf) \ result[w].kf
    ELSE IF pc[w] = "film" THEN Present(made[w].clip) \ result[w].clips
    ELSE {}

\* The job goes on to a later point, or has one upload fewer to make: a descent, as
\* long as shots and slots are finitely many.
MovesOn(w) ==
    \/ Rank(pc'[w]) < Rank(pc[w])
    \/ /\ pc'[w] = pc[w]
       /\ ToUpload(w)' \subseteq ToUpload(w) /\ ToUpload(w)' # ToUpload(w)

Same(w) ==
    /\ pc'[w] = pc[w] /\ made'[w] = made[w] /\ result'[w] = result[w]

LEMMA StepOwn ==
  ASSUME TypeInv, NEW v \in Workers, NEW w \in Workers, v # w,
         Step(v) \/ FailJob(v) \/ Crash(v) \/ \E r \in Requests : Receive(v, r)
  PROVE  Same(w)
<1> USE DEF TypeInv, TypeOK, Goto, Same
<1>1. CASE Abort(v)
  BY <1>1 DEF Abort, DropJob
<1>2. CASE RestoreState(v) \/ RestoreNothing(v) \/ RestorePart(v) \/ RestoreScanFails(v)
  BY <1>2 DEF RestoreState, RestoreNothing, RestorePart, RestoreScanFails, Restored
<1>3. CASE LoadBundle(v) \/ StageLoras(v) \/ Train(v)
  BY <1>3 DEF LoadBundle, StageLoras, Train
<1>4. CASE RenderScenes(v)
  BY <1>4 DEF RenderScenes
<1>5. ASSUME NEW slot \in Slots, PutLora(v, slot) PROVE Same(w)
  BY <1>5 DEF PutLora
<1>6. ASSUME NEW s \in Shots, PutKeyframe(v, s) \/ PutClip(v, s) PROVE Same(w)
  BY <1>6 DEF PutKeyframe, PutClip
<1>7. CASE PassPretrained(v) \/ KeyframesUp(v) \/ PutManifest(v) \/ PutFilm(v) \/ NoFilm(v)
  BY <1>7 DEF PassPretrained, KeyframesUp, PutManifest, PutFilm, NoFilm
<1>8. CASE PutState(v) \/ Respond(v)
  BY <1>8 DEF PutState, Respond, DropJob
<1>9. CASE Crash(v) \/ \E r \in Requests : Receive(v, r)
  BY <1>9 DEF Crash, Receive, DropJob
<1> QED BY <1>1, <1>2, <1>3, <1>4, <1>5, <1>6, <1>7, <1>8, <1>9
        DEF Step, RejectJob, StagingFails, FailJob

LEMMA StepMovesOn ==
  ASSUME TypeInv, NEW w \in Workers, Step(w)
  PROVE  MovesOn(w)
<1> USE DEF TypeInv, TypeOK
<1>1. ASSUME NEW from, NEW to, Goto(w, from, to),
             <<from, to>> \in
               {<<"restore", "bundle">>, <<"bundle", "stage">>, <<"stage", "train">>,
                <<"train", "scenes">>, <<"scenes", "loras">>, <<"loras", "keyframes">>,
                <<"keyframes", "film">>, <<"film", "state">>, <<"state", "respond">>,
                <<"respond", "done">>}
      PROVE  MovesOn(w)
  <2>1. pc[w] = from /\ pc'[w] = to
    BY <1>1 DEF Goto
  <2> QED BY <1>1, <2>1 DEF MovesOn, Rank
<1>2. CASE RejectJob(w) \/ StagingFails(w)
  BY <1>2 DEF RejectJob, StagingFails, Abort, MovesOn, Rank
<1>3. CASE RestoreState(w) \/ RestoreNothing(w) \/ RestorePart(w) \/ RestoreScanFails(w)
  BY <1>1, <1>3 DEF RestoreState, RestoreNothing, RestorePart, RestoreScanFails, Restored
<1>4. CASE LoadBundle(w) \/ StageLoras(w) \/ Train(w) \/ RenderScenes(w)
  BY <1>1, <1>4 DEF LoadBundle, StageLoras, Train, RenderScenes
<1>5. CASE \/ PassPretrained(w) \/ KeyframesUp(w) \/ PutManifest(w) \/ PutFilm(w)
           \/ NoFilm(w) \/ PutState(w) \/ Respond(w)
  BY <1>1, <1>5 DEF PassPretrained, KeyframesUp, PutManifest, PutFilm, NoFilm, PutState,
     Respond
<1>6. ASSUME NEW slot \in Slots, PutLora(w, slot) PROVE MovesOn(w)
  <2>1. /\ pc[w] = "loras" /\ pc'[w] = pc[w] /\ made' = made
        /\ slot \in made[w].lora /\ slot \notin result[w].lora
        /\ result'[w].lora = result[w].lora \cup {slot}
    BY <1>6 DEF PutLora, Result
  <2> QED BY <2>1 DEF MovesOn, ToUpload
<1>7. ASSUME NEW s \in Shots, PutKeyframe(w, s) PROVE MovesOn(w)
  <2>1. /\ pc[w] = "keyframes" /\ pc'[w] = pc[w] /\ made' = made
        /\ s \in Present(made[w].kf) /\ s \notin result[w].kf
        /\ result'[w].kf = result[w].kf \cup {s}
    BY <1>7 DEF PutKeyframe, Result
  <2> QED BY <2>1 DEF MovesOn, ToUpload, Present
<1>8. ASSUME NEW s \in Shots, PutClip(w, s) PROVE MovesOn(w)
  <2>1. /\ pc[w] = "film" /\ pc'[w] = pc[w] /\ made' = made
        /\ s \in Present(made[w].clip) /\ s \notin result[w].clips
        /\ result'[w].clips = result[w].clips \cup {s}
    BY <1>8 DEF PutClip, Result
  <2> QED BY <2>1 DEF MovesOn, ToUpload, Present
<1> QED BY <1>2, <1>3, <1>4, <1>5, <1>6, <1>7, <1>8 DEF Step

\* A job goes forward with each of its steps and nothing another job does sets it back,
\* for any number of concurrent workers and every fault: no job goes round in a circle.
THEOREM JobsMoveOn ==
  Spec => [][\A w \in Workers :
               /\ Step(w) => MovesOn(w)
               /\ pc[w] \in Busy =>
                    MovesOn(w) \/ (pc'[w] = pc[w] /\ ToUpload(w)' = ToUpload(w))]_vars
<1> DEFINE Forward(w) ==
      /\ Step(w) => MovesOn(w)
      /\ pc[w] \in Busy => MovesOn(w) \/ (pc'[w] = pc[w] /\ ToUpload(w)' = ToUpload(w))
<1>1. ASSUME TypeInv, Next, NEW w \in Workers PROVE Forward(w)
  <2>1. Step(w) => MovesOn(w)
    BY <1>1, StepMovesOn
  <2>2. ASSUME FailJob(w) \/ Crash(w), pc[w] \in Busy PROVE MovesOn(w)
    <3>1. pc'[w] \in {"idle", "failed"}
      BY <1>1, <2>2 DEF FailJob, Crash, Abort, TypeInv, TypeOK
    <3> QED BY <2>2, <3>1 DEF MovesOn, Rank, Busy
  <2>3. ASSUME NEW r \in Requests, Receive(w, r) PROVE pc[w] \notin Busy
    BY <2>3 DEF Receive, Resting, Busy
  <2>4. ASSUME Same(w) PROVE pc'[w] = pc[w] /\ ToUpload(w)' = ToUpload(w)
    BY <2>4 DEF Same, ToUpload
  <2> QED BY <1>1, <2>1, <2>2, <2>3, <2>4, StepOwn DEF Next
<1> HIDE DEF Forward
<1>2. TypeInv /\ [Next]_vars => [\A w \in Workers : Forward(w)]_vars
  BY <1>1
<1> QED BY <1>2, TypeInvariant, PTL DEF Spec, Forward
=============================================================================
