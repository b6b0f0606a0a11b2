------------------------- MODULE UseMediaStreamProofs -------------------------
(***************************************************************************)
(* Proofs about UseMediaStream, for any number of retries: which streams   *)
(* are adopted, which may be on, and how often the camera is asked for.    *)
(***************************************************************************)
EXTENDS UseMediaStream, TLAPS

\* Runs are positive numbers, and there is room for the two of strict mode.
LEMMA RunTypes ==
  /\ \A r \in Runs : r \in Nat /\ r > 0
  /\ 1 \in Runs /\ 2 \in Runs
  BY MediaConstants DEF Runs

\* TypeOK is inductive.
LEMMA TypeInit == Init => TypeOK
  BY RunTypes DEF Init, TypeOK, States, FirstRender, NoStream

LEMMA TypeStep == TypeOK /\ [Next]_vars => TypeOK'
  <1> SUFFICES ASSUME TypeOK, [Next]_vars
               PROVE  TypeOK'
    OBVIOUS
  <1> USE DEF TypeOK, States, runVars
  <1>1. CASE Render
    BY <1>1 DEF Render
  <1>2. CASE retry
    BY <1>2 DEF retry
  <1>3. CASE Effect
    BY <1>3 DEF Effect, CleanedUp, Disowned, Deps
  <1>4. CASE StrictEffect
    BY <1>4, RunTypes DEF StrictEffect, Deps
  <1>5. CASE Unmount
    BY <1>5 DEF Unmount, CleanedUp, Disowned
  <1>6. ASSUME NEW r \in Runs, Granted(r)
        PROVE  TypeOK'
    <2>1. latest' \in States
      BY <1>6 DEF Granted, setState
    <2>2. latest'.stream \in Runs \cup {NoStream}
      BY <2>1
    <2>3. adopted' \subseteq Runs \cup {NoStream}
      BY <1>6, <2>2 DEF Granted, setState
    <2>4. QED
      BY <1>6, <2>1, <2>3 DEF Granted
  <1>7. ASSUME NEW r \in Runs, Denied(r)
        PROVE  TypeOK'
    <2>1. latest' \in States
      BY <1>7 DEF Denied, setState, Failed
    <2>2. latest'.stream \in Runs \cup {NoStream}
      BY <2>1
    <2>3. adopted' \subseteq Runs \cup {NoStream}
      BY <1>7, <2>2 DEF Denied, setState
    <2>4. QED
      BY <1>7, <2>1, <2>3 DEF Denied
  <1>8. CASE UNCHANGED vars
    BY <1>8 DEF vars
  <1>9. QED
    BY <1>1, <1>2, <1>3, <1>4, <1>5, <1>6, <1>7, <1>8 DEF Next

\* The states, flags and requests of useMediaStream are well typed.
THEOREM MediaTypeCorrect == Spec => []TypeOK
  BY TypeInit, TypeStep, PTL DEF Spec

-----------------------------------------------------------------------------
(* Late answers *)

\* What an answer leaves of the state.
LEMMA GrantedState ==
  ASSUME TypeOK, NEW r \in Runs, Granted(r)
  PROVE  /\ latest'.retryCount = latest.retryCount
         /\ \/ r \notin isMounted /\ latest' = latest /\ video' = video
            \/ r \in isMounted /\ host # "mounted"
            \/ /\ r \in isMounted /\ latest'.stream = r /\ video' = r
               /\ latest'.isReady /\ ~ latest'.error
  <1>1. CASE r \in isMounted /\ host = "mounted"
    <2>1. latest' = [latest EXCEPT !.stream = r, !.error = FALSE, !.isReady = TRUE]
          /\ video' = r
      BY <1>1 DEF Granted, setState
    <2>2. QED
      BY <1>1, <2>1 DEF TypeOK, States
  <1>2. CASE r \in isMounted /\ host # "mounted"
    BY <1>2 DEF Granted, setState
  <1>3. CASE r \notin isMounted
    BY <1>3 DEF Granted
  <1>4. QED
    BY <1>1, <1>2, <1>3

LEMMA DeniedState ==
  ASSUME TypeOK, NEW r \in Runs, Denied(r)
  PROVE  /\ latest'.retryCount = latest.retryCount /\ latest'.stream = latest.stream
         /\ latest' = latest \/ ~ latest'.isReady
         /\ video' = video
  <1>1. CASE host = "mounted"
    BY <1>1 DEF Denied, setState, Failed, TypeOK, States
  <1>2. CASE host # "mounted"
    BY <1>2 DEF Denied, setState
  <1>3. QED
    BY <1>1, <1>2

\* Only the last run of a mounted component owns its answer.
Owned == \A r \in Runs : r \in isMounted => r = run /\ host = "mounted"

MediaInv == TypeOK /\ Owned /\ CamerasKnown /\ ReadyHasStream

LEMMA MediaInit == Init => MediaInv
  BY TypeInit, RunTypes DEF Init, MediaInv, Owned, CamerasKnown, ReadyHasStream,
     FirstRender, NoStream

LEMMA MediaStep == MediaInv /\ [Next]_vars => MediaInv'
  <1> SUFFICES ASSUME MediaInv, [Next]_vars
               PROVE  Owned' /\ CamerasKnown' /\ ReadyHasStream'
    BY TypeStep DEF MediaInv
  <1> USE RunTypes DEF MediaInv, TypeOK, States, NoStream, Owned, CamerasKnown,
              ReadyHasStream, runVars
  <1>1. CASE Render
    BY <1>1 DEF Render
  <1>2. CASE retry
    BY <1>2 DEF retry
  <1>3. CASE Effect
    <2>1. /\ run' = run + 1 /\ host' = host /\ host = "mounted"
          /\ latest' = latest /\ adopted' = adopted
      BY <1>3 DEF Effect, EffectPending
    <2>2. \A r \in Runs : r \in isMounted' => r = run'
      <3>1. isMounted' = (isMounted \ {run}) \cup {run + 1}
        BY <1>3 DEF Effect, Disowned
      <3>2. \A r \in Runs : r # run + 1 /\ r \in isMounted' => r \in isMounted /\ r # run
        BY <3>1
      <3>3. QED
        BY <2>1, <3>2
    <2>3. \A r \in Runs : camera'[r] = "live" => camera[r] = "live"
      BY <1>3 DEF Effect, CleanedUp
    <2>4. QED
      BY <2>1, <2>2, <2>3
  <1>4. CASE StrictEffect
    <2>1. /\ run' = 2 /\ host = "mounted" /\ host' = host /\ isMounted' = {2}
          /\ latest' = latest /\ adopted' = adopted
      BY <1>4 DEF StrictEffect, EffectPending
    <2>2. \A r \in Runs : camera'[r] = "live" => camera[r] = "live"
      BY <1>4 DEF StrictEffect
    <2>3. QED
      BY <2>1, <2>2
  <1>5. CASE Unmount
    <2>1. \A r \in Runs : r \notin isMounted'
      BY <1>5 DEF Unmount, Disowned
    <2>2. \A r \in Runs : camera'[r] = "live" => camera[r] = "live"
      BY <1>5 DEF Unmount, CleanedUp
    <2>3. QED
      BY <1>5, <2>1, <2>2 DEF Unmount
  <1>6. ASSUME NEW r \in Runs, Granted(r)
        PROVE  Owned' /\ CamerasKnown' /\ ReadyHasStream'
    <2>1. CASE r \in isMounted
      <3>1. host = "mounted"
        BY <2>1
      <3>2. /\ camera' = [camera EXCEPT ![r] = "live"]
            /\ run' = run /\ host' = host /\ isMounted' = isMounted
        BY <1>6, <2>1 DEF Granted
      <3>3. latest'.stream = r /\ latest'.isReady /\ ~ latest'.error
        BY <1>6, <2>1, <3>1 DEF Granted, setState
      <3>4. adopted' = adopted \cup {r}
        BY <1>6, <2>1, <3>3 DEF Granted, setState
      <3>5. \A u \in Runs : camera'[u] = "live" => u \in adopted'
        BY <3>2, <3>4
      <3>6. QED
        BY <3>2, <3>3, <3>5
    <2>2. CASE r \notin isMounted
      BY <1>6, <2>2 DEF Granted
    <2>3. QED
      BY <2>1, <2>2
  <1>7. ASSUME NEW r \in Runs, Denied(r)
        PROVE  Owned' /\ CamerasKnown' /\ ReadyHasStream'
    <2>1. \A u \in Runs : camera'[u] = "live" => camera[u] = "live"
      BY <1>7 DEF Denied
    <2>2. adopted \subseteq adopted' /\ UNCHANGED <<run, isMounted, host>>
      BY <1>7 DEF Denied, setState
    <2>3. QED
      BY <1>7, <2>1, <2>2, DeniedState
  <1>8. CASE UNCHANGED vars
    BY <1>8 DEF vars
  <1>9. QED
    BY <1>1, <1>2, <1>3, <1>4, <1>5, <1>6, <1>7, <1>8 DEF Next

LEMMA MediaInvariant == Spec => []MediaInv
  BY MediaInit, MediaStep, PTL DEF Spec

\* Every camera that is on has been the hook's stream at some time: the
\* isMounted check stops the stream of every run that was cleaned up while it
\* was asking, also when a newer stream has been adopted meanwhile.
THEOREM NoUnknownCamera == Spec => []CamerasKnown
  BY MediaInvariant, PTL DEF MediaInv

\* isReady comes with a stream and without an error.
THEOREM ReadyConsistent == Spec => []ReadyHasStream
  BY MediaInvariant, PTL DEF MediaInv

\* The hook turns only to the stream of the last run.
THEOREM LateAnswersIgnored == Spec => NewestAdopted
  <1> DEFINE Adopts ==
        /\ latest'.stream # latest.stream => latest'.stream = run
        /\ video' # video => video' = run
  <1>1. ASSUME MediaInv, [Next]_vars
        PROVE  [Adopts]_vars
    <2> USE DEF MediaInv, TypeOK, States, Owned, runVars
    <2>1. CASE Render \/ Unmount \/ Effect \/ StrictEffect \/ retry
      <3>1. video' = video /\ latest'.stream = latest.stream
        <4>1. CASE retry
          BY <4>1 DEF retry
        <4>2. CASE Render \/ Unmount \/ Effect \/ StrictEffect
          BY <4>2 DEF Render, Unmount, Effect, StrictEffect
        <4>3. QED
          BY <2>1, <4>1, <4>2
      <3>2. QED
        BY <3>1
    <2>2. ASSUME NEW r \in Runs, Granted(r)
          PROVE  Adopts
      BY <1>1, <2>2, GrantedState
    <2>3. ASSUME NEW r \in Runs, Denied(r)
          PROVE  Adopts
      BY <1>1, <2>3, DeniedState
    <2>4. QED
      BY <1>1, <2>1, <2>2, <2>3 DEF Next
  <1>2. QED
    BY <1>1, MediaInvariant, PTL DEF Spec, NewestAdopted

-----------------------------------------------------------------------------
(* Requests *)

Strict == IF strictMode THEN 1 ELSE 0

\* Every run but the mount follows a render with a higher count.
CountInv ==
    /\ run <= ran + 1 + Strict
    /\ ran <= rendered.retryCount
    /\ rendered.retryCount <= latest.retryCount
    /\ run = 0 => ran = 0

LEMMA CountStep == TypeOK /\ CountInv /\ [Next]_vars => CountInv'
  <1> SUFFICES ASSUME TypeOK, CountInv, [Next]_vars
               PROVE  CountInv'
    OBVIOUS
  <1> USE RunTypes DEF TypeOK, States, CountInv, Strict, runVars
  <1>1. CASE Render
    BY <1>1 DEF Render
  <1>2. CASE retry
    BY <1>2 DEF retry
  <1>3. CASE Effect
    BY <1>3 DEF Effect, EffectPending, Deps
  <1>4. CASE StrictEffect
    BY <1>4 DEF StrictEffect, Deps
  <1>5. CASE Unmount
    BY <1>5 DEF Unmount
  <1>6. ASSUME NEW r \in Runs, Granted(r) \/ Denied(r)
        PROVE  CountInv'
    <2>1. latest'.retryCount = latest.retryCount
      BY <1>6, GrantedState, DeniedState
    <2>2. UNCHANGED <<rendered, ran, run, strictMode>>
      BY <1>6 DEF Granted, Denied
    <2>3. QED
      BY <2>1, <2>2
  <1>7. CASE UNCHANGED vars
    BY <1>7 DEF vars
  <1>8. QED
    BY <1>1, <1>2, <1>3, <1>4, <1>5, <1>6, <1>7 DEF Next

\* The camera is asked for once at the mount and once for each retry: none
\* of the states that the effect sets runs it again.
THEOREM RequestsCounted == Spec => []OneRequestPerRetry
  <1>1. Init => TypeOK /\ CountInv
    BY TypeInit, RunTypes DEF Init, CountInv, Strict, FirstRender
  <1>2. TypeOK /\ CountInv => OneRequestPerRetry
    BY RunTypes DEF TypeOK, States, CountInv, Strict, OneRequestPerRetry
  <1>3. QED
    BY <1>1, <1>2, TypeStep, CountStep, PTL DEF Spec
=============================================================================
