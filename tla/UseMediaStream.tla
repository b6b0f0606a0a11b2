---------------------------- MODULE UseMediaStream ----------------------------
(***************************************************************************)
(* hooks/useMediaStream.ts in one component.  Each run of its effect asks  *)
(* the browser for a stream; runs, requests and streams share one number.  *)
(* The answers come back in any order.  As in HomePage, a setState changes *)
(* `latest` and the effect and its cleanup see the render they belong to.  *)
(***************************************************************************)
EXTENDS Integers

CONSTANT MaxRetries   \* bound: calls of retry, changes of constraints

ASSUME MediaConstants == MaxRetries \in Nat

VARIABLES
    latest, rendered,  \* the React state: every setState, the committed render
    ran,               \* dependencies of the last run of the effect
    run,               \* its number, 0 before the first one
    isMounted,         \* the runs whose local variable is true
    closure,           \* the stream that the cleanup of each run sees
    camera,            \* what has become of the request of each run
    video,             \* videoRef.current.srcObject
    adopted,           \* history: every value the state `stream` has had
    host,              \* the component: "mounted" or "unmounted"
    strictMode         \* React mounts the effect twice (development)

runVars == <<ran, run, isMounted, closure>>
vars == <<latest, rendered, runVars, camera, video, adopted, host, strictMode>>

Runs == 1..(MaxRetries + 2)

NoStream == 0

FirstRender ==
    [stream |-> NoStream, isReady |-> FALSE, error |-> FALSE, retryCount |-> 0]

Init ==
    /\ latest = FirstRender /\ rendered = FirstRender
    /\ ran = 0 /\ run = 0
    /\ isMounted = {}
    /\ closure = [r \in Runs \cup {0} |-> NoStream]
    /\ camera = [r \in Runs |-> "unasked"]
    /\ video = NoStream
    /\ adopted = {NoStream}
    /\ host = "mounted"
    /\ strictMode \in BOOLEAN

\* React drops what an unmounted component sets.
setState(s) ==
    /\ latest' = IF host = "mounted" THEN s ELSE latest
    /\ adopted' = adopted \cup {latest'.stream}

\* Faulty variant: the dependencies that eslint asks for, stream included.
DepsWithStream(s) == s.retryCount + s.stream

\* The dependencies of the effect, [constraints, retryCount].  A new
\* constraints object counts as a retry.
Deps(s) == s.retryCount

EffectPending == host = "mounted" /\ (run = 0 \/ Deps(rendered) # ran)

Render ==
    /\ host = "mounted" /\ ~ EffectPending
    /\ latest # rendered
    /\ rendered' = latest
    /\ UNCHANGED <<latest, runVars, camera, video, adopted, host, strictMode>>

\* Faulty variant: the count goes the wrong way.
retryDown ==
    /\ host = "mounted"
    /\ latest' = [latest EXCEPT !.retryCount = @ - 1]
    /\ UNCHANGED <<rendered, runVars, camera, video, adopted, host, strictMode>>

retry ==
    /\ host = "mounted"
    /\ latest.retryCount < MaxRetries
    /\ latest' = [latest EXCEPT !.retryCount = @ + 1]
    /\ UNCHANGED <<rendered, runVars, camera, video, adopted, host, strictMode>>

\* The cleanup of the last run stops the stream of the render it was made
\* in, if that render had one.
CleanedUp ==
    [r \in Runs |-> IF r = closure[run] /\ camera[r] = "live" THEN "stopped" ELSE camera[r]]

\* isMounted of the last run lowered.
Disowned == isMounted \ {run}

\* The cleanup of the previous run, then a new one up to its await.
Effect ==
    /\ EffectPending /\ ~ (run = 0 /\ strictMode)
    /\ run + 1 \in Runs
    /\ run' = run + 1
    /\ ran' = Deps(rendered)
    /\ isMounted' = Disowned \cup {run + 1}
    /\ closure' = [closure EXCEPT ![run + 1] = rendered.stream]
    /\ camera' = [CleanedUp EXCEPT ![run + 1] = "asking"]
    /\ UNCHANGED <<latest, rendered, video, adopted, host, strictMode>>

\* Strict mode: run 1, its cleanup and run 2 in one go, from one render.
StrictEffect ==
    /\ EffectPending /\ run = 0 /\ strictMode
    /\ run' = 2
    /\ ran' = Deps(rendered)
    /\ isMounted' = {2}
    /\ camera' = [camera EXCEPT ![1] = "asking", ![2] = "asking"]
    /\ UNCHANGED <<latest, rendered, closure, video, adopted, host, strictMode>>

\* Faulty variant: every answer is taken.
GrantedAnyway(r) ==
    /\ camera[r] = "asking"
    /\ setState([latest EXCEPT !.stream = r, !.error = FALSE, !.isReady = TRUE])
    /\ video' = r
    /\ camera' = [camera EXCEPT ![r] = "live"]
    /\ UNCHANGED <<rendered, runVars, host, strictMode>>

\* Faulty variant: a stream that comes too late is ignored, and left on.
GrantedLeftOn(r) ==
    /\ camera[r] = "asking"
    /\ camera' = [camera EXCEPT ![r] = "live"]
    /\ IF r \in isMounted
         THEN /\ setState([latest EXCEPT !.stream = r, !.error = FALSE, !.isReady = TRUE])
              /\ video' = r
         ELSE UNCHANGED <<latest, video, adopted>>
    /\ UNCHANGED <<rendered, runVars, host, strictMode>>

\* getUserMedia resolves: the run keeps the stream, or stops it at once when
\* it has been cleaned up.
Granted(r) ==
    /\ camera[r] = "asking"
    /\ IF r \in isMounted
         THEN /\ setState([latest EXCEPT !.stream = r, !.error = FALSE, !.isReady = TRUE])
              /\ video' = r
              /\ camera' = [camera EXCEPT ![r] = "live"]
         ELSE /\ camera' = [camera EXCEPT ![r] = "stopped"]
              /\ UNCHANGED <<latest, video, adopted>>
    /\ UNCHANGED <<rendered, runVars, host, strictMode>>

\* Faulty variant: the catch block only records the error.
ErrorOnly(s) == [s EXCEPT !.error = TRUE]

Failed(s) == [s EXCEPT !.error = TRUE, !.isReady = FALSE]

\* getUserMedia rejects: the catch block does not ask for isMounted.
Denied(r) ==
    /\ camera[r] = "asking"
    /\ camera' = [camera EXCEPT ![r] = "denied"]
    /\ setState(Failed(latest))
    /\ UNCHANGED <<rendered, runVars, video, host, strictMode>>

Unmount ==
    /\ host = "mounted" /\ ~ EffectPending
    /\ host' = "unmounted"
    /\ isMounted' = Disowned
    /\ camera' = CleanedUp
    /\ UNCHANGED <<latest, rendered, ran, run, closure, video, adopted, strictMode>>

Next ==
    \/ Render \/ retry \/ Effect \/ StrictEffect \/ Unmount
    \/ \E r \in Runs : Granted(r) \/ Denied(r)

Spec == Init /\ [][Next]_vars

-----------------------------------------------------------------------------
(* Properties *)

States ==
    [stream : Runs \cup {NoStream}, isReady : BOOLEAN, error : BOOLEAN, retryCount : Nat]

\* The states of the hook and the variables of its runs keep their types.
TypeOK ==
    /\ latest \in States /\ rendered \in States
    /\ ran \in Nat /\ run \in Runs \cup {0}
    /\ isMounted \subseteq Runs
    /\ closure \in [Runs \cup {0} -> Runs \cup {NoStream}]
    /\ camera \in [Runs -> {"unasked", "asking", "live", "stopped", "denied"}]
    /\ video \in Runs \cup {NoStream}
    /\ adopted \subseteq Runs \cup {NoStream}
    /\ host \in {"mounted", "unmounted"}
    /\ strictMode \in BOOLEAN

\* However late an answer comes, the hook and the video element only ever
\* turn to the stream of the last run: a retry is not undone by the answer
\* to an older request.
NewestAdopted ==
    [][/\ latest'.stream # latest.stream => latest'.stream = run
       /\ video' # video => video' = run]_vars

\* No stream is on that the hook has not known: one that is live has been
\* its stream at some time, so a request that was given up never leaves a
\* camera on, whether its answer comes before or after that of a newer one.
CamerasKnown ==
    \A r \in Runs : camera[r] = "live" => r \in adopted

\* "Ready" comes with a stream and without an error, whatever the order in
\* which the requests are answered.
ReadyHasStream ==
    latest.isReady => latest.stream # NoStream /\ ~ latest.error

\* One request for each mount and retry: the states the effect sets do not
\* start it again.
OneRequestPerRetry ==
    run <= rendered.retryCount + 1 + (IF strictMode THEN 1 ELSE 0)

-----------------------------------------------------------------------------
(* What a comment of the code says and the code does not do *)

\* "Cleanup: stop the stream" (useMediaStream.ts:96): no stream is on once
\* the component is gone.
CameraReleased ==
    host = "unmounted" => \A r \in Runs : camera[r] # "live"
=============================================================================
