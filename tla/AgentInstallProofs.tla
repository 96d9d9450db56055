-------------------------- MODULE AgentInstallProofs --------------------------
(* Theorems about AgentInstall, for any services, namespaces and jobs.     *)
EXTENDS AgentInstall, TLAPS

\* A job that is over has a failed pod.
OverTried == \A j \in Jobs : Exists(j) /\ jobs[j].state = "over" => jobs[j].tried

\* What a call is going to delete had failed when it was listed, and its name
\* was not given to another job since.
DoomedTried ==
  \A s \in Services : \A j \in call[s].doomed : Exists(j) => jobs[j].tried

\* A call that has read a command goes past the secret only when that is there.
Known(s, c) == c.cmd => rancher[s] = "command" /\ (c.at # "secret" => s \in secret)
CommandRead == \A s \in Services : Known(s, call[s])

IInv == TypeOK /\ OverTried /\ DoomedTried /\ CommandRead /\ WaitedForAll

\* The invariant holds in the initial state.
LEMMA InitInv == Init => IInv
<1> SUFFICES ASSUME Init PROVE IInv
    OBVIOUS
<1>1. TypeOK
      BY DEF Init, TypeOK, Stages, Call, NoCall
<1>2. OverTried /\ WaitedForAll
      BY DEF Init, OverTried, WaitedForAll, Exists
<1>3. DoomedTried /\ CommandRead
      BY DEF Init, DoomedTried, CommandRead, Known, NoCall
<1> QED
    BY <1>1, <1>2, <1>3 DEF IInv

\* Rancher's progress, secrets and agents: what has been read stays true.
LEMMA EnvironmentKeeps ==
  ASSUME IInv, NEW s \in Services,
         \/ Resync(s) \/ RancherProgress(s) \/ PublishSecret(s) \/ ReadyFollows(s)
         \/ StrayEnds(s) \/ AgentStarts(s) \/ AgentRemoved(s)
  PROVE  IInv'
<1>1. UNCHANGED <<jobs, call>>
      BY DEF Resync, RancherProgress, PublishSecret, ReadyFollows, StrayEnds, AgentStarts,
             AgentRemoved, Handler
<1>2. /\ secret \subseteq secret'
      /\ \A t \in Services : rancher[t] = "command" => rancher'[t] = "command"
  <2>1. CASE RancherProgress(s)
        BY <2>1 DEF RancherProgress, IInv, TypeOK
  <2>2. CASE PublishSecret(s)
        BY <2>2 DEF PublishSecret
  <2> QED
      BY <2>1, <2>2 DEF Resync, ReadyFollows, StrayEnds, AgentStarts, AgentRemoved, Elsewhere
<1>3. TypeOK'
  <2>1. rancher' \in [Services -> Stages]
    <3>1. CASE RancherProgress(s)
          BY <3>1 DEF RancherProgress, IInv, TypeOK, Stages
    <3> QED
        BY <3>1 DEF IInv, TypeOK, Resync, PublishSecret, ReadyFollows, StrayEnds, AgentStarts,
                    AgentRemoved, Elsewhere
  <2>2. {secret, ready, applied, agent, strays, pending}' \subseteq SUBSET Services
        BY DEF IInv, TypeOK, Resync, RancherProgress, PublishSecret, ReadyFollows, StrayEnds,
               AgentStarts, AgentRemoved, Elsewhere, Handler
  <2>3. happened' \subseteq Faults
        BY DEF IInv, TypeOK, Resync, RancherProgress, PublishSecret, ReadyFollows, StrayEnds,
               AgentStarts, AgentRemoved, Fault
  <2> QED
      BY <1>1, <2>1, <2>2, <2>3 DEF IInv, TypeOK
<1>4. OverTried' /\ DoomedTried'
      BY <1>1 DEF IInv, OverTried, DoomedTried, Exists
<1>5. CommandRead' /\ WaitedForAll'
  <2>1. \A j \in Jobs : Exists(j) => jobs[j].svc \in Services
        BY DEF IInv, TypeOK, Exists, JobRecord
  <2> QED
      BY <1>1, <1>2, <2>1 DEF IInv, CommandRead, Known, WaitedForAll, Exists
<1> QED
    BY <1>3, <1>4, <1>5 DEF IInv

\* Host cluster: a job keeps its service and its command, and tried stays.
LEMMA JobControllerKeeps ==
  ASSUME IInv, NEW j \in Jobs,
         JobStarts(j) \/ PodSucceeds(j) \/ PodFails(j) \/ JobExpires(j)
  PROVE  IInv'
<1>1. /\ UNCHANGED <<rancher, secret, ready, agent, strays, pending, call, happened>>
      /\ applied' \subseteq Services
  <2>1. Exists(j) => jobs[j].svc \in Services
        BY DEF IInv, TypeOK, Exists, JobRecord
  <2> QED
      BY <2>1 DEF IInv, TypeOK, JobStarts, PodSucceeds, PodFails, JobExpires, Handler, Elsewhere
<1>2. Exists(j) /\ jobs[j] \in JobRecord
      BY DEF IInv, TypeOK, Exists, JobStarts, PodSucceeds, PodFails, JobExpires
<1>3. /\ \A k \in Jobs \ {j} : jobs'[k] = jobs[k]
      /\ jobs' \in [Jobs -> JobRecord \cup {None}]
      /\ Exists(j)' => /\ jobs'[j].svc = jobs[j].svc
                       /\ jobs'[j].cmd = jobs[j].cmd
                       /\ jobs[j].tried => jobs'[j].tried
                       /\ jobs'[j].state = "over" => jobs'[j].tried
  <2>1. CASE JobStarts(j)
        BY <1>2, <2>1 DEF JobStarts, IInv, TypeOK, JobRecord
  <2>2. CASE PodSucceeds(j)
        BY <1>2, <2>2 DEF PodSucceeds, IInv, TypeOK, JobRecord
  <2>3. CASE PodFails(j)
        BY <1>2, <2>3 DEF PodFails, IInv, TypeOK, JobRecord
  <2>4. CASE JobExpires(j)
        BY <1>2, <2>4 DEF JobExpires, IInv, TypeOK, Exists
  <2> QED
      BY <2>1, <2>2, <2>3, <2>4
<1>4. TypeOK'
      BY <1>1, <1>3 DEF IInv, TypeOK
<1>5. OverTried' /\ WaitedForAll'
      BY <1>1, <1>2, <1>3 DEF IInv, OverTried, WaitedForAll, Exists
<1>6. DoomedTried'
  <2>1. \A s \in Services : call[s].doomed \subseteq Jobs
        BY DEF IInv, TypeOK, Call
  <2> QED
      BY <1>1, <1>2, <1>3, <2>1 DEF IInv, DoomedTried, Exists
<1>7. CommandRead'
      BY <1>1 DEF IInv, CommandRead, Known
<1> QED
    BY <1>4, <1>5, <1>6, <1>7 DEF IInv

\* The handler changes nothing of Rancher; what it does to jobs is left to the
\* lemmas below.
LEMMA CallKeeps ==
  ASSUME IInv, NEW s \in Services, UNCHANGED Elsewhere, UNCHANGED happened \/ Fault("error"),
         jobs' \in [Jobs -> JobRecord \cup {None}],
         strays' \subseteq Services,
         OverTried', WaitedForAll',
         \A t \in Services \ {s}, j \in Jobs :
           j \in call[t].doomed /\ Exists(j)' => jobs'[j].tried,
         \/ /\ \E again \in BOOLEAN : Return(s, again)
         \/ /\ call' = [call EXCEPT ![s] = call'[s]]
            /\ call'[s] \in Call
            /\ pending' \subseteq Services
            /\ Known(s, call'[s])
            /\ \A j \in call'[s].doomed : Exists(j)' => jobs'[j].tried
  PROVE  IInv'
<1>1. /\ call' = [call EXCEPT ![s] = call'[s]]
      /\ call'[s] \in Call
      /\ pending' \subseteq Services
      /\ Known(s, call'[s])
      /\ \A j \in call'[s].doomed : Exists(j)' => jobs'[j].tried
  <2>1. ASSUME NEW again \in BOOLEAN, Return(s, again) PROVE <1>1!1 /\ <1>1!2 /\ <1>1!3 /\ <1>1!4 /\ <1>1!5
        BY <2>1 DEF Return, NoCall, Call, Known, IInv, TypeOK
  <2> QED
      BY <2>1
<1>2. TypeOK'
  <2>1. happened' \subseteq Faults
        BY DEF IInv, TypeOK, Fault
  <2> QED
      BY <1>1, <2>1 DEF IInv, TypeOK, Elsewhere
<1>3. DoomedTried'
  <2>1. \A t \in Services : call[t].doomed \subseteq Jobs
        BY DEF IInv, TypeOK, Call
  <2> QED
      BY <1>1, <2>1 DEF IInv, TypeOK, DoomedTried
<1>4. CommandRead'
      BY <1>1 DEF IInv, TypeOK, CommandRead, Known, Elsewhere
<1> QED
    BY <1>2, <1>3, <1>4 DEF IInv

\* A call that leaves the jobs alone.
LEMMA ReadKeeps ==
  ASSUME IInv, NEW s \in Services, UNCHANGED <<Elsewhere, jobs, strays>>,
         UNCHANGED happened \/ Fault("error"),
         \/ \E again \in BOOLEAN : Return(s, again)
         \/ /\ call' = [call EXCEPT ![s] = call'[s]]
            /\ call'[s] \in Call
            /\ pending' \subseteq Services
            /\ Known(s, call'[s])
            /\ \A j \in call'[s].doomed : Exists(j) => jobs[j].tried
  PROVE  IInv'
<1>1. OverTried' /\ WaitedForAll'
      BY DEF IInv, OverTried, WaitedForAll, Exists, Elsewhere
<1>2. \A t \in Services \ {s}, j \in Jobs :
        j \in call[t].doomed /\ Exists(j)' => jobs'[j].tried
      BY DEF IInv, DoomedTried, Exists
<1>3. jobs' \in [Jobs -> JobRecord \cup {None}] /\ strays' \subseteq Services
      BY DEF IInv, TypeOK
<1>4. ASSUME \A j \in call'[s].doomed : Exists(j) => jobs[j].tried
      PROVE  \A j \in call'[s].doomed : Exists(j)' => jobs'[j].tried
      BY <1>4 DEF Exists
<1> QED
    BY <1>1, <1>2, <1>3, <1>4, CallKeeps

LEMMA ReadersKeep ==
  ASSUME IInv, NEW s \in Services,
         \/ Begin(s) \/ GetManagementCluster(s) \/ GetToken(s) \/ GetSecret(s)
         \/ ListPods(s) \/ ListJobs(s) \/ ApiError(s)
  PROVE  IInv'
<1>1. call \in [Services -> Call] /\ pending \subseteq Services
      BY DEF IInv, TypeOK
<1>2. CASE Begin(s)
  <2>1. call'[s].cmd = call[s].cmd /\ call'[s].doomed = call[s].doomed
        BY <1>1, <1>2 DEF Begin, Call
  <2>2. call'[s] \in Call /\ pending' \subseteq Services /\ call' = [call EXCEPT ![s] = call'[s]]
    <3>1. pending' \subseteq Services
          BY <1>1, <1>2 DEF Begin
    <3>2. ASSUME NEW b \in BOOLEAN PROVE [call[s] EXCEPT !.at = "rancher", !.ready = b] \in Call
          BY <1>1 DEF Call
    <3>3. call' = [call EXCEPT ![s] = [call[s] EXCEPT !.at = "rancher", !.ready = (s \in ready)]]
          BY <1>1, <1>2, Zenon DEF Begin
    <3>4. (s \in ready) \in BOOLEAN
          OBVIOUS
    <3>5. [call[s] EXCEPT !.at = "rancher", !.ready = (s \in ready)] \in Call
          BY <3>2, <3>4, Zenon
    <3> QED
        BY <1>1, <3>1, <3>3, <3>5, Zenon
  <2>3. UNCHANGED <<Elsewhere, jobs, strays, happened>>
        BY <1>2 DEF Begin
  <2>4. Known(s, call'[s])
        BY <1>2, <2>1 DEF Begin, IInv, CommandRead, Known
  <2> QED
      BY <2>1, <2>2, <2>3, <2>4, ReadKeeps DEF IInv, DoomedTried
<1>3. ASSUME NEW at \in {"token", "pods", "jobs"}, Proceed(s, [call[s] EXCEPT !.at = at]),
             call[s].at # "secret" \/ s \in secret,
             UNCHANGED <<Elsewhere, jobs, strays, happened>>
      PROVE  IInv'
  <2>1. /\ call'[s] \in Call /\ pending' \subseteq Services
        /\ call' = [call EXCEPT ![s] = call'[s]]
        /\ call'[s].doomed = call[s].doomed /\ call'[s].cmd = call[s].cmd
        BY <1>1, <1>3 DEF Proceed, Call
  <2>2. Known(s, call'[s])
        BY <1>3, <2>1 DEF IInv, CommandRead, Known
  <2> QED
      BY <1>3, <2>1, <2>2, ReadKeeps DEF IInv, DoomedTried
<1>4. CASE GetManagementCluster(s)
  <2>1. CASE Return(s, TRUE)
        BY <1>4, <2>1, ReadKeeps DEF GetManagementCluster
  <2>2. CASE Proceed(s, [call[s] EXCEPT !.at = IF call[s].ready THEN "pods" ELSE "token"])
        BY <1>3, <1>4, <2>2 DEF GetManagementCluster
  <2> QED
      BY <1>4, <2>1, <2>2 DEF GetManagementCluster
<1>5. CASE GetToken(s)
  <2>1. CASE Return(s, TRUE)
        BY <1>5, <2>1, ReadKeeps DEF GetToken
  <2>2. CASE Proceed(s, [call[s] EXCEPT !.at = "secret", !.cmd = (rancher[s] = "command")])
    <3>1. /\ call'[s] \in Call /\ pending' \subseteq Services
          /\ call' = [call EXCEPT ![s] = call'[s]]
          /\ call'[s].doomed = call[s].doomed
          BY <1>1, <2>2 DEF Proceed, Call
    <3>2. Known(s, call'[s])
          BY <1>1, <2>2 DEF Proceed, Known, Call
    <3>3. UNCHANGED <<Elsewhere, jobs, strays, happened>>
          BY <1>5 DEF GetToken
    <3> QED
        BY <3>1, <3>2, <3>3, ReadKeeps DEF IInv, DoomedTried
  <2> QED
      BY <1>5, <2>1, <2>2 DEF GetToken
<1>6. CASE GetSecret(s)
  <2>1. CASE Return(s, TRUE)
        BY <1>6, <2>1, ReadKeeps DEF GetSecret
  <2>2. CASE SecretThere(s) /\ Proceed(s, [call[s] EXCEPT !.at = "pods"])
        BY <1>3, <1>6, <2>2 DEF GetSecret, SecretThere
  <2> QED
      BY <1>6, <2>1, <2>2 DEF GetSecret
<1>7. CASE ListPods(s)
  <2>1. CASE Return(s, FALSE)
        BY <1>7, <2>1, ReadKeeps DEF ListPods
  <2>2. CASE Proceed(s, [call[s] EXCEPT !.at = "jobs"])
        BY <1>3, <1>7, <2>2 DEF ListPods
  <2> QED
      BY <1>7, <2>1, <2>2 DEF ListPods
<1>8. CASE ListJobs(s)
  <2>1. PICK doomed \in SUBSET {j \in Jobs : Exists(j) /\ Failed(j)},
             verdict \in {"create", "wait", "done"} :
          Proceed(s, [call[s] EXCEPT !.at = "delete", !.doomed = doomed, !.verdict = verdict])
        BY <1>8 DEF ListJobs
  <2>2. /\ call'[s] \in Call /\ pending' \subseteq Services
        /\ call' = [call EXCEPT ![s] = call'[s]]
        /\ call'[s].doomed = doomed /\ call'[s].cmd = call[s].cmd
        BY <1>1, <2>1 DEF Proceed, Call
  <2>3. \A j \in doomed : jobs[j].tried
        BY <2>1 DEF Failed
  <2>4. UNCHANGED <<Elsewhere, jobs, strays, happened>>
        BY <1>8 DEF ListJobs
  <2>5. Known(s, call'[s])
        BY <1>8, <2>2 DEF ListJobs, IInv, CommandRead, Known
  <2> QED
      BY <2>2, <2>3, <2>4, <2>5, ReadKeeps DEF IInv
<1>9. CASE ApiError(s)
      BY <1>9, ReadKeeps DEF ApiError
<1> QED
    BY <1>2, <1>4, <1>5, <1>6, <1>7, <1>8, <1>9

\* A deleted job was doomed, and nothing new is doomed by its call.
LEMMA DeleteKeeps ==
  ASSUME IInv, NEW s \in Services, DeleteFailed(s)
  PROVE  IInv'
<1>1. call \in [Services -> Call] /\ pending \subseteq Services /\ call[s].doomed \subseteq Jobs
      BY DEF IInv, TypeOK, Call
<1>2. PICK j \in call[s].doomed :
        \/ Return(s, TRUE) /\ UNCHANGED <<jobs, strays>>
        \/ /\ Exists(j)
           /\ jobs' = [jobs EXCEPT ![j] = None]
           /\ strays' \in {strays, strays \cup {jobs[j].svc}}
           /\ Proceed(s, [call[s] EXCEPT !.doomed = @ \ {j}])
      BY DEF DeleteFailed
<1>3. UNCHANGED <<Elsewhere, happened>>
      BY DEF DeleteFailed
<1>4. CASE Return(s, TRUE) /\ UNCHANGED <<jobs, strays>>
      BY <1>3, <1>4, ReadKeeps
<1>5. CASE /\ Exists(j)
           /\ jobs' = [jobs EXCEPT ![j] = None]
           /\ strays' \in {strays, strays \cup {jobs[j].svc}}
           /\ Proceed(s, [call[s] EXCEPT !.doomed = @ \ {j}])
  <2>1. /\ jobs' \in [Jobs -> JobRecord \cup {None}]
        /\ \A k \in Jobs : Exists(k)' => Exists(k) /\ jobs'[k] = jobs[k]
        BY <1>1, <1>5 DEF IInv, TypeOK, Exists
  <2>2. strays' \subseteq Services
        BY <1>1, <1>5 DEF IInv, TypeOK, Exists, JobRecord
  <2>3. OverTried' /\ WaitedForAll'
        BY <1>3, <2>1 DEF IInv, OverTried, WaitedForAll, Elsewhere
  <2>4. \A t \in Services \ {s}, k \in Jobs :
          k \in call[t].doomed /\ Exists(k)' => jobs'[k].tried
        BY <2>1 DEF IInv, DoomedTried
  <2>5. /\ call'[s] \in Call /\ pending' \subseteq Services
        /\ call' = [call EXCEPT ![s] = call'[s]]
        /\ call'[s].doomed \subseteq call[s].doomed /\ call'[s].cmd = call[s].cmd
        BY <1>1, <1>5 DEF Proceed, Call
  <2>6. \A k \in call'[s].doomed : Exists(k)' => jobs'[k].tried
        BY <1>1, <2>1, <2>5 DEF IInv, DoomedTried
  <2>7. Known(s, call'[s])
        BY <2>5 DEF DeleteFailed, IInv, CommandRead, Known
  <2> QED
      BY <1>3, <2>1, <2>2, <2>3, <2>4, <2>5, <2>6, <2>7, CallKeeps
<1> QED
    BY <1>2, <1>4, <1>5

\* A new job has what its call has read, and nobody is about to delete it.
LEMMA AfterKeeps ==
  ASSUME IInv, NEW s \in Services, AfterJobs(s)
  PROVE  IInv'
<1>1. UNCHANGED <<Elsewhere, strays, happened>> /\ \E again \in BOOLEAN : Return(s, again)
  <2>1. (call[s].verdict = "wait") \in BOOLEAN
        OBVIOUS
  <2> QED
      BY <2>1, Zenon DEF AfterJobs
<1>2. CASE UNCHANGED jobs
      BY <1>1, <1>2, ReadKeeps
<1>3. ASSUME NEW j \in Jobs, Unused(j), jobs' = [jobs EXCEPT ![j] = NewJob(s)]
      PROVE  IInv'
  <2>1. /\ NewJob(s) \in JobRecord /\ NewJob(s).svc = s
        /\ NewJob(s).cmd = call[s].cmd /\ NewJob(s).state = "starting"
        BY DEF IInv, TypeOK, Call, NewJob, JobRecord
  <2>2. /\ jobs' \in [Jobs -> JobRecord \cup {None}] /\ jobs'[j] = NewJob(s)
        /\ \A k \in Jobs \ {j} : jobs'[k] = jobs[k]
        BY <1>3, <2>1 DEF IInv, TypeOK
  <2>3. OverTried' /\ WaitedForAll'
    <3>1. OverTried'
          BY <2>1, <2>2 DEF IInv, OverTried, Exists
    <3>2. WaitedForAll'
          BY <1>1, <2>1, <2>2 DEF AfterJobs, IInv, WaitedForAll, CommandRead, Known, Exists, Elsewhere
    <3> QED
        BY <3>1, <3>2
  <2>4. \A t \in Services \ {s}, k \in Jobs :
          k \in call[t].doomed /\ Exists(k)' => jobs'[k].tried
        BY <1>3, <2>2 DEF IInv, DoomedTried, Unused, Exists
  <2>5. strays' \subseteq Services
        BY <1>1 DEF IInv, TypeOK
  <2> QED
      BY <1>1, <2>2, <2>3, <2>4, <2>5, CallKeeps
<1> QED
    BY <1>2, <1>3 DEF AfterJobs

\* Every step keeps the invariant.
LEMMA StepInv == IInv /\ [Next]_vars => IInv'
<1> SUFFICES ASSUME IInv, [Next]_vars PROVE IInv'
    OBVIOUS
<1>1. ASSUME NEW s \in Services, Step(s) PROVE IInv'
      BY <1>1, ReadersKeep, DeleteKeeps, AfterKeeps DEF Step
<1>2. ASSUME NEW s \in Services, Begin(s) \/ ApiError(s) PROVE IInv'
      BY <1>2, ReadersKeep
<1>3. ASSUME NEW s \in Services,
             \/ Resync(s) \/ RancherProgress(s) \/ PublishSecret(s) \/ ReadyFollows(s)
             \/ StrayEnds(s) \/ AgentStarts(s) \/ AgentRemoved(s)
      PROVE  IInv'
      BY <1>3, EnvironmentKeeps
<1>4. ASSUME NEW j \in Jobs, JobStarts(j) \/ PodSucceeds(j) \/ PodFails(j) \/ JobExpires(j)
      PROVE  IInv'
      BY <1>4, JobControllerKeeps
<1>5. CASE UNCHANGED vars
      BY <1>5 DEF vars, IInv, TypeOK, OverTried, DoomedTried, CommandRead, Known, WaitedForAll, Exists
<1> QED
    BY <1>1, <1>2, <1>3, <1>4, <1>5 DEF Next

\* The invariant of every reachable state.
LEMMA Invariance == Spec => []IInv
<1> QED
    BY InitInv, StepInv, PTL DEF Spec

\* The variables of the installation keep their types; what a call has read and
\* what it is going to do are no exception (handler.go, ensureAgentDeployed).
THEOREM TypeCorrect == Spec => []TypeOK
<1>1. IInv => TypeOK
      BY DEF IInv
<1> QED
    BY <1>1, Invariance, PTL

\* No job with a command is created before the vCluster's secret exists and the
\* token has its command, however long ago its call has read them
\* (handler.go, getRancherResources).
THEOREM WaitsForAll == Spec => []WaitedForAll
<1>1. IInv => WaitedForAll
      BY DEF IInv
<1> QED
    BY <1>1, Invariance, PTL

\* No step makes a job disappear that neither had a failed pod nor was done:
\* deleting by name from an old list never hits another job than the failed one
\* that was listed (handler.go, the loop of ensureAgentDeployed).
THEOREM HealthySpared == Spec => SparesHealthyJobs
<1>1. IInv /\ [Next]_vars => [SparesHealthy]_vars
  <2> SUFFICES ASSUME IInv, Next PROVE SparesHealthy
      BY DEF SparesHealthy, vars, Exists
  <2> SUFFICES ASSUME NEW j \in Jobs, Exists(j), jobs'[j] = None
               PROVE  jobs[j].tried \/ jobs[j].state = "succeeded"
      BY DEF SparesHealthy
  <2>1. jobs # jobs' /\ None \notin JobRecord /\ jobs \in [Jobs -> JobRecord \cup {None}]
        BY NoneAssumption DEF Exists, IInv, TypeOK
  <2>2. ASSUME NEW s \in Services, DeleteFailed(s)
        PROVE  jobs[j].tried
    <3>1. j \in call[s].doomed
          BY <2>1, <2>2 DEF DeleteFailed, Exists, IInv, TypeOK, Call
    <3> QED
        BY <3>1 DEF IInv, DoomedTried
  <2>3. ASSUME NEW s \in Services, AfterJobs(s) PROVE FALSE
    <3>1. NewJob(s) \in JobRecord
          BY DEF IInv, TypeOK, Call, NewJob, JobRecord
    <3> QED
        BY <2>1, <2>3, <3>1 DEF AfterJobs, Exists
  <2>4. ASSUME NEW k \in Jobs, JobStarts(k) \/ PodSucceeds(k) \/ PodFails(k) PROVE FALSE
    <3>1. jobs[k] \in JobRecord
          BY <2>1, <2>4 DEF JobStarts, PodSucceeds, PodFails, Exists
    <3>2. jobs'[k] \in JobRecord /\ \A i \in Jobs \ {k} : jobs'[i] = jobs[i]
      <4>1. CASE JobStarts(k)
            BY <2>1, <3>1, <4>1 DEF JobStarts, JobRecord
      <4>2. CASE PodSucceeds(k)
            BY <2>1, <3>1, <4>2 DEF PodSucceeds, JobRecord
      <4>3. CASE PodFails(k)
            BY <2>1, <3>1, <4>3 DEF PodFails, JobRecord
      <4> QED
          BY <2>4, <4>1, <4>2, <4>3
    <3> QED
        BY <2>1, <3>2 DEF Exists
  <2>5. ASSUME NEW k \in Jobs, JobExpires(k)
        PROVE  jobs[j].tried \/ jobs[j].state = "succeeded"
        BY <2>1, <2>5 DEF JobExpires, Exists, IInv, OverTried
  <2> QED
      BY <2>1, <2>2, <2>3, <2>4, <2>5
      DEF Next, Step, Begin, GetManagementCluster, GetToken, GetSecret, ListPods, ListJobs, ApiError, Resync,
          RancherProgress, PublishSecret, ReadyFollows, StrayEnds, AgentStarts, AgentRemoved
<1> QED
    BY <1>1, Invariance, PTL DEF Spec, SparesHealthyJobs
=============================================================================
