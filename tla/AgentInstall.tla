----------------------------- MODULE AgentInstall -----------------------------
(***************************************************************************)
(* pkg/services/handler.go, getRancherResources and ensureAgentDeployed:   *)
(* how Rancher's agent gets into the vCluster, which is DeployResources in *)
(* ServiceHandler.  No service is re-created here, so that each has one    *)
(* item and at most one worker (ItemExclusive of WorkQueue).               *)
(***************************************************************************)
CONSTANTS
  Services, Namespaces,
  NamespaceOf,  \* NamespaceOf[s]: the service's namespace in the host cluster
  Jobs,         \* the names of install jobs
  None,
  Faults        \* what may happen once: "error", "removed"

ASSUME NamespaceAssumption == NamespaceOf \in [Services -> Namespaces]

VARIABLES
  rancher,   \* rancher[s]: how far Rancher has come with the cluster of s
  secret,    \* the services whose vCluster has published its kubeconfig
  ready,     \* the services whose provisioning cluster has status.ready
  applied,   \* the services whose vCluster has the manifest of the agent
  agent,     \* the services whose agent has a pod in the host cluster
  jobs,      \* jobs[j]: an install job, or None
  strays,    \* the services with an install pod whose job was deleted
  pending,   \* the services a Reconcile call is owed for
  call,      \* call[s]: the Reconcile call for s
  happened   \* the faults so far

vars == <<rancher, secret, ready, applied, agent, jobs, strays, pending, call, happened>>

\* The management cluster, its token, and the command in the token's status.
Stages == {"nothing", "managed", "token", "command"}

\* cmd: the job has a command to run; tried: it has a failed pod.
JobRecord == [svc : Services, cmd : BOOLEAN, tried : BOOLEAN,
              state : {"starting", "active", "succeeded", "over"}]

ASSUME NoneAssumption == None \notin JobRecord

\* What a call has read, the jobs it is deleting, and what it does after them.
Call == [at : {"idle", "rancher", "token", "secret", "pods", "jobs", "delete"},
         ready : BOOLEAN, cmd : BOOLEAN, doomed : SUBSET Jobs,
         verdict : {"create", "wait", "done"}]
NoCall == [at |-> "idle", ready |-> FALSE, cmd |-> FALSE, doomed |-> {}, verdict |-> "done"]

TypeOK ==
  /\ rancher \in [Services -> Stages]
  /\ {secret, ready, applied, agent, strays, pending} \subseteq SUBSET Services
  /\ jobs \in [Jobs -> JobRecord \cup {None}]
  /\ call \in [Services -> Call]
  /\ happened \subseteq Faults

Init ==
  /\ rancher = [s \in Services |-> "nothing"]
  /\ secret = {} /\ ready = {} /\ applied = {} /\ agent = {} /\ strays = {}
  /\ jobs = [j \in Jobs |-> None]
  /\ pending = {}
  /\ call = [s \in Services |-> NoCall]
  /\ happened = {}

Exists(j) == jobs[j] # None
Fault(kind) == kind \notin happened /\ kind \in Faults /\ happened' = happened \cup {kind}

-----------------------------------------------------------------------------
(* services.Handler: it changes jobs, strays, pending and its own call     *)

Elsewhere == <<rancher, secret, ready, applied, agent>>

\* Every retry of handleErr leaves the item owed.
Return(s, again) ==
  /\ call' = [call EXCEPT ![s] = NoCall]
  /\ pending' = IF again THEN pending \cup {s} ELSE pending

Proceed(s, next) == call' = [call EXCEPT ![s] = next] /\ UNCHANGED pending

\* The provisioning cluster is read first.  The item may stay owed, by the
\* timer of an earlier retry.
Begin(s) ==
  /\ call[s].at = "idle" /\ s \in pending
  /\ pending' \in {pending, pending \ {s}}
  /\ call' = [call EXCEPT ![s].at = "rancher", ![s].ready = s \in ready]
  /\ UNCHANGED <<Elsewhere, jobs, strays, happened>>

\* getRancherResources: nothing but the management cluster is looked at when
\* the provisioning cluster was ready.  What is patched here is no part of the
\* installation: see AppCleanup and ClusterAttributes.
GetManagementCluster(s) ==
  /\ call[s].at = "rancher"
  /\ \/ rancher[s] = "nothing" /\ Return(s, TRUE)
     \/ /\ rancher[s] # "nothing"
        /\ Proceed(s, [call[s] EXCEPT !.at = IF call[s].ready THEN "pods" ELSE "token"])
  /\ UNCHANGED <<Elsewhere, jobs, strays, happened>>

NoToken(s) == rancher[s] \in {"nothing", "managed"}

\* A token without a status has no command; it is not waited for.
GetToken(s) ==
  /\ call[s].at = "token"
  /\ \/ NoToken(s) /\ Return(s, TRUE)
     \/ /\ ~NoToken(s)
        /\ Proceed(s, [call[s] EXCEPT !.at = "secret", !.cmd = (rancher[s] = "command")])
  /\ UNCHANGED <<Elsewhere, jobs, strays, happened>>

\* Mutant of SecretThere: the secret is not waited for.
SecretUnchecked(s) == TRUE

SecretThere(s) == s \in secret

GetSecret(s) ==
  /\ call[s].at = "secret"
  /\ \/ ~SecretThere(s) /\ Return(s, TRUE)
     \/ SecretThere(s) /\ Proceed(s, [call[s] EXCEPT !.at = "pods"])
  /\ UNCHANGED <<Elsewhere, jobs, strays, happened>>

\* Mutants of AgentIn: the pods are not looked at; the vCluster's own pods count.
AgentIgnored(n) == FALSE
AnyPodIn(n)     == TRUE

AgentIn(n) == \E s \in agent : NamespaceOf[s] = n

\* ensureAgentDeployed: any agent pod in the namespace is enough.
ListPods(s) ==
  /\ call[s].at = "pods"
  /\ \/ AgentIn(NamespaceOf[s]) /\ Return(s, FALSE)
     \/ ~AgentIn(NamespaceOf[s]) /\ Proceed(s, [call[s] EXCEPT !.at = "jobs"])
  /\ UNCHANGED <<Elsewhere, jobs, strays, happened>>

\* Mutant of Failed: active jobs are deleted as well.
FailedOrActive(j) == jobs[j].tried \/ jobs[j].state = "active"

Failed(j) == jobs[j].tried

\* The loop deletes failed jobs and ends at the first active or succeeded one;
\* a job without a status is passed over.  The order of the list is arbitrary.
ListJobs(s) ==
  /\ call[s].at = "jobs"
  /\ LET here   == {j \in Jobs : Exists(j) /\ NamespaceOf[jobs[j].svc] = NamespaceOf[s]}
         failed == {j \in here : Failed(j)}
         stops  == {j \in here \ failed : jobs[j].state # "starting"}
         After(doomed, verdict) ==
           Proceed(s, [call[s] EXCEPT !.at = "delete", !.doomed = doomed, !.verdict = verdict])
     IN \/ stops = {} /\ After(failed, "create")
        \/ \E j \in stops, before \in SUBSET failed :
             After(before, IF jobs[j].state = "active" THEN "wait" ELSE "done")
  /\ UNCHANGED <<Elsewhere, jobs, strays, happened>>

\* A job that is gone is an error; the pod of a deleted job is left behind.
DeleteFailed(s) ==
  /\ call[s].at = "delete"
  /\ \E j \in call[s].doomed :
       \/ ~Exists(j) /\ Return(s, TRUE) /\ UNCHANGED <<jobs, strays>>
       \/ /\ Exists(j)
          /\ jobs' = [jobs EXCEPT ![j] = None]
          /\ strays' = IF jobs[j].state = "active" /\ jobs[j].cmd
                       THEN strays \cup {jobs[j].svc} ELSE strays
          /\ Proceed(s, [call[s] EXCEPT !.doomed = @ \ {j}])
  /\ UNCHANGED <<Elsewhere, happened>>

\* A generated name is not used twice while somebody may delete by it.
Unused(j) == ~Exists(j) /\ \A s \in Services : j \notin call[s].doomed

NewJob(s) == [svc |-> s, cmd |-> call[s].cmd, tried |-> FALSE, state |-> "starting"]

\* After the loop; the result of a new job is left to a later Reconcile.
AfterJobs(s) ==
  /\ call[s].at = "delete" /\ call[s].doomed = {}
  /\ \/ call[s].verdict # "create" /\ UNCHANGED jobs
     \/ /\ call[s].verdict = "create"
        /\ \E j \in Jobs : Unused(j) /\ jobs' = [jobs EXCEPT ![j] = NewJob(s)]
  /\ Return(s, call[s].verdict = "wait")
  /\ UNCHANGED <<Elsewhere, strays, happened>>

\* Any call fails, also after it has deleted some jobs.  A create whose answer
\* is lost is AfterJobs followed by Resync.
ApiError(s) ==
  /\ call[s].at # "idle"
  /\ Fault("error")
  /\ Return(s, TRUE)
  /\ UNCHANGED <<Elsewhere, jobs, strays>>

Step(s) ==
  \/ GetManagementCluster(s) \/ GetToken(s) \/ GetSecret(s)
  \/ ListPods(s) \/ ListJobs(s) \/ DeleteFailed(s) \/ AfterJobs(s)

-----------------------------------------------------------------------------
(* Rancher, the host cluster and the vCluster                              *)

Handler == <<pending, call>>

\* An event or the hourly resync of the informer.
Resync(s) ==
  /\ pending' = pending \cup {s}
  /\ UNCHANGED <<Elsewhere, jobs, strays, call, happened>>

RancherProgress(s) ==
  /\ \E step \in {<<"nothing", "managed">>, <<"managed", "token">>, <<"token", "command">>} :
       rancher[s] = step[1] /\ rancher' = [rancher EXCEPT ![s] = step[2]]
  /\ UNCHANGED <<secret, ready, applied, agent, jobs, strays, Handler, happened>>

PublishSecret(s) ==
  /\ s \notin secret
  /\ secret' = secret \cup {s}
  /\ UNCHANGED <<rancher, ready, applied, agent, jobs, strays, Handler, happened>>

\* Rancher follows the agent's connection, late.
ReadyFollows(s) ==
  /\ rancher[s] # "nothing" /\ (s \in ready) # (s \in agent)
  /\ ready' = IF s \in agent THEN ready \cup {s} ELSE ready \ {s}
  /\ UNCHANGED <<rancher, secret, applied, agent, jobs, strays, Handler, happened>>

JobStarts(j) ==
  /\ Exists(j) /\ jobs[j].state = "starting"
  /\ jobs' = [jobs EXCEPT ![j].state = "active"]
  /\ UNCHANGED <<Elsewhere, strays, Handler, happened>>

PodSucceeds(j) ==
  /\ Exists(j) /\ jobs[j].state = "active" /\ jobs[j].cmd
  /\ jobs' = [jobs EXCEPT ![j].state = "succeeded"]
  /\ applied' = applied \cup {jobs[j].svc}
  /\ UNCHANGED <<rancher, secret, ready, agent, strays, Handler, happened>>

\* Another pod follows the first failed one, the second one ends the job: the
\* backoffLimit of six that a job has by default, cut to one.
PodFails(j) ==
  /\ Exists(j) /\ jobs[j].state = "active"
  /\ jobs' = [jobs EXCEPT ![j].tried = TRUE,
                          ![j].state = IF jobs[j].tried THEN "over" ELSE "starting"]
  /\ UNCHANGED <<Elsewhere, strays, Handler, happened>>

\* ttlSecondsAfterFinished is zero.
JobExpires(j) ==
  /\ Exists(j) /\ jobs[j].state \in {"succeeded", "over"}
  /\ jobs' = [jobs EXCEPT ![j] = None]
  /\ UNCHANGED <<Elsewhere, strays, Handler, happened>>

StrayEnds(s) ==
  /\ s \in strays
  /\ strays' = strays \ {s}
  /\ applied' \in {applied, applied \cup {s}}
  /\ UNCHANGED <<rancher, secret, ready, agent, jobs, Handler, happened>>

AgentStarts(s) ==
  /\ s \in applied \ agent
  /\ agent' = agent \cup {s}
  /\ UNCHANGED <<rancher, secret, ready, applied, jobs, strays, Handler, happened>>

\* Somebody deletes the agent in the vCluster.
AgentRemoved(s) ==
  /\ s \in applied
  /\ Fault("removed")
  /\ applied' = applied \ {s} /\ agent' = agent \ {s}
  /\ UNCHANGED <<rancher, secret, ready, jobs, strays, Handler>>

Next ==
  \/ \E s \in Services :
       \/ Begin(s) \/ Step(s) \/ ApiError(s) \/ Resync(s)
       \/ RancherProgress(s) \/ PublishSecret(s) \/ ReadyFollows(s)
       \/ StrayEnds(s) \/ AgentStarts(s) \/ AgentRemoved(s)
  \/ \E j \in Jobs : JobStarts(j) \/ PodSucceeds(j) \/ PodFails(j) \/ JobExpires(j)

Spec == Init /\ [][Next]_vars

\* The queue serves its items and API calls return; Rancher and the job
\* controller do their part.  A command that is run again and again works once.
Fairness ==
  /\ \A s \in Services :
       /\ WF_vars(Begin(s)) /\ WF_vars(Step(s)) /\ WF_vars(Resync(s))
       /\ WF_vars(RancherProgress(s)) /\ WF_vars(PublishSecret(s)) /\ WF_vars(ReadyFollows(s))
       /\ WF_vars(StrayEnds(s)) /\ WF_vars(AgentStarts(s))
       /\ SF_vars(\E j \in Jobs : PodSucceeds(j) /\ jobs[j].svc = s)
  /\ \A j \in Jobs : WF_vars(JobStarts(j)) /\ WF_vars(PodFails(j) \/ PodSucceeds(j))
                     /\ WF_vars(JobExpires(j))

FairSpec == Spec /\ Fairness

-----------------------------------------------------------------------------
(* Properties                                                              *)

\* A job goes only after a pod of it has failed or when it is done: what the
\* handler decides from a list of jobs never hits a job that was healthy in it,
\* nor, by a name from an old list, a newer one.
SparesHealthy ==
  \A j \in Jobs : Exists(j) /\ jobs'[j] = None => jobs[j].tried \/ jobs[j].state = "succeeded"
SparesHealthyJobs == [][SparesHealthy]_vars

\* A job that has a command to run was created when its kubeconfig existed, so
\* that its pod can mount it, and Rancher was ready for the agent.
WaitedForAll ==
  \A j \in Jobs : Exists(j) /\ jobs[j].cmd => jobs[j].svc \in secret /\ rancher[jobs[j].svc] = "command"

\* A service gets its agent, and gets it back when it is removed, whatever fails
\* on the way.  That takes a namespace of its own: in a shared one the agent of
\* any service ends the installation of all (ensureAgentDeployed's first return).
InstalledInTheEnd == \A s \in Services : <>[](s \in agent)

\* What holds for services that share a namespace: they hold up each other's
\* jobs, and delete each other's failed ones, but one of them gets its agent.
NamespaceServed == \A n \in {NamespaceOf[s] : s \in Services} : <>[](\E s \in agent : NamespaceOf[s] = n)

\* The operator comes to rest: no install job is left or created for ever.
QuietInTheEnd == <>[](\A j \in Jobs : ~Exists(j))

\* When a ready cluster has lost its agent the job that is created installs it.
Redeploys ==
  \A s \in Services, j \in Jobs :
    call[s].ready /\ ~Exists(j) /\ jobs'[j] # None /\ jobs'[j].svc = s => jobs'[j].cmd
RedeployHasCommand == [][Redeploys]_vars

\* The agent of a service is installed by one pod at a time.
OneInstaller ==
  \A j \in Jobs :
    Exists(j) /\ jobs[j].state = "active" /\ jobs[j].cmd
    => /\ jobs[j].svc \notin strays
       /\ \A k \in Jobs \ {j} :
            Exists(k) /\ jobs[k].svc = jobs[j].svc => jobs[k].state # "active"
=============================================================================
