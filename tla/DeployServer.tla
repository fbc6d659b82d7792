---------------------------- MODULE DeployServer ----------------------------
(***************************************************************************)
(* The part of the server a deploy run depends on, as internal/cmd/deploy  *)
(* uses it: the feed of deployments of each resource, the condition of the *)
(* resource itself, and which functions have the schedulers the manifests  *)
(* declare.  The server is not in the repository; wait.go's comments and   *)
(* branches say what it may do:                                            *)
(*   - a new deployment supersedes a queued one, or queues behind a build; *)
(*   - a resource keeps serving, and stays active, when a redeploy fails;  *)
(*   - changed variables are synchronised after a deployment completed,    *)
(*     and that holds a function in provisioning for a while;              *)
(*   - a scheduler can be created or changed on an active function only.   *)
(***************************************************************************)
EXTENDS Naturals, Sequences, FiniteSets

CONSTANTS
    Function,       \* standard functions runs deploy
    Durable,        \* durable functions runs deploy
    Frontend,       \* frontends runs deploy
    MaxDeployments, \* bound, for each resource: its deployments
    MaxResyncs      \* bound: variable re-synchronisations in a behaviour

ASSUME ResourceAssumption ==
    /\ Function \cap Durable = {}
    /\ Function \cap Frontend = {}
    /\ Durable \cap Frontend = {}
    /\ MaxDeployments \in [Function \cup Durable \cup Frontend -> Nat \ {0}]
    /\ MaxResyncs \in Nat

Callable == Function \cup Durable
Resource == Callable \cup Frontend

Status == {"queued", "provisioning", "active", "failed", "degraded",
           "deleting", "deleted", "superseded"}

Condition == {"absent", "provisioning", "active", "failed", "deleting"}

VARIABLES
    feed,      \* [Resource -> Seq(Status)]: a resource's deployments, oldest first
    condition, \* [Resource -> Condition]: the status of the resource itself
    inPlace,   \* the functions whose schedulers are as the manifests declare them
    resyncs    \* how many re-synchronisations happened

serverVars == <<feed, condition, inPlace, resyncs>>

ServerTypeOK ==
    /\ feed \in [Resource -> Seq(Status)]
    /\ condition \in [Resource -> Condition]
    /\ inPlace \subseteq Resource
    /\ resyncs \in Nat

\* Before the run, a resource is absent, or an earlier run deployed it.
ServerInit ==
    /\ condition \in [Resource -> {"absent", "active"}]
    /\ feed = [r \in Resource |->
                 IF condition[r] = "active" THEN <<"active">> ELSE << >>]
    /\ inPlace \in SUBSET {r \in Callable : condition[r] = "active"}
    /\ resyncs = 0

(***************************************************************************)
(* What a new deployment does to the feed of its resource.                 *)
(***************************************************************************)
\* Only the latest deployment of a resource can be queued.
Supersede(s) ==
    IF s # << >> /\ s[Len(s)] = "queued"
    THEN [s EXCEPT ![Len(s)] = "superseded"]
    ELSE s

CanDeploy(r) == condition[r] # "deleting" /\ Len(feed[r]) < MaxDeployments[r]

\* The feed of r grows by one queued deployment.  A function being deployed for
\* the first time is provisioning from then on.
Enqueue(r) ==
    /\ CanDeploy(r)
    /\ feed' = [feed EXCEPT ![r] = Append(Supersede(@), "queued")]
    /\ condition' = [condition EXCEPT
                       ![r] = IF @ = "active" THEN "active" ELSE "provisioning"]

(***************************************************************************)
(* The server's own steps.                                                 *)
(***************************************************************************)
\* Someone else, or a region change in an applied manifest, redeploys r.
Redeploy(r) ==
    /\ Enqueue(r)
    /\ UNCHANGED <<inPlace, resyncs>>

StartBuild(r) ==
    \E i \in DOMAIN feed[r] :
        /\ feed[r][i] = "queued"
        /\ \A j \in DOMAIN feed[r] : feed[r][j] # "provisioning"
        /\ feed' = [feed EXCEPT ![r][i] = "provisioning"]
        /\ condition' = [condition EXCEPT ![r] =
                           IF r \in Callable THEN "provisioning" ELSE @]
        /\ UNCHANGED <<inPlace, resyncs>>

FinishBuild(r) ==
    \E i \in DOMAIN feed[r], s \in {"active", "failed", "degraded"} :
        /\ feed[r][i] = "provisioning"
        /\ feed' = [feed EXCEPT ![r][i] = s]
        /\ condition' = [condition EXCEPT ![r] =
                IF s # "failed" \/ \E j \in DOMAIN feed[r] : feed[r][j] = "active"
                THEN "active" ELSE "failed"]
        /\ UNCHANGED <<inPlace, resyncs>>

\* Changed variables are synchronised to an active function ...
StartResync(r) ==
    /\ r \in Callable
    /\ condition[r] = "active"
    /\ resyncs < MaxResyncs
    /\ condition' = [condition EXCEPT ![r] = "provisioning"]
    /\ resyncs' = resyncs + 1
    /\ UNCHANGED <<feed, inPlace>>

\* ... which is active again when that is done and nothing is being built.
FinishResync(r) ==
    /\ condition[r] = "provisioning"
    /\ \A i \in DOMAIN feed[r] : feed[r][i] \notin {"queued", "provisioning"}
    /\ condition' = [condition EXCEPT ![r] = "active"]
    /\ UNCHANGED <<feed, inPlace, resyncs>>

\* Someone deletes r, and its latest deployment shows it.  The schedulers that
\* go with it stay in inPlace: their loss is not this run's to report.
Delete(r) ==
    /\ condition[r] = "active"
    /\ feed[r] # << >>
    /\ feed[r][Len(feed[r])] = "active"
    /\ feed' = [feed EXCEPT ![r][Len(feed[r])] = "deleting"]
    /\ condition' = [condition EXCEPT ![r] = "deleting"]
    /\ UNCHANGED <<inPlace, resyncs>>

FinishDelete(r) ==
    \E i \in DOMAIN feed[r] :
        /\ feed[r][i] = "deleting"
        /\ feed' = [feed EXCEPT ![r][i] = "deleted"]
        /\ UNCHANGED <<condition, inPlace, resyncs>>

\* What the server does without being asked to ...
ServerProgress(r) ==
    StartBuild(r) \/ FinishBuild(r) \/ FinishResync(r) \/ FinishDelete(r)

\* ... and what others make it do.
Interference(r) == Redeploy(r) \/ StartResync(r) \/ Delete(r)

\* A scheduler is accepted when it changes nothing, or on an active function.
Accepts(r) == condition[r] # "deleting" /\ (r \in inPlace \/ condition[r] = "active")
=============================================================================
