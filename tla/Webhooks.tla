------------------------------ MODULE Webhooks ------------------------------
(***************************************************************************)
(* The webhooks of one organisation: its endpoints                         *)
(* (modules/webhook), the dispatch of an event to them                     *)
(* (modules/webhook-dispatchers), the BullMQ queue and the processor that  *)
(* delivers one job (jobs/processors/webhook.processor.ts), with the       *)
(* delivery rows it keeps (modules/webhook-deliveries).                    *)
(*                                                                         *)
(* A job belongs to one endpoint and one event, and only one worker runs   *)
(* it at a time.  When the process that runs it dies, BullMQ's stall check *)
(* queues it again, MaxStalled times at most.  An action is one awaited    *)
(* step; Faults says which of them may go wrong.                           *)
(***************************************************************************)
EXTENDS Naturals, Sequences, FiniteSets

CONSTANTS
  Endpoints,   \* the endpoints that can ever be created
  Events,      \* the events that can ever be dispatched
  Admins,      \* concurrent calls of create and remove
  MaxWebhooks, \* plan.limits.maxWebhooks; the unlimited plan is a large one
  Attempts,    \* attempts of WebhookQueueService.add
  MaxStalled,  \* BullMQ's maxStalledCount
  Faults,      \* of "crash", "database" and "queue"
  NoEndpoint

Jobs == Endpoints \X Events

ASSUME ConstantsAssumption ==
  /\ IsFiniteSet(Endpoints) /\ IsFiniteSet(Admins) /\ Admins # {}
  /\ MaxWebhooks \in Nat /\ MaxStalled \in Nat
  /\ Attempts \in Nat \ {0}
  /\ NoEndpoint \notin Endpoints

VARIABLES
  endpoint,    \* webhook_endpoints.is_active, "absent" before the INSERT
  subscribed,  \* webhook_endpoints.events
  admin,       \* [pc, endpoint]: one call of create or remove
  targets,     \* the endpoints dispatch found for an event and has yet to queue
  dispatched,  \* events dispatch has been called for
  job,         \* [state, pc, code, deliveryId, created, made, stalled]
  rows,        \* the status of each delivery row of a job; the index is its id
  posts,       \* POSTs sent for a job
  answered     \* jobs whose endpoint has answered 2xx

vars == <<endpoint, subscribed, admin, targets, dispatched, job, rows, posts,
          answered>>

Status  == {"PENDING", "SUCCESS", "FAILED"}
Codes   == {"2xx", "404", "other"}
AdminPc == {"idle", "counted", "found"}
JobPc   == {"create", "store", "post", "succeed", "readBack", "fail", "return",
            "throw"}
JobType == [state : {"none", "waiting", "active", "completed", "failed"},
            pc : JobPc, code : Codes, deliveryId : Nat, created : Nat,
            made : Nat, stalled : Nat]
NewJob == [state |-> "none", pc |-> "create", code |-> "other",
           deliveryId |-> 0, created |-> 0, made |-> 0, stalled |-> 0]

Active == {w \in Endpoints : endpoint[w] = "active"}

Init ==
  /\ endpoint = [w \in Endpoints |-> "absent"]
  /\ subscribed = [w \in Endpoints |-> {}]
  /\ admin = [a \in Admins |-> [pc |-> "idle", endpoint |-> NoEndpoint]]
  /\ targets = [e \in Events |-> {}]
  /\ dispatched = {}
  /\ job = [j \in Jobs |-> NewJob]
  /\ rows = [j \in Jobs |-> <<>>]
  /\ posts = [j \in Jobs |-> 0]
  /\ answered = {}

-----------------------------------------------------------------------------
(* WebhookTrackerInterceptor and WebhookService: create and remove         *)

jobVars == <<targets, dispatched, job, rows, posts, answered>>

\* The limit test of the interceptor.
BelowLimit == Cardinality(Active) < MaxWebhooks

Count(a, w) ==
  /\ admin[a].pc = "idle"
  /\ endpoint[w] = "absent" /\ \A b \in Admins : admin[b].endpoint # w
  /\ BelowLimit
  /\ admin' = [admin EXCEPT ![a] = [pc |-> "counted", endpoint |-> w]]
  /\ UNCHANGED <<endpoint, subscribed, jobVars>>

Create(a, events) ==
  /\ admin[a].pc = "counted"
  /\ endpoint' = [endpoint EXCEPT ![admin[a].endpoint] = "active"]
  /\ subscribed' = [subscribed EXCEPT ![admin[a].endpoint] = events]
  /\ admin' = [admin EXCEPT ![a] = [pc |-> "idle", endpoint |-> NoEndpoint]]
  /\ UNCHANGED jobVars

Find(a, w) ==
  /\ admin[a].pc = "idle" /\ endpoint[w] = "active"
  /\ admin' = [admin EXCEPT ![a] = [pc |-> "found", endpoint |-> w]]
  /\ UNCHANGED <<endpoint, subscribed, jobVars>>

Remove(a) ==
  /\ admin[a].pc = "found"
  /\ endpoint' = [endpoint EXCEPT ![admin[a].endpoint] = "removed"]
  /\ admin' = [admin EXCEPT ![a] = [pc |-> "idle", endpoint |-> NoEndpoint]]
  /\ UNCHANGED <<subscribed, jobVars>>

AbandonCall(a) ==
  /\ admin[a].pc # "idle"
  /\ admin' = [admin EXCEPT ![a] = [pc |-> "idle", endpoint |-> NoEndpoint]]
  /\ UNCHANGED <<endpoint, subscribed, jobVars>>

-----------------------------------------------------------------------------
(* WebhookDispatcherService.dispatch                                       *)

adminVars == <<endpoint, subscribed, admin>>

Becomes(j, k) == job' = [job EXCEPT ![j] = k]

Dispatch(e) ==
  /\ e \notin dispatched
  /\ dispatched' = dispatched \cup {e}
  /\ targets' = [targets EXCEPT ![e] = {w \in Active : e \in subscribed[w]}]
  /\ UNCHANGED <<adminVars, job, rows, posts, answered>>

\* The loop does not await the adds, so they succeed or fail one by one.
Enqueue(w, e) ==
  /\ w \in targets[e]
  /\ targets' = [targets EXCEPT ![e] = @ \ {w}]
  /\ Becomes(<<w, e>>, [job[<<w, e>>] EXCEPT !.state = "waiting"])
  /\ UNCHANGED <<adminVars, dispatched, rows, posts, answered>>

EnqueueFails(w, e) ==
  /\ "queue" \in Faults
  /\ w \in targets[e]
  /\ targets' = [targets EXCEPT ![e] = @ \ {w}]
  /\ UNCHANGED <<adminVars, dispatched, job, rows, posts, answered>>

-----------------------------------------------------------------------------
(* WebhookProcessor.process                                                *)

otherVars == <<adminVars, targets, dispatched>>

At(j, pc) == job[j].state = "active" /\ job[j].pc = pc
Goto(j, pc) == Becomes(j, [job[j] EXCEPT !.pc = pc])

\* A worker takes the job: a known deliveryId skips the creation of the row.
Take(j) ==
  /\ job[j].state = "waiting"
  /\ Becomes(j, [job[j] EXCEPT !.state = "active",
                    !.pc = IF job[j].deliveryId = 0 THEN "create" ELSE "post"])
  /\ UNCHANGED <<otherVars, rows, posts, answered>>

CreatePending(j) ==
  /\ At(j, "create")
  /\ rows' = [rows EXCEPT ![j] = Append(@, "PENDING")]
  /\ Becomes(j, [job[j] EXCEPT !.pc = "store", !.created = Len(rows[j]) + 1])
  /\ UNCHANGED <<otherVars, posts, answered>>

\* job.updateData: the row's id is kept on the job.
StoredNothing(j) == 0
StoredId(j) == job[j].created

Store(j) ==
  /\ At(j, "store")
  /\ Becomes(j, [job[j] EXCEPT !.pc = "post", !.deliveryId = StoredId(j)])
  /\ UNCHANGED <<otherVars, rows, posts, answered>>

\* Where the answer of the endpoint leads: axios throws unless it is 2xx.
AfterPostAlways(code) == "succeed"
AfterPost(code) == IF code = "2xx" THEN "succeed" ELSE "fail"

\* A code of "other" is an error status, a timeout or no connection.
Post(j, code) ==
  /\ At(j, "post")
  /\ posts' = [posts EXCEPT ![j] = @ + 1]
  /\ answered' = IF code = "2xx" THEN answered \cup {j} ELSE answered
  /\ Becomes(j, [job[j] EXCEPT !.pc = AfterPost(code), !.code = code])
  /\ UNCHANGED <<otherVars, rows>>

\* recordAttempt(SUCCESS) updates the row and reads it back for the audit log.
RecordSuccess(j) ==
  /\ At(j, "succeed")
  /\ rows' = [rows EXCEPT ![j][job[j].deliveryId] = "SUCCESS"]
  /\ Goto(j, "readBack")
  /\ UNCHANGED <<otherVars, posts, answered>>

ReadBack(j) ==
  /\ At(j, "readBack")
  /\ Goto(j, "return")
  /\ UNCHANGED <<otherVars, rows, posts, answered>>

\* The catch block: FAILED after a 404 and on the last attempt, else PENDING.
IsLastAttempt(j) == job[j].made + 1 >= Attempts
StatusCode(j) == job[j].code
FailedOnlyAtEnd(j) == IF IsLastAttempt(j) THEN "FAILED" ELSE "PENDING"
FailureStatus(j) ==
  IF job[j].code = "404" \/ IsLastAttempt(j) THEN "FAILED" ELSE "PENDING"

RecordFailure(j) ==
  /\ At(j, "fail")
  /\ rows' = [rows EXCEPT ![j][job[j].deliveryId] = FailureStatus(j)]
  /\ Goto(j, IF job[j].code = "404" THEN "return" ELSE "throw")
  /\ UNCHANGED <<otherVars, posts, answered>>

\* process returned: BullMQ completes the job.
Complete(j) ==
  /\ At(j, "return")
  /\ Becomes(j, [job[j] EXCEPT !.state = "completed"])
  /\ UNCHANGED <<otherVars, rows, posts, answered>>

\* process threw: BullMQ counts the attempt and queues the job again, or keeps
\* it as failed.
ExhaustedLate(j) == job[j].made >= Attempts
Exhausted(j) == job[j].made + 1 >= Attempts
RemovedAfterThrow(j) == IF Exhausted(j) THEN "none" ELSE "waiting"
AfterThrow(j) == IF Exhausted(j) THEN "failed" ELSE "waiting"

Retry(j) ==
  /\ At(j, "throw")
  /\ Becomes(j, [job[j] EXCEPT !.made = @ + 1, !.state = AfterThrow(j)])
  /\ UNCHANGED <<otherVars, rows, posts, answered>>

\* An awaited database or Redis call throws.  Inside the try block that leads to
\* the catch block, whose error is then not an HTTP one; elsewhere out of process.
DatabaseFails(j) ==
  /\ "database" \in Faults
  /\ \/ \E pc \in {"create", "store", "fail"} : At(j, pc) /\ Goto(j, "throw")
     \/ /\ At(j, "succeed") \/ At(j, "readBack")
        /\ Becomes(j, [job[j] EXCEPT !.pc = "fail", !.code = "other"])
  /\ UNCHANGED <<otherVars, rows, posts, answered>>

\* The process dies, and the stall check finds the job.
Crash(j) ==
  /\ "crash" \in Faults
  /\ job[j].state = "active"
  /\ Becomes(j, [job[j] EXCEPT !.stalled = @ + 1,
                    !.state = IF job[j].stalled < MaxStalled
                              THEN "waiting" ELSE "failed"])
  /\ UNCHANGED <<otherVars, rows, posts, answered>>

-----------------------------------------------------------------------------
AdminNext(a) ==
  \/ \E w \in Endpoints : Count(a, w) \/ Find(a, w)
  \/ \E events \in SUBSET Events : Create(a, events)
  \/ Remove(a) \/ AbandonCall(a)

Step(j) ==
  \/ Take(j) \/ CreatePending(j) \/ Store(j)
  \/ \E code \in Codes : Post(j, code)
  \/ RecordSuccess(j) \/ ReadBack(j) \/ RecordFailure(j)
  \/ Complete(j) \/ Retry(j)

Next ==
  \/ \E a \in Admins : AdminNext(a)
  \/ \E e \in Events : Dispatch(e)
  \/ \E w \in Endpoints, e \in Events : Enqueue(w, e) \/ EnqueueFails(w, e)
  \/ \E j \in Jobs : Step(j) \/ DatabaseFails(j) \/ Crash(j)

Spec == Init /\ [][Next]_vars

\* Workers keep taking jobs and every awaited call returns; the POST has a
\* timeout of five seconds.
FairSpec == Spec /\ \A j \in Jobs : WF_vars(Step(j))

-----------------------------------------------------------------------------
(* Properties                                                              *)

Done(j) == job[j].state \in {"completed", "failed"}

\* Every variable has its type, and the row ids of a job are indices of rows.
TypeOK ==
  /\ endpoint \in [Endpoints -> {"absent", "active", "removed"}]
  /\ subscribed \in [Endpoints -> SUBSET Events]
  /\ admin \in [Admins -> [pc : AdminPc, endpoint : Endpoints \cup {NoEndpoint}]]
  /\ \A a \in Admins : admin[a].pc # "idle" => admin[a].endpoint \in Endpoints
  /\ targets \in [Events -> SUBSET Endpoints]
  /\ dispatched \subseteq Events
  /\ job \in [Jobs -> JobType]
  /\ rows \in [Jobs -> Seq(Status)]
  /\ \A j \in Jobs : /\ job[j].deliveryId <= Len(rows[j])
                     /\ job[j].created <= Len(rows[j])
  /\ posts \in [Jobs -> Nat]
  /\ answered \subseteq Jobs

\* An endpoint is sent one event at most once per attempt and per crash,
\* whatever fails in between.
PostsBounded == \A j \in Jobs : posts[j] <= Attempts + MaxStalled

\* A row says SUCCESS only of an event whose endpoint answered 2xx.
SuccessIsTrue ==
  \A j \in Jobs : \A i \in DOMAIN rows[j] : rows[j][i] = "SUCCESS" => j \in answered

\* Concurrent creates can exceed maxWebhooks, by less than their number.
OvershootBounded == Cardinality(Active) < MaxWebhooks + Cardinality(Admins)

\* What the README promises, for the jobs dispatch could queue.
RecordOf(j) == IF rows[j] = <<>> THEN "none" ELSE rows[j][Len(rows[j])]
Record == INSTANCE DeliveryRecord
            WITH Deliveries <- Jobs, record <- [j \in Jobs |-> RecordOf(j)]
RecordPromise == Record!Spec

\* Every queued job is done with eventually, whatever fails.
JobsEnd == \A j \in Jobs : (job[j].state = "waiting") ~> Done(j)

\* README, Webhooks: each event has one delivery record.
OneRecord == \A j \in Jobs : Len(rows[j]) <= 1

=============================================================================
