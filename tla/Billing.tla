------------------------------ MODULE Billing ------------------------------
(* The subscription of ONE organization: its row in Postgres, the job that   *)
(* subscribes it after registration, Stripe and the events it delivers, the  *)
(* owners who switch the plan or rename the organization, and the daily      *)
(* trial expiry.  The row is written by all of them without a lock or a      *)
(* version; each call of Stripe and of Postgres is an action of its own.     *)
EXTENDS Integers, FiniteSets

CONSTANTS
    Plans,       \* the plans
    Priced,      \* those with a Stripe price
    FreePlan,    \* the one without a trial
    NoSub,       \* NULL in stripe_subscription_id
    TrialDays,   \* trialDays of the other plans
    Grace,       \* the 5 days of the trial expiry
    Horizon,     \* bound: the last day
    Attempts,    \* attempts of subscription.create
    MaxStalled,  \* BullMQ's maxStalledCount
    MaxEvents,   \* bound: events Stripe sends
    Owners,      \* calls of updatePlan in progress at once
    Renamers,    \* calls of updateName in progress at once
    Instances,   \* instances of the application, each with its cron
    MayMiss      \* an instance may be down at midnight, or a phase fail

Runs == Attempts + MaxStalled     \* how often the job can be begun
Customers == 1 .. Runs            \* each run creates at most one
\* Stripe's idempotency key, sub_<customer>_<price>, names the subscription.
SubIds == Customers \X Plans
Statuses == {"FREE", "TRIAL", "ACTIVE", "SUSPENDED", "CANCELLED"}
StripeStatuses == {"trialing", "active", "past_due", "unpaid", "canceled"}

ASSUME BillingAssumption ==
    /\ Priced \subseteq Plans /\ FreePlan \in Plans /\ NoSub \notin SubIds
    /\ TrialDays \in Nat /\ TrialDays > 0 /\ Grace \in Nat
    /\ Horizon \in Nat /\ Attempts \in Nat /\ Attempts > 0
    /\ MaxStalled \in Nat /\ MaxEvents \in Nat /\ MayMiss \in BOOLEAN

VARIABLES
    today,       \* the clock, in days
    row,         \* the organization's row; customer and trialEnds 0 are NULL
    job,         \* the job subscription.create
    customers,   \* Stripe: the customers created for the organization
    subs,        \* Stripe: the subscriptions; "none" is not created
    events,      \* Stripe: the events, numbered as they were sent
    sent,        \* Stripe: how many
    pending,     \* Stripe: those without a 200 yet
    found,       \* events whose handler has found the organization
    owner,       \* the calls of updatePlan
    renamer,     \* the calls of updateName
    cron,        \* the phase each instance's trial expiry has come to
    suspendedOn, \* history: the day the cron suspended the organization, or 0
    latest,      \* history: the newest event applied, or 0
    astray       \* history: an event was dropped because the organization
                 \* did not have its id yet, or applied after a newer one, or
                 \* the job recorded the subscription again after events of it

stripe == <<customers, subs, events, sent, pending>>
vars == <<today, row, job, stripe, found, owner, renamer, cron,
          suspendedOn, latest, astray>>

Columns == {"plan", "customer", "sub", "status", "active", "trialEnds"}
RowType == [plan : Plans, customer : Customers \cup {0},
            sub : SubIds \cup {NoSub}, status : Statuses, active : BOOLEAN,
            trialEnds : {0, TrialDays}]
JobType == [pc : {"none", "queued", "customer", "store", "subscribe", "record",
                  "ack", "done", "failed"},
            tries : Nat, stalls : Nat, customer : Customers \cup {0},
            plan : Plans, trialEnds : {0, TrialDays}, trial : BOOLEAN]
SubType == [status : StripeStatuses \cup {"none"}, price : Plans,
            trial : BOOLEAN]
EventType == [kind : {"updated", "deleted", "failed"}, sub : SubIds,
              status : StripeStatuses]
CallType == [pc : {"idle", "retrieve", "switch", "save", "update"},
             read : RowType, plan : Plans, diff : SUBSET Columns]

\* register: the row as the transaction of AuthService writes it.
NewRow(p) == [plan |-> p, customer |-> 0, sub |-> NoSub,
              status |-> IF p = FreePlan THEN "FREE" ELSE "TRIAL",
              active |-> TRUE,
              trialEnds |-> IF p = FreePlan THEN 0 ELSE TrialDays]

IdleCall == [pc |-> "idle", read |-> NewRow(FreePlan), plan |-> FreePlan,
             diff |-> {}]

\* The job was enqueued, or that failed and was only logged.
Init ==
    /\ today = 0
    /\ \E p \in Plans :
           /\ row = NewRow(p)
           /\ \E pc \in {"none", "queued"} :
                  job = [pc |-> pc, tries |-> 0, stalls |-> 0, customer |-> 0,
                         plan |-> p, trialEnds |-> 0, trial |-> FALSE]
    /\ customers = 0
    /\ subs = [id \in SubIds |-> [status |-> "none", price |-> id[2],
                                  trial |-> FALSE]]
    /\ events = [n \in 1 .. MaxEvents |->
                     [kind |-> "updated", sub |-> <<1, row.plan>>,
                      status |-> "active"]]
    /\ sent = 0 /\ pending = {} /\ found = {}
    /\ owner = [o \in Owners |-> IdleCall]
    /\ renamer = [r \in Renamers |-> IdleCall]
    /\ cron = [i \in Instances |-> "idle"]
    /\ suspendedOn = 0 /\ latest = 0 /\ astray = FALSE

-----------------------------------------------------------------------------
\* createSubscription, run by the worker.

JobLoad ==
    /\ job.pc = "queued"
    /\ job' = [job EXCEPT !.pc = IF row.customer = 0 THEN "customer"
                                 ELSE "subscribe",
                          !.customer = row.customer, !.plan = row.plan,
                          !.trialEnds = row.trialEnds]
    /\ UNCHANGED <<today, row, stripe, found, owner, renamer, cron, suspendedOn,
                   latest, astray>>

\* createCustomer has no idempotency key: every call makes a customer.
JobCustomer ==
    /\ job.pc = "customer"
    /\ customers < Runs
    /\ customers' = customers + 1
    /\ job' = [job EXCEPT !.pc = "store", !.customer = customers + 1]
    /\ UNCHANGED <<today, row, subs, events, sent, pending, found, owner,
                   renamer, cron, suspendedOn, latest, astray>>

\* A plausible mutant: the customer is stored with the subscription, later.
JobStoreCustomer_late ==
    /\ job.pc = "store"
    /\ job' = [job EXCEPT !.pc = "subscribe"]
    /\ UNCHANGED <<today, row, stripe, found, owner, renamer, cron, suspendedOn,
                   latest, astray>>

JobStoreCustomer ==
    /\ job.pc = "store"
    /\ row' = [row EXCEPT !.customer = job.customer]
    /\ job' = [job EXCEPT !.pc = "subscribe"]
    /\ UNCHANGED <<today, stripe, found, owner, renamer, cron, suspendedOn,
                   latest, astray>>

\* A plausible mutant: what Stripe refuses is recorded all the same.
JobSubscribe_swallowed ==
    /\ job.pc = "subscribe"
    /\ job' = [job EXCEPT !.pc = "record", !.trial = today < job.trialEnds]
    /\ UNCHANGED <<today, row, stripe, found, owner, renamer, cron, suspendedOn,
                   latest, astray>>

\* isInTrial; Stripe answers a repeated key with the subscription it made, and
\* refuses one whose parameters differ.
JobSubscribe ==
    LET id == <<job.customer, job.plan>>
        isInTrial == today < job.trialEnds
    IN  /\ job.pc = "subscribe"
        /\ job.plan \in Priced
        /\ \/ /\ subs[id].status = "none"
              /\ subs' = [subs EXCEPT ![id].status =
                              IF isInTrial THEN "trialing" ELSE "active",
                          ![id].trial = isInTrial]
           \/ /\ subs[id].status # "none"
              /\ subs[id].trial = isInTrial
              /\ UNCHANGED subs
        /\ job' = [job EXCEPT !.pc = "record", !.trial = isInTrial]
        /\ UNCHANGED <<today, row, customers, events, sent, pending, found,
                       owner, renamer, cron, suspendedOn, latest, astray>>

JobRecord ==
    /\ job.pc = "record"
    /\ row' = [row EXCEPT !.sub = <<job.customer, job.plan>>,
                          !.status = IF job.trial THEN "TRIAL" ELSE "ACTIVE"]
    /\ job' = [job EXCEPT !.pc = "ack"]
    /\ astray' = (astray \/ (row.sub # NoSub /\ sent > 0))
    /\ UNCHANGED <<today, stripe, found, owner, renamer, cron, suspendedOn,
                   latest>>

JobDone ==
    /\ job.pc = "ack"
    /\ job' = [job EXCEPT !.pc = "done"]
    /\ UNCHANGED <<today, row, stripe, found, owner, renamer, cron, suspendedOn,
                   latest, astray>>

JobRuns ==
    job.pc \in {"queued", "customer", "store", "subscribe", "record", "ack"}

\* A call throws (a plan without a price does): an attempt is used up.
JobFails ==
    /\ JobRuns /\ job.pc # "ack"
    /\ job' = [job EXCEPT !.pc = IF job.tries + 1 < Attempts THEN "queued"
                                 ELSE "failed",
                          !.tries = @ + 1]
    /\ UNCHANGED <<today, row, stripe, found, owner, renamer, cron, suspendedOn,
                   latest, astray>>

\* The worker dies: BullMQ's stall check queues the job again, MaxStalled times
\* at most, whatever attempts it has left.
JobStalls ==
    /\ JobRuns
    /\ job' = [job EXCEPT !.pc = IF job.stalls < MaxStalled THEN "queued"
                                 ELSE "failed",
                          !.stalls = @ + 1]
    /\ UNCHANGED <<today, row, stripe, found, owner, renamer, cron, suspendedOn,
                   latest, astray>>

Job == JobLoad \/ JobCustomer \/ JobStoreCustomer \/ JobSubscribe \/ JobRecord
       \/ JobDone \/ JobFails \/ JobStalls
JobEnded == job.pc \in {"none", "done", "failed"}

-----------------------------------------------------------------------------
\* Stripe, as the code uses it.

\* The statuses a subscription may go to.
Leads(s) == CASE s = "trialing" -> {"active", "canceled"}
              [] s = "active"   -> {"canceled"}
              [] s = "past_due" -> {"active", "unpaid", "canceled"}
              [] s = "unpaid"   -> {"active", "canceled"}
              [] OTHER          -> {}

Event(kind, id, s) == [kind |-> kind, sub |-> id, status |-> s]

\* A change sends one event: the status it came to, or the deletion.
StripeChanges(id) ==
    \E s \in Leads(subs[id].status) :
        /\ sent < MaxEvents
        /\ subs' = [subs EXCEPT ![id].status = s]
        /\ \E kind \in {"updated", "deleted"} :
               /\ kind = "deleted" => s = "canceled"
               /\ events' = [events EXCEPT ![sent + 1] = Event(kind, id, s)]
        /\ sent' = sent + 1
        /\ pending' = pending \cup {sent + 1}
        /\ UNCHANGED <<today, row, job, customers, found, owner, renamer, cron,
                       suspendedOn, latest, astray>>

\* A payment fails: the invoice's event, then the subscription's.
PaymentFails(id) ==
    /\ subs[id].status \in {"trialing", "active"}
    /\ sent + 1 < MaxEvents
    /\ subs' = [subs EXCEPT ![id].status = "past_due"]
    /\ events' = [events EXCEPT ![sent + 1] = Event("failed", id, "past_due"),
                                ![sent + 2] = Event("updated", id, "past_due")]
    /\ sent' = sent + 2
    /\ pending' = pending \cup {sent + 1, sent + 2}
    /\ UNCHANGED <<today, row, job, customers, found, owner, renamer, cron,
                   suspendedOn, latest, astray>>

-----------------------------------------------------------------------------
\* StripeWebhookService.

\* getOneBy: by the subscription, or for an invoice by the customer.
Known(e) ==
    IF e.kind = "failed" THEN row.customer = e.sub[1] ELSE row.sub = e.sub

\* Events come in any order.  One of no organization is answered 200: it does
\* not come again.
Receive(n) ==
    /\ n \in pending \ found
    /\ IF Known(events[n])
       THEN found' = found \cup {n} /\ UNCHANGED <<pending, astray>>
       ELSE pending' = pending \ {n} /\ astray' = TRUE /\ UNCHANGED found
    /\ UNCHANGED <<today, row, job, customers, subs, events, sent, owner,
                   renamer, cron, suspendedOn, latest>>

\* Plausible mutants: Stripe's status as it is; unpaid read as still active.
PaymentStatus_raw(s) == s
PaymentStatus_lenient(s) == CASE s \in {"active", "unpaid"} -> "ACTIVE"
                              [] s = "trialing" -> "TRIAL"
                              [] s = "past_due" -> "SUSPENDED"
                              [] s = "canceled" -> "CANCELLED"

\* The payment status of a subscription's status.
PaymentStatus(s) == CASE s = "active"   -> "ACTIVE"
                      [] s = "trialing" -> "TRIAL"
                      [] s \in {"past_due", "unpaid"} -> "SUSPENDED"
                      [] s = "canceled" -> "CANCELLED"

StatusOf(e) == CASE e.kind = "updated" -> PaymentStatus(e.status)
                 [] e.kind = "deleted" -> "CANCELLED"
                 [] e.kind = "failed"  -> "SUSPENDED"

\* updateFields; a 200 that Stripe does not see makes it deliver again.
Apply(n) ==
    LET s == StatusOf(events[n]) IN
    /\ n \in found
    /\ row' = [row EXCEPT !.status = s, !.active = @ /\ s # "CANCELLED"]
    /\ found' = found \ {n}
    /\ pending' \in {pending, pending \ {n}}
    /\ latest' = n /\ astray' = (astray \/ n < latest)
    /\ UNCHANGED <<today, job, customers, subs, events, sent, owner, renamer,
                   cron, suspendedOn>>

\* The handler throws or its instance dies: Stripe delivers again.
HandlerFails(n) ==
    /\ n \in found
    /\ found' = found \ {n}
    /\ UNCHANGED <<today, row, job, stripe, owner, renamer, cron, suspendedOn,
                   latest, astray>>

-----------------------------------------------------------------------------
\* OrganizationService.  save() reads the row again, finds the columns in which
\* the object differs, and updates those: what the object was loaded with goes
\* back, and so does what others write between the SELECT and the UPDATE.

Differing(obj) == {x \in Columns : obj[x] # row[x]}
Written(obj, diff) ==
    LET Of(x) == IF x \in diff THEN obj[x] ELSE row[x]
    IN  [plan |-> Of("plan"), customer |-> Of("customer"), sub |-> Of("sub"),
         status |-> Of("status"), active |-> Of("active"),
         trialEnds |-> Of("trialEnds")]

updatePlan(o) ==
    /\ owner[o].pc = "idle"
    /\ row.sub # NoSub
    /\ row.status \in {"ACTIVE", "TRIAL"}
    /\ \E p \in Priced \ {row.plan} :
           owner' = [owner EXCEPT ![o] = [pc |-> "retrieve", read |-> row,
                                          plan |-> p, diff |-> {}]]
    /\ UNCHANGED <<today, row, job, stripe, found, renamer, cron, suspendedOn,
                   latest, astray>>

\* updateSubscription asks for the subscription's item, and whether it is in
\* trial, which it is if it still is at the next call.
Retrieve(o) ==
    /\ owner[o].pc = "retrieve"
    /\ subs[owner[o].read.sub].status # "none"
    /\ owner' = [owner EXCEPT ![o].pc = "switch"]
    /\ UNCHANGED <<today, row, job, stripe, found, renamer, cron, suspendedOn,
                   latest, astray>>

\* A canceled subscription is refused, a trial is ended.
SwitchPrice(o) ==
    LET id == owner[o].read.sub
        s  == IF subs[id].status = "trialing" THEN "active" ELSE subs[id].status
    IN  /\ owner[o].pc = "switch"
        /\ s \notin {"none", "canceled"}
        /\ sent < MaxEvents
        /\ subs' = [subs EXCEPT ![id].price = owner[o].plan, ![id].status = s]
        /\ events' = [events EXCEPT ![sent + 1] = Event("updated", id, s)]
        /\ sent' = sent + 1
        /\ pending' = pending \cup {sent + 1}
        /\ owner' = [owner EXCEPT ![o].pc = "save"]
        /\ UNCHANGED <<today, row, job, customers, found, renamer, cron,
                       suspendedOn, latest, astray>>

\* The row as it was read, with the plan, and a trial ended.
Switched(c) ==
    IF c.read.status = "TRIAL"
    THEN [c.read EXCEPT !.plan = c.plan, !.status = "ACTIVE", !.trialEnds = 0]
    ELSE [c.read EXCEPT !.plan = c.plan]

SelectPlan(o) ==
    /\ owner[o].pc = "save"
    /\ owner' = [owner EXCEPT ![o].pc = "update",
                              ![o].diff = Differing(Switched(owner[o]))]
    /\ UNCHANGED <<today, row, job, stripe, found, renamer, cron, suspendedOn,
                   latest, astray>>

SavePlan(o) ==
    /\ owner[o].pc = "update"
    /\ row' = Written(Switched(owner[o]), owner[o].diff)
    /\ owner' = [owner EXCEPT ![o] = IdleCall]
    /\ UNCHANGED <<today, job, stripe, found, renamer, cron, suspendedOn,
                   latest, astray>>

SwitchFails(o) ==
    /\ owner[o].pc # "idle"
    /\ owner' = [owner EXCEPT ![o] = IdleCall]
    /\ UNCHANGED <<today, row, job, stripe, found, renamer, cron, suspendedOn,
                   latest, astray>>

\* updateName; the name itself is not modelled.
updateName(r) ==
    /\ renamer[r].pc = "idle"
    /\ renamer' = [renamer EXCEPT ![r] = [IdleCall EXCEPT !.pc = "save",
                                                          !.read = row]]
    /\ UNCHANGED <<today, row, job, stripe, found, owner, cron, suspendedOn,
                   latest, astray>>

SelectName(r) ==
    /\ renamer[r].pc = "save"
    /\ renamer' = [renamer EXCEPT ![r].pc = "update",
                                  ![r].diff = Differing(renamer[r].read)]
    /\ UNCHANGED <<today, row, job, stripe, found, owner, cron, suspendedOn,
                   latest, astray>>

SaveName(r) ==
    /\ renamer[r].pc = "update"
    /\ row' = Written(renamer[r].read, renamer[r].diff)
    /\ renamer' = [renamer EXCEPT ![r] = IdleCall]
    /\ UNCHANGED <<today, job, stripe, found, owner, cron, suspendedOn, latest,
                   astray>>

RenameFails(r) ==
    /\ renamer[r].pc # "idle"
    /\ renamer' = [renamer EXCEPT ![r] = IdleCall]
    /\ UNCHANGED <<today, row, job, stripe, found, owner, cron, suspendedOn,
                   latest, astray>>

-----------------------------------------------------------------------------
\* TrialExpiryScheduler, once a day in every instance: two phases in this order.

\* A plausible mutant: suspend first.
PhaseOrder_swapped == <<"suspend", "cancel">>
PhaseOrder == <<"cancel", "suspend">>

\* The cron goes on to the phase after p, whether p failed or not.
Passed(i, p) == cron' = [cron EXCEPT ![i] =
                    IF p = PhaseOrder[1] THEN PhaseOrder[2] ELSE "idle"]

\* A plausible mutant: no grace.
GraceOver_none == row.trialEnds < today
GraceOver == row.trialEnds < today - Grace

ToCancel == /\ row.active /\ row.status = "SUSPENDED" /\ row.sub = NoSub
            /\ row.trialEnds # 0 /\ GraceOver

CancelPhase(i) ==
    /\ cron[i] = "cancel"
    /\ row' = IF ToCancel
              THEN [row EXCEPT !.status = "CANCELLED", !.active = FALSE]
              ELSE row
    /\ Passed(i, "cancel")
    /\ UNCHANGED <<today, job, stripe, found, owner, renamer, suspendedOn,
                   latest, astray>>

\* A plausible mutant: only organizations Stripe knows are looked at.
ToSuspend_customers ==
    /\ row.active /\ row.status = "TRIAL" /\ row.sub = NoSub
    /\ row.trialEnds # 0 /\ row.trialEnds < today /\ row.customer # 0

ToSuspend == /\ row.active /\ row.status = "TRIAL" /\ row.sub = NoSub
             /\ row.trialEnds # 0 /\ row.trialEnds < today

SuspendPhase(i) ==
    /\ cron[i] = "suspend"
    /\ IF ToSuspend THEN /\ row' = [row EXCEPT !.status = "SUSPENDED"]
                         /\ suspendedOn' = today
       ELSE UNCHANGED <<row, suspendedOn>>
    /\ Passed(i, "suspend")
    /\ UNCHANGED <<today, job, stripe, found, owner, renamer, latest, astray>>

\* runPhase logs what a phase throws and goes on.
PhaseFails(i) ==
    /\ MayMiss
    /\ cron[i] # "idle"
    /\ Passed(i, cron[i])
    /\ UNCHANGED <<today, row, job, stripe, found, owner, renamer, suspendedOn,
                   latest, astray>>

\* Midnight: the cron starts in the instances that are up.
Tick ==
    /\ today < Horizon
    /\ \A i \in Instances : cron[i] = "idle"
    /\ today' = today + 1
    /\ \E up \in IF MayMiss THEN SUBSET Instances ELSE {Instances} :
           cron' = [i \in Instances |->
                        IF i \in up THEN PhaseOrder[1] ELSE "idle"]
    /\ UNCHANGED <<row, job, stripe, found, owner, renamer, suspendedOn, latest,
                   astray>>

Cron(i) == CancelPhase(i) \/ SuspendPhase(i) \/ PhaseFails(i)

SwitchPlan(o) == updatePlan(o) \/ Retrieve(o) \/ SwitchPrice(o) \/ SelectPlan(o)
                 \/ SavePlan(o) \/ SwitchFails(o)
Rename(r) == updateName(r) \/ SelectName(r) \/ SaveName(r) \/ RenameFails(r)

Next ==
    \/ Job \/ Tick
    \/ \E id \in SubIds : StripeChanges(id) \/ PaymentFails(id)
    \/ \E n \in 1 .. MaxEvents : Receive(n) \/ Apply(n) \/ HandlerFails(n)
    \/ \E o \in Owners : SwitchPlan(o)
    \/ \E r \in Renamers : Rename(r)
    \/ \E i \in Instances : Cron(i)

Spec == Init /\ [][Next]_vars

\* Days pass and the cron runs; nothing else is promised to happen.
LiveSpec == Spec /\ WF_vars(Tick) /\ \A i \in Instances : WF_vars(Cron(i))

-----------------------------------------------------------------------------
\* Types.
TypeOK ==
    /\ today \in Nat
    /\ row \in RowType
    /\ job \in JobType
    /\ customers \in 0 .. Runs
    /\ subs \in [SubIds -> SubType]
    /\ events \in [1 .. MaxEvents -> EventType]
    /\ sent \in 0 .. MaxEvents
    /\ pending \subseteq 1 .. MaxEvents
    /\ found \subseteq pending
    /\ owner \in [Owners -> CallType]
    /\ renamer \in [Renamers -> CallType]
    /\ cron \in [Instances -> {"idle", "cancel", "suspend"}]
    /\ suspendedOn \in Nat
    /\ latest \in 0 .. MaxEvents
    /\ astray \in BOOLEAN

\* However often the job fails, stalls and runs again, the organization gets at
\* most one subscription: the customer is stored before it is subscribed, and
\* the idempotency key is the customer's.  Stated for an organization whose plan
\* nobody switches and which nobody renames: a stale row saved by either could
\* take the customer back.
OneSubscription ==
    Cardinality({id \in SubIds : subs[id].status # "none"}) <= 1

\* What the payment status of a subscription stands for.
Standing(id) == CASE subs[id].status = "trialing" -> "TRIAL"
                  [] subs[id].status = "active"   -> "ACTIVE"
                  [] subs[id].status = "canceled" -> "CANCELLED"
                  [] OTHER                        -> "SUSPENDED"

AtRest == /\ JobEnded /\ pending = {}
          /\ \A o \in Owners : owner[o].pc = "idle"
          /\ \A r \in Renamers : renamer[r].pc = "idle"

\* Once every event is answered and nobody is at work, the payment status of a
\* subscribed organization is the one Stripe has ("is kept in sync by Stripe
\* webhooks"), through failed handlers, lost answers, repeated events and those
\* that come before the job has ended, unless it went astray: there are three
\* ways to fall out of step with Stripe for good, and no other.
InSync ==
    AtRest /\ row.sub # NoSub /\ ~astray => row.status = Standing(row.sub)

\* An organization is cancelled only because Stripe canceled its subscription
\* or because its trial and the grace after it are over, whatever stale row
\* an owner saves.
Over == \/ \E id \in SubIds : subs[id].status = "canceled"
        \/ today > TrialDays + Grace
CancelledMeansOver == row.status = "CANCELLED" => Over

\* A row that names a subscription names one Stripe has made, and one that says
\* ACTIVE stands for a subscription Stripe made, whatever failed in the job and
\* whichever columns of a stale row an owner puts back.
SubscriptionIsReal ==
    /\ row.sub # NoSub => subs[row.sub].status # "none"
    /\ row.status = "ACTIVE" => \E id \in SubIds : subs[id].status # "none"

\* "Orgs suspended below don't also match the grace-period query in the same
\* run": what the cron suspends is not cancelled by a cron of the same day,
\* even when the cron missed days and the grace is long over.
FreshlySuspendedKept ==
    [][\A i \in Instances :
           CancelPhase(i) /\ row' # row => suspendedOn # today]_vars

\* A trial ends: the organization gets a subscription or is cancelled, also
\* when the job was lost or has failed for good.
TrialEnds == row.status = "TRIAL" ~> row.sub # NoSub \/ row.status = "CANCELLED"

=============================================================================
