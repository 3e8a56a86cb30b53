---------------------------- MODULE Registration ----------------------------
(***************************************************************************)
(* POST /auth/register (register of modules/auth/auth.service.ts) and the  *)
(* mail it sends (jobs/queues/email.queue.ts,                              *)
(* jobs/processors/email.processor.ts).                                    *)
(*                                                                         *)
(* A call looks the address up, writes the organization and its OWNER in a *)
(* transaction, with the token of the verification link stored in Redis    *)
(* inside it, and enqueues the mail and the subscription job after the     *)
(* commit.  Calls run at once, in several processes; each action is one    *)
(* awaited step.  What a transaction has written is seen by nobody before  *)
(* Commit, except that an INSERT of the same address waits for it at the   *)
(* unique index of users.email.  Redis is not part of the transaction.     *)
(*                                                                         *)
(* Addresses are those that toLowerCase has answered (module Links has the *)
(* spellings); what is done with the link is there, what is done with the  *)
(* subscription job in Billing.  The names are this module's own, so that  *)
(* it can be extended together with Sessions, the other half of the file.  *)
(***************************************************************************)
EXTENDS Naturals, FiniteSets

CONSTANTS
  Requests,    \* calls of register; also names the organization and OWNER of each
  Members,     \* accounts that other modules create: acceptInvitation
  Addresses,
  NoAddress,   \* the address of an account that has no row
  Attempts,    \* attempts of EmailQueueService.add
  MaxStalled,  \* BullMQ's maxStalledCount
  Faults       \* of "database", "redis", "queue", "provider" and "crash"

Accounts == Requests \cup Members

ASSUME RegistrationAssumption ==
  /\ Requests \cap Members = {} /\ NoAddress \notin Addresses
  /\ Attempts \in Nat \ {0} /\ MaxStalled \in Nat

VARIABLES
  seeded,        \* the plans are in the database
  organizations, \* organizations that are committed
  address,       \* users.email, as committed
  isActive,      \* users.is_active, as committed
  tokens,        \* requests whose verify:email entry has been written
  register,      \* [pc, email]: what each call is at
  mail,          \* [state, template, made, stalled]: the e-mail job of a call
  subscription,  \* requests whose subscription.create job is queued
  sent           \* history: how often the provider took the mail of a call

registrationVars ==
  <<seeded, organizations, address, isActive, tokens, register, mail,
    subscription, sent>>

\* The transaction is open at organized, owned and stored.
Running == {"received", "planned", "known", "begun", "organized", "owned",
            "stored", "committed", "announced"}
Ended == {"answered", "failed", "died"}
RegisterType == [pc : Running \cup {"idle"} \cup Ended,
                 email : Addresses \cup {NoAddress}]

Templates == {"none", "welcome", "accountExists"}
InHand == {"active", "sent", "threw"}
MailType == [state : {"none", "waiting", "completed", "failed"} \cup InHand,
             template : Templates, made : 0..Attempts,
             stalled : 0..MaxStalled + 1]
NoMail == [state |-> "none", template |-> "none", made |-> 0, stalled |-> 0]

RegistrationInit ==
  /\ seeded = FALSE
  /\ organizations = {}
  /\ address = [a \in Accounts |-> NoAddress]
  /\ isActive = {}
  /\ tokens = {}
  /\ register = [r \in Requests |-> [pc |-> "idle", email |-> NoAddress]]
  /\ mail = [r \in Requests |-> NoMail]
  /\ subscription = {}
  /\ sent = [r \in Requests |-> 0]

-----------------------------------------------------------------------------
(* The call                                                                *)

jobs == <<mail, subscription, sent>>
accounts == <<organizations, address, isActive>>

At(r, pc) == register[r].pc = pc
Proceed(r, pc) ==
  register' = [register EXCEPT ![r] =
                 [pc |-> pc, email |-> IF pc \in Ended THEN NoAddress ELSE @.email]]

\* findOneBy({ email }): the committed rows.
HoldersOf(e) == {a \in Accounts : address[a] = e}
\* Transactions that have inserted a row with this address.
OpenWith(e) ==
  {s \in Requests : /\ register[s].pc \in {"owned", "stored"}
                    /\ register[s].email = e}

Receive(r, e) ==
  /\ At(r, "idle")
  /\ register' = [register EXCEPT ![r] = [pc |-> "received", email |-> e]]
  /\ UNCHANGED <<seeded, accounts, tokens, jobs>>

\* planService.getByName: no plan, no registration, whoever has the address.
FindPlan(r) ==
  /\ At(r, "received")
  /\ Proceed(r, IF seeded THEN "planned" ELSE "failed")
  /\ UNCHANGED <<seeded, accounts, tokens, jobs>>

\* A holder who was removed gets no mail.
Look(r) ==
  LET holders == HoldersOf(register[r].email) IN
  /\ At(r, "planned")
  /\ Proceed(r, IF holders = {} THEN "begun"
                ELSE IF holders \subseteq isActive THEN "known" ELSE "answered")
  /\ UNCHANGED <<seeded, accounts, tokens, jobs>>

Enqueue(r, template) ==
  mail' = [mail EXCEPT ![r] =
             [NoMail EXCEPT !.state = "waiting", !.template = template]]

Tell(r) ==
  /\ At(r, "known")
  /\ Proceed(r, "answered")
  /\ Enqueue(r, "accountExists")
  /\ UNCHANGED <<seeded, accounts, tokens, subscription, sent>>

SaveOrganization(r) ==
  /\ At(r, "begun")
  /\ Proceed(r, "organized")
  /\ UNCHANGED <<seeded, accounts, tokens, jobs>>

\* The INSERT meets the unique index: it waits for an open transaction with
\* the address, and fails when the address is held.
MayInsertLooked(r) == TRUE
MayInsert(r) == HoldersOf(register[r].email) = {}

SaveUser(r) ==
  /\ At(r, "organized") /\ OpenWith(register[r].email) = {}
  /\ Proceed(r, IF MayInsert(r) THEN "owned" ELSE "failed")
  /\ UNCHANGED <<seeded, accounts, tokens, jobs>>

StoreToken(r) ==
  /\ At(r, "owned")
  /\ Proceed(r, "stored")
  /\ tokens' = tokens \cup {r}
  /\ UNCHANGED <<seeded, accounts, jobs>>

Publish(r) ==
  /\ organizations' = organizations \cup {r}
  /\ address' = [address EXCEPT ![r] = register[r].email]
  /\ isActive' = isActive \cup {r}

Commit(r) ==
  /\ At(r, "stored")
  /\ Proceed(r, "committed")
  /\ Publish(r)
  /\ UNCHANGED <<seeded, tokens, jobs>>

\* Where the two jobs are added.
AnnouncedInside == {"stored", "committed"}
AnnouncedAt == {"committed"}

EnqueueWelcome(r) ==
  /\ register[r].pc \in AnnouncedAt
  /\ Proceed(r, "announced")
  /\ Enqueue(r, "welcome")
  /\ UNCHANGED <<seeded, accounts, tokens, subscription, sent>>

EnqueueSubscription(r) ==
  /\ At(r, "announced")
  /\ Proceed(r, "answered")
  /\ subscription' = subscription \cup {r}
  /\ UNCHANGED <<seeded, accounts, tokens, mail, sent>>

-----------------------------------------------------------------------------
(* What may go wrong in the call                                           *)

\* A query fails: the transaction is rolled back and the call answers 500.
QueryFails(r) ==
  /\ "database" \in Faults
  /\ register[r].pc \in {"received", "planned", "begun", "organized", "stored"}
  /\ Proceed(r, "failed")
  /\ UNCHANGED <<seeded, accounts, tokens, jobs>>

\* The commit is done but its answer is lost: the call answers 500 and enqueues
\* nothing.
CommitUnanswered(r) ==
  /\ "database" \in Faults
  /\ At(r, "stored")
  /\ Proceed(r, "failed")
  /\ Publish(r)
  /\ UNCHANGED <<seeded, tokens, jobs>>

\* Redis refuses the token, or its answer is lost.
StoreTokenFails(r) ==
  /\ "redis" \in Faults
  /\ At(r, "owned")
  /\ Proceed(r, "failed")
  /\ tokens' \in {tokens, tokens \cup {r}}
  /\ UNCHANGED <<seeded, accounts, jobs>>

\* A job that cannot be added is logged, and the call goes on.
EnqueueFails(r) ==
  /\ "queue" \in Faults
  /\ \/ register[r].pc \in {"known", "announced"} /\ Proceed(r, "answered")
     \/ At(r, "committed") /\ Proceed(r, "announced")
  /\ UNCHANGED <<seeded, accounts, tokens, jobs>>

\* The process dies: Postgres rolls an open transaction back.
Die(r) ==
  /\ "crash" \in Faults
  /\ register[r].pc \in Running
  /\ Proceed(r, "died")
  /\ UNCHANGED <<seeded, accounts, tokens, jobs>>

-----------------------------------------------------------------------------
(* EmailProcessor.process and BullMQ                                       *)

system == <<seeded, accounts, tokens, register, subscription>>

Becomes(r, state) == mail' = [mail EXCEPT ![r].state = state]
Taken(r) == sent' = [sent EXCEPT ![r] = @ + 1]

Take(r) ==
  /\ mail[r].state = "waiting"
  /\ Becomes(r, "active")
  /\ UNCHANGED <<system, sent>>

\* SES or Mailtrap takes the mail; the answer may be lost on the way.
Send(r) ==
  /\ mail[r].state = "active"
  /\ Becomes(r, "sent")
  /\ Taken(r)
  /\ UNCHANGED system

SendFails(r) ==
  /\ "provider" \in Faults
  /\ mail[r].state = "active"
  /\ Becomes(r, "threw")
  /\ Taken(r) \/ UNCHANGED sent
  /\ UNCHANGED system

\* removeOnComplete: nothing is left of the job.
Complete(r) ==
  /\ mail[r].state = "sent"
  /\ mail' = [mail EXCEPT ![r] = [NoMail EXCEPT !.state = "completed",
                                               !.template = mail[r].template]]
  /\ UNCHANGED <<system, sent>>

\* process threw: BullMQ queues the job again until its attempts are used up.
ExhaustedLate(r) == mail[r].made >= Attempts
Exhausted(r) == mail[r].made + 1 >= Attempts
AfterThrowDropped(r) == IF Exhausted(r) THEN "failed" ELSE "none"
AfterThrow(r) == IF Exhausted(r) THEN "failed" ELSE "waiting"

Retry(r) ==
  /\ mail[r].state = "threw"
  /\ mail' = [mail EXCEPT ![r].made = @ + 1, ![r].state = AfterThrow(r)]
  /\ UNCHANGED <<system, sent>>

\* The worker's process dies, and the stall check finds the job.
Stall(r) ==
  /\ "crash" \in Faults
  /\ mail[r].state \in InHand
  /\ mail' = [mail EXCEPT ![r].stalled = @ + 1,
                ![r].state = IF mail[r].stalled < MaxStalled
                             THEN "waiting" ELSE "failed"]
  /\ UNCHANGED <<system, sent>>

-----------------------------------------------------------------------------
(* The rest of the application                                             *)

\* plan.seeder.ts, run by hand; a second run changes nothing.
Seed ==
  /\ ~seeded
  /\ seeded' = TRUE
  /\ UNCHANGED <<accounts, tokens, register, jobs>>

\* acceptInvitation creates an account, confirmEmailChange moves one; both meet
\* the unique index as SaveUser does.
TakeAddress(a, e) ==
  /\ a \in isActive \/ (a \in Members /\ address[a] = NoAddress)
  /\ HoldersOf(e) = {} /\ OpenWith(e) = {}
  /\ address' = [address EXCEPT ![a] = e]
  /\ isActive' = isActive \cup {a}
  /\ UNCHANGED <<seeded, organizations, tokens, register, jobs>>

\* A member is removed, and brought back by another invitation.
ToggleMember(a) ==
  /\ a \in Members /\ address[a] # NoAddress
  /\ isActive' = IF a \in isActive THEN isActive \ {a} ELSE isActive \cup {a}
  /\ UNCHANGED <<seeded, organizations, address, tokens, register, jobs>>

-----------------------------------------------------------------------------
CallStep(r) ==
  \/ FindPlan(r) \/ Look(r) \/ Tell(r)
  \/ SaveOrganization(r) \/ SaveUser(r) \/ StoreToken(r) \/ Commit(r)
  \/ EnqueueWelcome(r) \/ EnqueueSubscription(r)

MailStep(r) == Take(r) \/ Send(r) \/ SendFails(r) \/ Complete(r) \/ Retry(r)

RegistrationNext ==
  \/ \E r \in Requests, e \in Addresses : Receive(r, e)
  \/ \E r \in Requests :
       \/ CallStep(r) \/ MailStep(r)
       \/ QueryFails(r) \/ CommitUnanswered(r) \/ StoreTokenFails(r)
       \/ EnqueueFails(r) \/ Die(r) \/ Stall(r)
  \/ \E a \in Accounts, e \in Addresses : TakeAddress(a, e)
  \/ \E a \in Accounts : ToggleMember(a)
  \/ Seed

RegistrationSpec == RegistrationInit /\ [][RegistrationNext]_registrationVars

\* Awaited calls return, and the worker keeps taking jobs.  Nobody has to call
\* register or seed the plans, and nothing has to go wrong.
RegistrationFairSpec ==
  /\ RegistrationSpec
  /\ \A r \in Requests : /\ WF_registrationVars(CallStep(r))
                         /\ WF_registrationVars(MailStep(r))

-----------------------------------------------------------------------------
(* Properties                                                              *)

\* Every variable has its type; the attempts and stalls of a job are bounded,
\* and with them the copies of one mail.
RegistrationTypeOK ==
  /\ seeded \in BOOLEAN
  /\ organizations \subseteq Requests
  /\ address \in [Accounts -> Addresses \cup {NoAddress}]
  /\ isActive \subseteq Accounts
  /\ tokens \subseteq Requests
  /\ register \in [Requests -> RegisterType]
  /\ mail \in [Requests -> MailType]
  /\ subscription \subseteq Requests
  /\ sent \in [Requests -> 0..Attempts + MaxStalled]

\* Registration implements AccountBook: organization and OWNER appear at once,
\* an address has one account however many register for it at the same time,
\* and the worker never sends a welcome mail, nor gets a subscription job, for
\* rows that are not there.
Book == INSTANCE AccountBook
          WITH Owners <- Requests, links <- tokens, subscribed <- subscription,
               mailed <- {r \in Requests :
                            mail[r].template = "welcome" /\ sent[r] > 0}
BookKept == Book!Spec

\* Every organization's owner is mailed the link, unless the process died, the
\* commit was not answered or the job could not be added, or it has failed for
\* good; and no call waits for ever at the unique index.
Cut(r) == \/ register[r].pc \in {"died", "failed"}
          \/ /\ mail[r].template = "none"
             /\ register[r].pc \in {"announced", "answered"}
          \/ mail[r].state = "failed"
OwnersMailed ==
  \A r \in Requests :
    /\ (register[r].pc \in Running) ~> (register[r].pc \in Ended)
    /\ (r \in organizations) ~> (sent[r] > 0 \/ Cut(r))
=============================================================================
