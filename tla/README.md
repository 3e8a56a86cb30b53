# Verification of the NestJS SaaS starter in TLA+

This directory models the stateful core of the backend in `src/src` — sessions,
registration and its mail, user rows, mailed links, API keys, invitations, webhook
deliveries, usage limits and subscription billing — as TLA+ modules. TLC checks them on small instances, and
TLAPS proves the most important properties for every value of the constants.
Source paths below are relative to the repository; `README.md:<line>` is the
repository's own README.

The backend is a set of NestJS services over PostgreSQL (TypeORM), Redis and
BullMQ queues. Node runs one callback at a time, but every `await` lets another
request, worker or cron in, several instances of the application may run, and
almost nothing is transactional: there is one `dataSource.transaction` (in
`register`) and no row lock, version column or Redis script. So the unit of
atomicity of every model is *the code between two awaits* — one Postgres
statement, Redis command, queue operation or HTTP call each — and the question
behind most properties is what survives the interleaving and the crashes.

## Inventory

| Part (source) | State | Operations | Talks to | What makes it correct |
|---|---|---|---|---|
| Auth and sessions (`modules/auth/auth.service.ts`, `jwt.strategy.ts`, `jwt-utility.service.ts`) | Redis `auth:refresh:<user>`, `auth:blacklist:<token>`; `users.is_active`, `role` | register, login, refresh, logout, resetPassword, changePassword, validate | users, invitations (issues tokens), cache | an ended session stays ended; a logged-out token is refused while its signature lives; a removed account ends without a session |
| Registration and mail (`register` of `modules/auth/auth.service.ts`, `jobs/queues/email.queue.ts`, `jobs/processors/email.processor.ts`, `database/seeds/plan.seeder.ts`) | organizations and `users` rows, Redis `verify:email:*`, the e-mail and subscription jobs | seed, register, send a mail with its retries | users, plans, queues, SES or Mailtrap | an organization has its OWNER and an address one account, jobs come after the rows, the owner is told |
| Accounts (`modules/users/user.service.ts`, auth, `roles.guard.ts`) | the `users` rows | update, updateRole, remove, password calls, verifyEmail, change and confirm e-mail, accept | sessions, links | the founder stays OWNER; a claim of OWNER comes from an address that an active OWNER has held |
| Mailed links (auth, users) | Redis `verify:email:*`, `reset:password:*`, `change:email:*`; `users.email`, `is_verified` | register, verify, resend, forgot, reset, change and confirm e-mail | accounts, e-mail queue | a verified account stands under an address its user answered from; a reset serves the account that has the address |
| API keys (`modules/api-keys`, `api-key.strategy.ts`) | `api_keys` rows, Redis `apikey:valid:<hash>` | create, list, remove, validate with refill | plans, audit log | expired and revoked keys are refused; plan limit |
| Invitations (`modules/invitations`) | `invitations` rows, Redis `invite:<hash>`, member rows | send (batch), accept, nightly expiry | users, auth, e-mail queue | an expired invitation is refused, ACCEPTED means joined, a used token is dead, no invitation blocks for ever |
| Webhooks (`modules/webhook*`, `jobs/processors/webhook.processor.ts`) | endpoints, BullMQ jobs, delivery rows | create, remove, dispatch, process | queue, endpoints of customers | one truthful record per delivery, bounded repetition, every job ends |
| Usage (`usage-tracker.interceptor.ts`, `modules/usage`, `jobs/schedulers/usage-*.ts`) | Redis counters, limit flag, cached limit; `usage_records` | count a call, refuse, reset, sync | plans, organizations | the limit is in force; records never overstate |
| Billing (`modules/billing`, `modules/stripe`, `organization.service.ts`, `trial-expiry.scheduler.ts`) | the organization row; customers, subscriptions and events at Stripe | createSubscription job, three Stripe events, updatePlan, updateName, trial expiry | Stripe, queue | one subscription, and one that exists; status in step with Stripe; cancellation justified; every trial ends |
| Read-only and stateless parts | — | audit log, routing, onboarding, health, DTO validation, migrations | — | not modelled, see the end |

Components interact in three ways: direct calls between services, Redis and
Postgres state shared without locks, and BullMQ jobs that are retried. Stripe
adds a fourth: webhooks that are delivered at least once and in any order.

**Hard behaviours.** Check-then-act across awaits (limits, pending lookups,
token rotation); whole-row `save()` of an object loaded earlier, itself a SELECT and an UPDATE; an address that changes hands while links and tokens name it; a Redis copy
that outlives the row; three or four writes without a transaction, cut off
anywhere; BullMQ retries and stalled jobs; at-least-once, reordered and early
Stripe events; crons that run in every instance and miss nights; a TTL computed
from the clock at a month's end. `PROJECT.json` lists them line by line under
`hazards`.

## Modules

Each module is one component, an action per awaited step, with a `pc` in the
record of the call that is between two awaits. Constants carry a named `ASSUME`.
A definition `X_something` or a differently named sibling just above a
definition with the same parameters is a deliberately wrong version of it; the
mutants of `PROJECT.json` use them to show that a property notices.

**Sessions** — one account. A token is the record of what it is signed over: the
second of issue and the profile, which is the role and the address (nothing random
enters a token, so two of one second are equal). `key` is `auth:refresh:<userId>`, `blacklist` the expiry of
each listed access token. `RefreshLook / RefreshMatch / RefreshDrop / Issue` are
the awaits of `refresh`; `LogoutDrop / LogoutList` of `logout`; `Validate /
Admit` of the JWT strategy, whose blacklist and row lookups are separate;
`ConfirmCheck / ConfirmSave` of `confirmEmailChange`, which issues a pair too. Removal
(`RemoveSave / RemoveDrop`), re-invitation and role changes (`SetProfile`) come from the other
services. `resetPassword` looks the user up by the address of its entry and signs the
entry's id, `changePassword` looks the user up by the address the token claims: when an address has changed
hands, both write the key of an account whose activity nobody asked for
(`IssueElsewhere`). `astray` says by which of the two ways that is possible now, and
`Forget` ends one. History: `ended` says whether the session was last ended while some
call was still going to write the key (`loose`) or not (`clean`); `loggedOut`
holds tokens whose logout answered.

**Registration** — `register`, one action per await: `FindPlan`, `Look` (and `Tell`
for an address that has an account), then the code's only transaction
(`SaveOrganization / SaveUser / StoreToken / Commit`) and the two enqueues after it.
What the transaction has written is seen by nobody before `Commit`; another INSERT
of the address waits for it at the unique index of `users.email` (`OpenWith`) and
then fails. Redis is not part of the transaction: `StoreToken` stays when it rolls
back. Every step has its failure: a query (`QueryFails`), a commit whose answer is
lost (`CommitUnanswered`), Redis with or without the entry written
(`StoreTokenFails`), a queue that refuses (`EnqueueFails`), a process that dies
(`Die`). The mail's job runs under BullMQ as `email.queue.ts` configures it (`Take /
Send / SendFails / Complete / Retry / Stall`), where a failed send may have been
taken by the provider. Accounts of other modules take, change and release addresses
meanwhile. **AccountBook** is what registration promises: organization and OWNER
appear in one step, an address has one account, and nobody is mailed or subscribed
before. Registration refines it with `mailed` read off the jobs.

**Accounts** — the user rows, with the links and tokens by which calls find them.
Every writer loads the whole row, awaits, and hands the object to TypeORM's `save`,
which reads the row again (`Select`) and updates the columns in which the object
differs from it (`Update`). So a call is a `Load...` with the code's guards, `Select`,
`Update`, and `Finish`, which signs a pair and deletes the link. Rows are found as
the code finds them: by id and organization (`InOrg`), or by the address of a
token or a link (`Holder`), which may be another user's by now. `Signed` takes each
field of the payload from where the code takes it: `resetPassword` the id from the
entry and the role from the row found by address, `changePassword` the id from the
row and the role from the caller's token. Guards read the role from the token's
*claim*: `RolesGuard` with the `RequiredRoles` of the controller, then the service's own
tests (`MayRemove`, `MayUpdateRole`). An acceptance checks the address
(`CheckAccept...`), hashes, and then `preload`s or inserts. Invitations may carry any
role, OWNER included, as the DTO admits. History: `held`, the addresses each row has
had, and `contested`, the users whose row was written while an acceptance and another
call both held it.

**Links** — the links mailed to verify an address, to reset a password and to
confirm a new address, over all organizations, because an address is unique
among all. A link is its Redis entry and the mailbox it went to. `Open` reads the
entry, `LoadVerify / LoadReset / LoadConfirm` the row (by the id in the entry, or
for a reset by the address in it), `Select` and `Save` write it back, `Drop`
deletes the entry; a call cut off before `Drop` leaves the link usable.
`register` lower-cases an address, `changeEmail` does not. The other whole-row saves
that overlap are here too: profile updates, removals, and acceptances of invitations
(`CheckAccept / LoadAccept`, or `InsertAccept`), all through `Select` and `Save`, the two
statements of TypeORM's `save`. History: `proven`, the addresses at which a user has
opened a link or an invitation, and `stale`, for a reset, whether somebody has saved the row since
it was loaded.

**ApiKeys** — rows and Redis entries of one organization's keys. `validate` is
`Lookup / ReadRow / Refill`, `create` is `Count / SaveRow / CacheNew`, `remove`
is `Find / Revoke / DropEntry`; `Abandon` cuts a call off anywhere. `straddled`
records keys revoked while some fill still carried them.

**Invitations** — a batch (`StartBatch`, counted once by the interceptor) whose
items run concurrently through `LookMember / LookPending / CreateRow /
CacheToken / Enqueue`; `acceptInvitation` as `Hit` or `Miss / ReadRow`, then
`LookInvitee / Activate / MarkAccepted / DropToken`; the nightly
`ExpireInvitations`; removal of a member, so that they can be invited again.

**Webhooks** — endpoints with `maxWebhooks`, `Dispatch / Enqueue`, and a job as
BullMQ and `process` drive it: `Take / CreatePending / Store / Post /
RecordSuccess / ReadBack / RecordFailure / Complete / Retry`, `Crash` with the
stall limit, `DatabaseFails` at each write. `Faults` chooses which of crash,
database and queue errors an instance has. **DeliveryRecord** is the abstract
promise of `README.md:468` — one record, PENDING, then SUCCESS or FAILED for
good — and Webhooks refines it through `record <- [j |-> RecordOf(j)]`.

**Usage** — the calls of one organization through the global interceptor
(`Begin / Handled / incrementUsage / LimitHit | LimitMiss, LimitLoad, LimitFill /
setLimitExceeded`), the plan switch, and in each instance the monthly reset
(`ResetCounters / ResetFlags`) and the five-minute sync (`SyncScan / SyncGet /
SyncUpsert`). `getStats` and `WebhookTrackerInterceptor` fill the cached limit as well
(`ReadMiss / ReadLoad / ReadFill`, with `Readers` at once). An awaited command of
`logUsage` that throws after the count leaves no flag (`CallFails`), as does a
crash (`CallDies`). Time is in seconds and a month is `MonthLen` of them, because the
TTL of the flag is zero or negative in a month's last seconds: a TTL of zero
makes `CacheService.set` store the flag without an expiry, a negative one is an
error.

**Billing** — the row of one organization and its five writers: the
`subscription.create` job (`JobLoad ... JobDone`; a call that throws uses an attempt up,
`JobFails`; a worker that dies a stall, `JobStalls`, which BullMQ counts apart),
Stripe's events (`Receive` finds the organization, `Apply` writes the
status, `HandlerFails` makes Stripe repeat), `updatePlan` (`Retrieve` and `SwitchPrice` at
Stripe, then `SelectPlan` and `SavePlan`), `updateName` (`SelectName`, `SaveName`), and the
trial expiry of each instance in its two phases. Stripe is modelled as the code relies on it: idempotency keys
`sub_<customer>_<price>` name subscriptions, a change sends an event, events come at
any time and in any order, and one is sent again until it gets a 200. History: `astray`
is set by the three things after which the row may stay out of step with Stripe: an
event answered 200 because no row has its id yet, one applied after a newer one, and a job
that records the subscription again after events. Time is in days.

Stripe's statuses `incomplete` and `paused`, which the handler ignores, do not arise:
subscriptions are made with `error_if_incomplete` (`stripe.service.ts:44`) and
without trial settings.

`MC<Module>` only adds the symmetry sets and, for Usage, sets of limits;
`Registration`, which needs neither, is run as it is.

The modules are separate because the components share no state that a property
of two of them needs at once; where they meet (a removal ends a session, an
acceptance re-activates a row) the neighbour's step is an action of each.

## Runs

| Run | Checks | Bounds, and why they suffice |
|---|---|---|
| `Links_redeem` | a verified account stands under an address at which its user opened a link; a reset that no save overlaps serves the account that has the address the link was mailed to | 2 users, 2 spellings of an address, of which registering gives one, 2 calls, 2 links alive or in a call's hands: an address changes hands while a reset link to it is out |
| `Registration_mail` | registration implements `AccountBook` (one account per address, organization with OWNER, jobs after the rows); every owner is mailed unless the call or the job was cut off, and no call hangs at the unique index (liveness) | 2 registrations, 1 account made elsewhere, 2 addresses, 2 attempts, 1 stall, all five faults: two calls for one address, or an address that is taken between the look-up and the INSERT |
| `ApiKeys_safety` | a request that arrives after its key's expiry, or after a revocation no fill straddled, is refused; concurrent creates exceed `maxApiKeys` by less than their number | 3 keys, 2 admin calls, 1 request that comes back any number of times, limit 1, clock 0..1: two creates past the count plus one to test the bound; a request is both the filler and, later, the client |
| `Accounts_rows` | the founder stays an active OWNER; a claim of OWNER names an address its user and an active OWNER have held | 1 organization, 2 users, 2 addresses, 2 calls, 1 token and 1 link alive, invitations as OWNER or ADMIN (MEMBER comes by role change): a stale save needs two calls and one row, a mixed claim two users and one address |
| `Sessions_end` | a cleanly ended session stays ended; a logged-out access token is refused until its signature expires; a removed account ends without a session (liveness) | 2 calls, 2 profiles, clock 0..1, access life 1, refresh life 2: every pair of flows overlaps, a token and its listing expire within the run |
| `Webhooks_faults` | POSTs are bounded by attempts and crashes; SUCCESS is true; every job ends (liveness) | 1 endpoint and event, 3 attempts as in `webhook.queue.ts`, 1 stall, all faults: jobs do not interact |
| `Webhooks_record` | without crashes and database errors a delivery implements `DeliveryRecord` (a refinement, liveness included) | 3 endpoints, 2 admin calls, limit 1, enqueueing may fail |
| `Invitations_accept` | what the cron has marked EXPIRED passes no check any more; ACCEPTED means joined; an answered token is dead; no invitation stays PENDING (liveness) | 2 addresses, 2 tokens, 2 acceptances, lifetime 1, clock 0..2: the same token twice, and a token of a second invitation after a removal |
| `Usage_limit` | limit in force in the first month; a flag that stands was earned | 3 concurrent calls and a reader of the limit, limit 2 or unlimited, a month of 5 seconds: the last two are the boundary case |
| `Usage_sync` | the row of a period never shows more calls than were made | 2 instances, a plan switch, deaths and failing commands anywhere, 2 months of 3 seconds: two syncs and the reset race on one key |
| `Billing_sync` | one subscription at most; the status ends as Stripe has it unless it went astray; every trial ends (liveness) | 2 attempts and 1 stall, 3 events in any order, before and after the end of the job, trial 1 day, grace 1, 4 days: three runs of the job, and an event older than another, one early, one repeated. The three attempts the queue configures only repeat the second |
| `Billing_writers` | CANCELLED has a reason; a stored id is of a subscription Stripe has made, and ACTIVE stands for one; what a night suspends it does not cancel | all five writers at once, a switch and a rename with their SELECT and UPDATE apart, cron with missed nights, 1 attempt, 1 event, 4 days: the theorems hold for any number of events and attempts |

Every run ends with no error; together they fire every action. Deadlock
is checked in Accounts, Links and Sessions, where some call can always start. In the
others the system may really stop: keys, tokens, events, requests and the clock are
finite.

**Fairness** is assumed only where a liveness property needs it, and only of
what the platform does by itself: Redis expires a key that was set with a TTL
(`Sessions!FairSpec`: the session key and, as `Forget("entry")`, the reset entries), BullMQ workers take waiting jobs and every awaited call of
a job returns or throws, the POST by its timeout of 5 s (`Webhooks!FairSpec`), as do
those of a call of register and of a mail (`Registration!RegistrationFairSpec`),
time passes and the nightly jobs run (`Invitations!FairSpec`,
`Billing!LiveSpec`). No client, administrator or failure is fair. `TrialEnds`
supposes that no night is missed; it does not suppose that the job runs.

Other bounds: `MaxServed` and `LastStart` in Usage cap the counters and the
months in which calls start, `MaxEvents` the events of Stripe, `used` in
Invitations counts to 2, `MaxTokens` and `MaxLinks` cap the tokens and links alive,
`MaxNow`, `Horizon` and `Months` stop the clocks.
`SYMMETRY` is used by runs without liveness only.

## Proofs

`<Module>_proofs` holds the theorems of each module, `Auth_proofs` those of the two
modules made of `auth.service.ts`, Sessions and Registration (whose names carry its
own prefix for that: `RegistrationSpec`, `registrationVars`); tlapm proves all of them.
The pattern is an inductive invariant, one step per action, one sub-step per
conjunct an action can disturb.

- **ApiKeys.** `ExpiryCorrect`, `RevocationCorrect`: invariant `TypeOK`,
  `FreshKeys`, `EntriesMatch`, `ExpiryChecked`, `SettledClean`. A cached expiry
  is the row's, so both paths judge alike; a settled key has no entry and no
  fill under way, so nothing can bring one back. `OvershootCorrect`: the active
  keys plus the creates past their count are at most limit + admins - 1
  (`PlacesBounded`, by cardinalities of finite sets).
- **Accounts.** `FounderCorrect`: no *copy* of the founder's row that a call holds, and no
  acceptance, can carry anything but an active OWNER, however stale it is
  (`FounderCopy`). `OwnerClaimsCorrect`: every claim of OWNER and everything that is
  going to become one (the claims of callers, the rows, copies and reset links,
  `AddressKnown`) is traced to an address that an active OWNER has held (`Traced`);
  a row outside `contested` that is an OWNER's when it is loaded still is when it is
  written (`OwnerCopy`, `AcceptCopy`), because nothing but an acceptance makes an OWNER,
  and it only takes an inactive row.
- **Links.** `ProvenCorrect`, `MailboxCorrect`: until a user opens a first link,
  the row, every copy of it and every link alive agree on one address and none of
  these links changes it (`RowsSound`, `LinksSound`, `CopiesSound`); from then on
  any address that can reach the row, by a redeemed link (`OpenedSound`), by an accepted
  invitation (`CheckedSound`) or by a stale copy, is a proven one. So no overlap of saves can move `isVerified` to an
  address nobody answered from.
- **Sessions.** `ClosedCorrect` (`ClosedClean`: after a clean end no call is
  past the comparison), `LoggedOutCorrect` (`ListedWhileValid`). `RemovedDrains`, an
  action property: while an account is removed and no address of it has changed hands
  (`astray = {}`), the requests that may still write its
  session key (past the guard of `refresh`, `changePassword`, `confirmEmailChange` or a
  login) only become fewer and every key written uses one up. With the TTL of the last key
  this is why a removed account ends without a session, for any number of requests.
- **Registration.** `BookCorrect`: every step is a step of `AccountBook` or a stutter.
  Its invariant `RegistrationInv` adds to the types `Reserved` (what an open transaction
  has inserted holds its address at the unique index: no row has it and no other open
  transaction), `Ordered` (what each call holds at each of its awaits), `Mailed` (no mail
  before the commit, and a welcome only for an organization that is there) and
  `OncePerAttempt` (copies sent against attempts and stalls). `OneAccountCorrect` carries what
  `AccountBook` promises of every state back through the refinement.
  `NobodyForgottenCorrect` (`Told`) says which owners are without a mail: those whose
  call was cut off, whose job was refused or is spent, or whose mail is under way;
  `MailsSettle` that each step of a job lowers a natural number (`MailRank`) and an ended
  job is left alone. Together they are `OwnersMailed` without the fairness.
- **Webhooks.** `PostsCorrect` (`Counted`: posts against attempts and stalls by
  `pc`), `SuccessCorrect` (`Truthful`), and `RecordCorrect`: with
  `Faults \subseteq {"queue"}` every step is a step of `DeliveryRecord` or a
  stutter — the safety part of the refinement. `OneRecordCorrect`, under the same
  hypothesis: the job knows its row from the step after the insert on.
  `OvershootCorrect`: concurrent creates exceed `maxWebhooks` by less than their
  number (`Places`: active endpoints plus creates past their count, each for
  another endpoint); no run checks it. `JobsSettle`: whatever fails, each step of a job
  lowers a natural number (`Rank`, by eight with each attempt and stall, and within one
  by the awaited calls left), and what has ended is left alone: `JobsEnd` without the
  fairness. `RecordFinalCorrect`, under the hypothesis of the refinement: a record that
  says SUCCESS or FAILED does not change any more, because `DeliveryRecord` never does that.
- **Invitations.** `SweptCorrect`, `AcceptedCorrect`, `AnsweredCorrect` from
  `RowsMade`, `Joined`, `Dead`, `Swept`: what the job marks is past its expiry for good,
  so a cached entry, which never learns of the mark, is refused by its own clock
  test; after an answer the row is ACCEPTED and the entry gone, and nothing
  writes either back.
- **Usage.** `RecordCorrect`: record and pending upsert never exceed the calls
  counted. `LimitCorrect`, for a fixed plan without crashes and failing commands: `Quiet`,
  `LimitKnown`, `FlagLasts`, `Accounted` — some call that read a count at the
  limit is on its way to the flag, or the flag is there and lasts. `EarnedOnceCorrect`,
  without hypotheses (`EarnInv`): a call on its way to the flag carries a count that some
  month did reach, and every limit in the cache or in a call's hand is one of the plans the
  organization may have been on (`LimitsKnown`; which of them it was on when is not
  remembered), so the flag only stands when such a limit was used up. `EarnedCorrect`, its corollary for a fixed plan: that limit is the
  plan's. `OvershootCorrect`, under the hypotheses of `LimitCorrect`: up to the last two
  seconds of the first month the calls served exceed the limit by less than the calls that
  can be in flight at once (`OvershootInv`: the call that reads the limit-th count is
  raising the flag or has raised it, and each call served beyond was in flight
  by then). The bound is attained, and no run checks it.
- **Billing.** `CancelledCorrect` needs `CancelInv`: every stale copy that a switch or
  rename holds, and every event on its way, that says CANCELLED is itself justified.
  `SubscriptionCorrect` (`RealInv`): Stripe never unmakes a subscription, so the row,
  each stale copy and the job name only ones it has made, and nothing says ACTIVE before
  there is one. `OneSubscriptionCorrect` (no whole-row save, `JobInv`): the customer
  is stored before it is subscribed.
  `InSyncCorrect` (no whole-row save; `SyncInv`, on top of it), for any order of delivery,
  before and after the end of the job: until the first event the row has what
  the job recorded (`Recorded`); the newest event tells what the subscription has come
  to (`Told`); it is answered only when applied or dropped, and if neither it nor
  anything newer went astray, the row has its status (`UpToDate`). `FreshlyCorrect`, for one instance: on its day the
  cancel phase comes before anything is suspended (`Earlier`). `TrialBoundedCorrect`, for nights that are not missed
  and no rename: between two nights no organization with a trial is active without a
  subscription when the grace is over, however many instances run the cron, whoever
  switches plans and whatever Stripe sends. Until a subscription is stored, only a failed
  payment of its customer reaches the row and no switch holds it (`Unreached`), so a night
  suspends it on the day after the trial and one cancels it on the day after the grace
  (`InTime`). No run checks it; TLC did on two instances with a switch and early events,
  and with a rename finds the trace recorded below.

Assumptions are the named `ASSUME` of each module plus the hypotheses in the
statements of `RecordCorrect`, `OneRecordCorrect` and `RecordFinalCorrect` (Webhooks: no
crash, no failing write), `LimitCorrect` and `OvershootCorrect` (Usage: a fixed plan, no
crash, no failing command), `EarnedCorrect` (a fixed plan), `OneSubscriptionCorrect`, `InSyncCorrect`,
`FreshlyCorrect` and `TrialBoundedCorrect`: each names the faults or the writers without which the property
holds, and the table below says what happens with them.

Only model-checked: all liveness (`RemovalEndsSessions`, `JobsEnd`, `PendingEnds`,
`TrialEnds`, `OwnersMailed`, the liveness half of `RecordPromise`), because fairness and
ENABLED are out of the prover's reach; of `RemovalEndsSessions`, `JobsEnd`,
`OwnersMailed` and `TrialEnds` a part that is safety is proved (`RemovedDrains`,
`JobsSettle`, `NobodyForgottenCorrect` with `MailsSettle`, `TrialBoundedCorrect`). Induction over data and RECURSIVE operators
are out of reach too; the modules have none. Every invariant and every action property
that a run checks is a theorem.

## Divergences

Modelling met places where the code does not do what its texts say, each
reproduced with TLC on these modules by adding the property. They are recorded here
for whoever decides about them; no run keeps one.

| What the text says | What the code can do |
|---|---|
| "Token was already rotated", `auth.service.ts:305` | two refreshes of one token both pass the comparison before either deletes the key |
| refresh "rotates both tokens", `README.md:369` | within one second the same pair is issued again |
| logout deletes the refresh token, `README.md:370` | a refresh past its comparison writes it back |
| login answers a token good for 15 minutes, `README.md:368` | a login in the second of a logged-out pair gets the listed token |
| PATCH /users/me updates the names, `README.md:284` | it writes role, activity and address back as it read them (and the password, which the modules leave out); likewise a password reset loaded before a verification writes `is_verified` back to false |
| guards trust the role of the token (`roles.guard.ts:17`) | an acceptance that another save overlaps can leave an OWNER demoted or inactive whose token goes on claiming OWNER (excused as `contested`) |
| "an ADMIN cannot remove an ADMIN", `README.md:379` | one promoted between load and save is removed |
| "revoking deletes this entry", `api-key.strategy.ts:66` | a refill that read the row before writes it afterwards |
| register answers the same for new and existing e-mails, `README.md:269`, `README.md:422`, `email.processor.ts:26` | of two calls for one new address at once, the one that meets the unique index answers 500, and no account-exists mail is sent |
| jobs are enqueued after the commit, `auth.service.ts:195` | they are; when the process dies in between, or the answer of the commit is lost, the organization has neither welcome mail nor subscription job |
| "A limit of `-1` means unlimited", `README.md:440` | a switch to an unlimited plan clears neither the flag nor the cached limit: the organization is refused until the month ends |
| "Emails are stored lowercased", `auth.service.ts:120` | changeEmail stores the new address as typed; `register` then accepts its lower-cased form again |
| a reset answers a pair for the account, `README.md:275` | after the address has passed to another user, that user's password is set and the pair names the user the link was issued for, with the role of the other |
| changing the password answers a pair for the caller, `README.md:276` | the row is found by the address the token claims: when it is another user's by now, that user's password is asked for and set, and the pair has that user's id with the role of the caller |
| a removal drops the session, `user.service.ts:174` | the same two write the session key of the user they name, whose activity nobody asked for; a token that claims another's address can do so for as long as it is refreshed |
| the interceptor "enforces `maxMembers`", `README.md:399` | it counts active members when sending; two pending invitations that each fit are both accepted |
| API keys are plan-limited, `README.md:32` | two creates count before either saves (bounded, see `OvershootBounded`) |
| "Each event has one delivery record", `README.md:468` | a crash between the insert and `updateData` makes a second |
| the record ends SUCCESS or FAILED, `README.md:468` | a failing write on the last attempt leaves PENDING; a crash after SUCCESS lets a retry overwrite it, with FAILED though the endpoint has the event |
| "a 404 is not retried", `README.md:468` | it is when writing FAILED throws |
| "Invitation already sent", `invitation.service.ts:168` | two items look before either inserts |
| an accepted invitation is refused, `invitation.service.spec.ts:355` | the Redis entry has no status and admits its holder again after a removal that comes before the entry is deleted; a crash between the two saves leaves a member whose invitation is PENDING until it expires |
| the 1st resets usage, `README.md:483` | a call counted before midnight raises the flag after the reset, for all of the new month; one whose TTL is 0 stays until the next reset |
| counters are synced to Postgres, `README.md:36` | the reset deletes what no sync has copied; of two instances the one that read first may write last, and the record goes back until the next sync |
| the status is kept in sync, `README.md:443` | an event before the id is stored, two handled in another order, a job that records again after events, or a plan switch or rename that read the row earlier, leave an old status |
| a deleted subscription leaves CANCELLED and inactive, `stripe-webhook.service.ts:104` | applied between the SELECT and the UPDATE of a stale save, it leaves CANCELLED with `is_active` true; a stale save may also take the customer and the subscription id back |
| a switch changes the price, `README.md:445` | when the save fails afterwards, Stripe bills a plan the row does not have |
| cancel before suspend, `trial-expiry.scheduler.ts:18` | with two instances one suspends before the other cancels |
| cancelled and deactivated after the grace, `README.md:444` | a rename that read the row before a night and saves after it writes the old status and activity back; the trial then ends a night or more later |
| a 5-day grace after the suspension, `README.md:444` | it counts from the end of the trial |
| expiry for organizations without subscription, `README.md:444` | one whose job failed after Stripe subscribed it looks like one |

## Abstractions, and what is not modelled

- `save()` is its SELECT and its UPDATE in Accounts, Links and Billing. In Sessions and
  Invitations, where the row is one column, it is one step: a stale save that writes
  `is_active` back is in Accounts and Links.
- In Billing, a worker that BullMQ has taken for dead and that goes on beside its
  replacement: `JobStalls` ends the run it interrupts. The invoice and payment-method
  endpoints only read.
- Ids, hashes, names, e-mail contents, audit rows, response texts and DTO
  validation. Passwords are left out: the calls that set one appear for the rest they write.
- In Billing, Stripe statuses the handlers ignore, and hours: a day is the
  resolution of the cron.
- The foreign-key branch of the usage sync: nothing deletes an organization.
- In Registration, the plan a call asks for, and the other mails of the queue: their
  enqueue is in Invitations and Links, their way through the queue is the same.
- In Links, a request that only issues a link is one step, a mail that is lost is
  an entry that expires, and two links with the same content are one.
- Read-only or stateless parts: routing and its decorators, onboarding, health,
  configuration, migrations, audit log.

## Plan

Done: all nine modules with their runs; each safety invariant proved, both abstract
specifications (`DeliveryRecord`, `AccountBook`) with the safety part of their refinements.

Next: a composition of Accounts and Sessions on the session keys that stale claims
write; the writers of Billing under the liveness of `TrialEnds`; an abstract session
and an abstract usage ledger to refine.
