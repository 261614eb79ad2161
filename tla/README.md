# Profile service: TLA+ specifications

Specifications of the NestJS profile service: user identity, sign-in by
one-time code, onboarding of business users through queues, invitations of
staff, profiles kept in three services, roles of business users, listings and
figures, and the start of its containers. Paths below are relative to the
repository; `src/src/...` is its TypeScript.

TLC checks each module on a small instance (`MC*.tla`, `*.cfg`), and TLAPS proves
every safety property of theirs for every instance (eight modules `*Proofs.tla`).

## 1. The system

One Node.js process serves gRPC requests and consumes Bull queues. All state is in
PostgreSQL (through Prisma), in Redis (the queues), at other services (addresses,
files, organizations, mail) and, for the circuit breaker, in memory. No code uses an
interactive transaction, and only one place (`sendStaffInvitations`) groups inserts in
one: each awaited Prisma call commits by itself, and at every `await` other requests
and other instances run. So **every handler is a sequence of atomic steps that may
interleave with any other, and may stop after any of them** (a query or a call fails
and the handler throws, or the process restarts) with nothing rolled back. This is the
shape of all the modules.

| Component | State | Operations | Modelled by |
|---|---|---|---|
| Staff invitations, `staff/staff.service.ts` | `staff_invitations`, `staff`, `staff_departments`, `users` | send (batch), resend, accept, decline, delete, read by code | `InvitationBatch`, `StaffInvitation`, `InvitationLedger` |
| Sign-in, `auth/auth.service.ts` | `verifications`, `user_sessions`, `users.email_verified`, signed tokens | register, login, sendOtp, verifyOtp, logout | `OtpSession`, `OneTimeCodes` |
| Onboarding, `register`, `queues/organizations/*` | `users`, `staff`, `business_users`, queues `organization` and `business-user` | register, create_organization, create_business_user | `Onboarding`, `JobQueue` |
| Accounts across e-mail columns, all of the above and `user/user.service.ts` | `users.email`, `staff.email`, `business_users.email`, e-mails in jobs and invitations | register, login, GetUserByEmail, accept, onboarding jobs, updateUser | `Accounts` |
| Communication queue, `queues/communication`, `_sendOtp` | queue of mails with codes | queue.add, send_otp, direct mail | `CodeDelivery`, `JobQueue` |
| User service, `user/user.service.ts` | `users`, and the address and file of a user at two services | findOne and its callers, updateUser | `Profiles` |
| Business users and roles, `user/business-user.service.ts`, `roles` | `business_user_roles` | createOrUpdateBusinessUserRole, listing and count by role | `BusinessUserRoles` |
| Listings: users, staff, invitations, sessions | none (reads) | adminGetUsers, getCompanyStaffs, getInvitationsByCompany, getUserSessions | `Listing` |
| Figures: `analytics`, AdminGetUserAnalytics | none (reads) | activeUsersCount, dailyActiveUsersMetrics, the counted cards | `Activity` |
| Circuit breaker, `services/circuit-breaker.service.ts` | one record per downstream service, in memory | executeWithCircuitBreaker | `CircuitBreaker` |
| Container start, `docker-entrypoint*.sh`, `prisma/seed`, `main.ts` | `_prisma_migrations`, `roles` | wait, migrate, generate, seed, start, restart | `Startup` |
| Profile CRUD, RabbitMQ client, unused processors, generated code, configuration | none that anybody reaches | forwarding | not modelled (section 5) |

How they interact. `register` inserts the user, queues an `organization` job for a
business user (or inserts a staff row for staff), creates a code and hands it to the
communication queue without waiting. The organization processor calls the organization
service and queues a `business-user` job; when anything fails it deletes the user, and
the database cascades to the user's codes, sessions, staff rows, business users, their
roles and the invitations they sent. Invitations create users and staff rows of their
own. Sign-in works on whatever user an address finds. `updateUser` moves the address
of one table only. Reads collect a profile from the table and two services.

What is hard, and what makes each component correct:

* *Invitations.* Every operation reads the row, awaits, and writes a status without
  looking again. Accepting is five or so separate queries. Correct means: an
  accepted invitation has its staff row, timestamps and status agree, an interrupted
  acceptance can be repeated, the status moves only along its lifecycle when nobody
  interferes. A batch is verified by matching answers to ids by position.
* *Sign-in.* A code must pay for one sign-in even if several requests quote it, and
  a request that is half-way when its user is deleted must leave nothing.
* *Onboarding.* Jobs are delivered at least once, retried, and compensated by
  deleting what they are about. Correct means: one business user whatever is
  repeated, no orphaned rows, and an outcome for every registration. A job carries
  the address of the registration, which its user may have changed by then.
* *Accounts.* Three columns hold a person's address, some operations lower its case
  and some do not, and only one column follows a change. Correct means: an address
  leads to one account, and whoever is told to log in can.
* *Codes by mail.* The code is stored, queued and mailed by three parties, and one of
  them swallows errors. Correct means: "sent" was sent or the reason is known, and once.
* *Profiles.* Three places, no transaction. Correct means: no mixture of two updates,
  and no half profile in an answer.
* *Roles.* Three queries per business user: deactivate, look up, activate or create.
* *Listings and figures.* Several queries over tables that move meanwhile.
* *Circuit breaker.* Calls that began in one state end in another. No code of the
  repository calls it.
* *Start.* A chain of commands under `set -e`, run again from the beginning.

`PROJECT.json` lists every hazard with the line where it bites.

## 2. Modules and their correspondence to the code

**`StaffInvitation`**. Variables `inv` (rows by code, `"FREE"` for none), `users`,
`phoneOf` (the unique `users.phone_number`), `staff`, `placed` (departments), `now`, and
`req[r]`, the local variables and the
next await of each request in progress. `SendStart`, `SendReadPending`/`SendReadStaff`
(two queries in flight together), `SendCreate` (the transaction) are
`sendStaffInvitations`; `ResendRead`/`ResendWrite`, `DeclineRead`/`DeclineWrite`,
`DeleteRead`/`DeleteWrite`, `GetRead`/`GetExpire`/`GetView` the two halves of the
handlers of that name; `AcceptRead ... AcceptMark` the queries of `acceptInvitation`
in their order. `Fail` ends any handler where it stands. `expires_at` is compared
with `<` in some places and `>` in others, and the model keeps the difference
(`Overdue`, `ActivePending`). A refused insert (`users.email`, `users.phone_number`,
`staff.email` and `(user_id, is_active)` are unique) leaves the request at `"conflict"`,
so that properties can speak of it. The phone number is the request's own choice, and
any other user (`Outsider`) may have it already.

**`InvitationLedger`** is what the service promises to its clients, without requests:
terms are fixed at issue, ACCEPTED is said of members only, the response timestamp
tells the answered states from the open one (`AnswerRecorded`, which is proved too),
members are never dropped.
`StaffInvitation` implements it under the mapping `TermsOf`, `StatusOf`,
`RespondedOf`, `members <- staff` (property `LedgerSpec`).

**`InvitationBatch`** is the part of `sendStaffInvitations` before `StaffInvitation`
takes over. An id is known by the position in the batch where it appears first
(`IdsOf`), a list of answers stands for whichever kind pushed it (`AnsweredIn`), the
failed answers of a list are counted (`Failures`), and as the code maps them by their
index *after* the filter, the first so many ids of the kind count as failed (`Failed`).
`VerifyBatch` refuses their invitations. It is a pure computation; TLC enumerates its
inputs.

**`OtpSession`**. `row` (verifications), `sessions` (the token names no source, so
`user_sessions` holds one row per user, for WEB), `verified`, `account`, `token`
(when the auth token runs out) and the requests. A code is known by its row id:
quoting a code is choosing a row of the user, and two rows with equal digits are
two possible choices of `findFirst`. `VerifyRead ... VerifyClean` are the queries of
`verifyOtp` in order. `spent` and `grants` are history. Two behaviours of the code
show in the guards: without `device_info` the upsert is refused, and for the same
reason `refreshToken`, which passes a `device_info` no token holds, never changes a
table, so it has no action.

**`OneTimeCodes`** is what sign-in promises, without requests: a code is issued once and
to one user, goes on to redeemed and answered or becomes void, never back, and only a
redeemed code that is not yet answered opens a session or marks an e-mail verified, its
owner's. `OtpSession` implements it (property `CodesSpec`) under the mapping `OwnerOf`,
`StateOf`: a live row is issued; a row deleted by `VerifyTake` is redeemed until
`VerifyClean` grants the access token, and for good when the request stops in between;
any other deleted row is void.

**`JobQueue`** is a Bull queue as its users see it (external): a job runs on one
worker, again after a failure while it has attempts left, again when its worker
stops and Bull finds the job stalled.

**`Onboarding`** composes two instances of `JobQueue` (organization jobs with
`Attempts`, business-user jobs with one) with the register request and both
processors, each query a step. The organization service is external: it answers
with any organization, refuses, or fails. `user.delete` at
`organization.processor.ts:90` has no action, as a Prisma query that is not awaited
is never sent; the awaited one at line 98 is `OrgCompensate`, with its cascade.
`OrgStall` and `BuStall` stop a worker at any step. `EmailOf` is what a user registers
with and its jobs carry, `address` what `users.email` holds, and `ChangeEmail` is
`updateUser`: it can free an address whose job is still pending, and then another user
registers with it and the slower of the two jobs finds the other's row (`Supplanted`).

**`Accounts`** puts the writers and readers of the e-mail columns over one set of
users: `RegisterFind ... RegisterStaff`, `AcceptFind ... AcceptMark` as multi-step
requests, `JobOnboard`, `JobDeleteUser`, `ChangeEmail` and `SendInvitation` as steps, login and GetUserByEmail as what they find (`LoginTarget`, `FetchByEmail`).
An address is a mailbox and a spelling, `toLowerCase()` chooses one of the spellings,
and each operation lowers the case, or does not, as its code does. It is the
composition of the components above, seen through the columns they share; their
own detail (expiry, retries, codes) stays in their modules.

**`CodeDelivery`** follows a code from `_sendOtp` to the mail: `Store`, `AddJob`
(returns before Redis has answered, `adding`), `AddLands`, `SignToken`, the
processor's `TakeJob`, `SendQueued`, `FinishJob` over a third instance of
`JobQueue`, and `sendOtp`'s `SendDirect`. A refused `queue.add` (`AddRefused`) is a
rejection nobody handles, which stops the process (the default of Node.js); then the
calls in progress are dropped and jobs without a worker are found stalled.

**`Profiles`** has the users row (`row`) and what the address and the files service
hold (`held`), both named by the `updateUser` call they come from. `UpdateRow`,
`UpdateAddress`, `UpdateAvatar` are the three writes, of which the last two answer
success whatever happened; `GetUser`, `ValidateAccount`, `GetStaffDetails`,
`GetManyStaffDetails`, `GetOrganizationBusinessUsers` start reads, which are `findOne`
once per user: `ReadRow`, `ReadAddress`, `ReadAvatar`. An update is `"lost"` when its row
was written and the answer of the database did not arrive. `disturbed` and `crossed` are
history and name the two excuses there are.

**`BusinessUserRoles`** is the loop of `createOrUpdateBusinessUserRole`, one action per
query: `Deactivate`, `FindRole`, then `Activate` or `CreateRole`; `business_user_id` is
the primary key, so a second role is refused. `Holders` is what the roles service
lists and counts: the active rows. `Unsettled` is a business user that a change has
deactivated and not gone past, because it still runs there or because it broke off and
none has come through since (`brokenOff`).

**`Listing`** is a client that follows `next_page`, with the two queries of each page
(`CountRows`, `FindPage`) and with rows that are inserted, deleted and, for a listing
by `updated_at`, moved between any two of them. `drift` is the history of that.

**`Activity`** makes a report count by count (`Query` over `ActiveWindow`,
`DayWindow`, `Card`) while users register and sign in. `last_login` has the default
`now()`, so a registration counts as the first sign-in, and keeps the latest only.

**`CircuitBreaker`** is one circuit. Ages replace clock values, capped one tick
beyond `retryTimeout`, where the code no longer tells them apart. As nothing in the
repository calls the service, there is no liveness property: whether a circuit closes
again is up to callers that do not exist.

**`Startup`** is a container: the commands of its entry-point script in order, the
seed role by role, the exit of `set -e`, and further boots from the first command
(`Restart`: by the restart policy of the two compose files, which run
`docker-entrypoint.sh`, or by somebody; the development script has no compose file).
A stop in the middle of `migrate deploy` leaves the migration begun, which every later
boot refuses. `RUN npm run proto:build-all` is a command that does not exist.

The MC modules add symmetry sets. `MCUserService` and `MCServices` put several small
components in one run: the parts share no variable, `part` chooses one in the
initial state, and a behaviour runs that part and leaves the others as they start, so
what TLC finds of the whole is what it would find of each alone. Definitions that end
in the name of a change and carry the comment "Mutation" are wrong variants of a
definition: replacing the right one by them must break the property they are paired
with in `PROJECT.json`, which shows that the property depends on that line of the code.

## 3. Runs

| Run | What it asks | Bounds |
|---|---|---|
| `invitations` | `TypeOK`, `AcceptedHasStaff`, `LedgerSpec` with concurrent requests | 2 requests, 2 codes, 1 e-mail, 1 company, 1 department, lifetime 1, clock to 2 (2.1 M states) |
| `invitations_serial` | `RetrySafe`, `FollowsLifecycle`, one request at a time | 2 codes, 2 companies, batch of 2, 1 phone number (3.2 M states) |
| `sign_in` | `TypeOK`, `RedeemedOnce`, `SessionEarned`, `NothingOfGoneUsers`, `CodesSpec` | 2 users, 3 codes, 2 requests, clock to 2 (2.0 M states) |
| `onboarding` | `TypeOK`, `OneBusinessUser`, `NothingOfGoneUsers`, `NoSilentLoss` | 2 registrations, 2 e-mails, 2 organizations, 2 workers per queue, 1 attempt, 1 stall, 2 business-user jobs, 1 changed address (5.9 M states) |
| `onboarding_one_worker` | `ActiveOnceOnboarded`, `Settles` | 3 attempts, 1 worker; either 1 registration with 1 stall, 2 organizations and no change of address, or 2 registrations with 2 e-mails, 1 changed address, 1 organization and no lost worker (0.6 M states) |
| `user_service`: accounts | `AddressesApart`, `FoundByOwnAddress`, `ToldToLogIn`, `AcceptedKeepsStaff` | 2 users, 2 mailboxes in 2 spellings, 2 requests, 1 changed address |
| `user_service`: profiles | `NeverMixed`, `ErrorChangedNothing`, `AnswersWhole` | 2 users, 2 updates, 1 read |
| `user_service`: roles | `HolderListed`, `SuccessGivesRole` | 2 business users, 2 roles, 2 calls of up to 2 ids |
| `user_service`: listing | `NothingMissed`, `RepeatsExplained` | 4 rows ever, pages of 2, all endpoints and orders |
| `user_service`: activity | `NeverOvercounts`, `CardsWithinTotal` | 2 users, day and period 2 ticks, 2 points, 2 days, clock to 3, 2 sign-ins each (2.2 M states together) |
| `services`: circuit | `StateMatchesCount`, `NoCallSinceOpened` | 3 calls, threshold 3, counter to 4, timeout 2, retry 3 |
| `services`: delivery | `CodeSentOrExplained`, `MailedOnce`, `DeliveryEnds` | 2 codes, 3 attempts, 1 stall, 2 stops of the process |
| `services`: startup | `ServesPrepared`, `BootCompletes` | both images, 3 roles, 2 rounds of waiting, 3 faults |
| `services`: batch | `RefusedWhenAligned` | 2 ids of each kind, batches of 1 and 2, any set of invalid ids |
| `duplicate_pending`, `expired_after_acceptance`, `second_company`, `staging_start`, `otp_retry` | one documented statement each, found violated | as small as shows it |

`TypeOK` of the two suites is the conjunction of the type invariants of their parts.

Why the bounds are enough. Every race in these handlers is between one request that
read and one that writes, so two requests show it; with a clock of 2 and a lifetime
of 1 an invitation is before, at and past its expiry, and can be resent once. Two
codes for one e-mail give duplicates, and two companies in the serial run give the
unique column. A refusal for a phone number needs one number. In `onboarding` a stalled
job is the repeated one, also after its user was deleted; retries after failures are in
the one-worker run, with the three attempts of the code. The either/or of that run
(`Alone`, `Unbroken`) holds back only registrations, changes of address, lost workers and
the choice among answers of the organization service, none of which fairness promises:
no step that must happen is kept from happening. Two
e-mails, one of which both registrations may claim, are what a freed address needs. Two
spellings are all that `toLowerCase()` tells apart, and
two users the least that can claim one address. One read beside two updates meets every
order of their steps. Four rows and pages of two give a full page, a page that shrinks
and one that vanishes. Two stops let a job be found stalled once and given up the second
time. The proofs remove these bounds from every safety property; clocks stay bounded by
`MaxTime` and `MaxClock`, arbitrary numbers, and so do the stops of a process by
`MaxCrashes`.

TLC's deadlock check is off where the bounds or the end of all work let the system
stop: sign-in and onboarding; `user_service`, where updates, reads, role changes and
walks are each made once and end; `services`, where codes are delivered, a container
serves and a batch is verified, and nothing is left to do. The invitation runs keep it on.

What the violations show (details in `PROJECT.json`, "findings"):

* `duplicate_pending`: the check for a pending invitation and the insert are
  separate and nothing is unique; resending makes an old one pending again.
* `expired_after_acceptance`: reading an accepted invitation four hours on overwrites
  ACCEPTED with EXPIRED.
* `second_company`: a member of one company cannot accept another's invitation.
* `staging_start`: the container of the staging and production images exits after the
  seed on every boot; nothing after line 71 of its script is reached.
* `otp_retry`: a code whose mail failed once is given up, although its job has three
  attempts, as the processor swallows the error.

Many properties name exceptions, and the exceptions are the code's: `AddressesApart`,
`FoundByOwnAddress` and `ToldToLogIn` those that a change of address brings,
`NoSilentLoss` and `Settles` a registration supplanted by another that claimed its
address (`Supplanted`), `NeverMixed` overlapping updates, services that failed behind an
answer of success and a lost answer of the database, `HolderListed` and
`SuccessGivesRole` a change that is half-way or was the last and broke off, as one that
would give a second role always does (`Unsettled`), `NothingMissed` and
`RepeatsExplained` rows that moved across a page boundary, `RefusedWhenAligned` answers
that do not line up with their ids. What each property says is that nothing else can
bring the bad state about.

Some properties depend on how many things run together, and say so. `FollowsLifecycle`
and `RetrySafe` hold for requests served one at a time; with two, a late writer
overwrites the status (`LedgerSpec` is what still holds then).
`ActiveOnceOnboarded` needs one worker per queue: with two, both may pass the look-up
by e-mail, and the slower finds the pair inserted by the faster and deactivates it.

**Fairness.** Safety runs assume none. `Onboarding` and `CodeDelivery` assume that
workers take waiting jobs, that stalled jobs are found, and that code that was started
takes its next step or dies (Bull polls; a call whose promise never settles is not
considered); outcomes of calls are free. `Startup` assumes that the script that runs
goes on, one process whose commands end; not that the database ever comes up, nor that
an exited container is started again, so `BootCompletes` speaks of one boot and quantifies
over what earlier ones left. Stops, stalls, attempts and failed commands are bounded
(`MaxCrashes`, `MaxStalls`, `Attempts`, `MaxFaults`): stalls and attempts as in the code,
the others because what must eventually happen can only happen once failures cease.

## 4. Proofs

TLAPS, for every value of the constants under the named assumption of each module
(positive lifetimes and thresholds, `None`, `NoRole`, `Nothing` distinct from the values,
`Timeout <= RetryTimeout`: 30 s and 60 s in the code; a finite set of `Members`, as the
figures are cardinalities). The names of inductive invariants are in brackets.

* `StaffInvitationProofs` (`IInv`). `IInv` is `TypeOK /\ RequestOK /\ AcceptedHasStaff /\
  AnswerRecorded`. `AcceptedHasStaff` is not inductive: what makes it so is
  `RequestOK`, that a request about to mark ACCEPTED (`acc_mark`) has its staff row
  *now*, which survives other requests because terms never change and staff rows
  are not removed. One lemma per group of actions. `Refinement` proves
  `Spec => LedgerSpec`: initial states map to initial states, and each action to an
  action of the ledger or a stutter (e.g. `AcceptCreateStaff` to `Join`,
  `AcceptMark` to `Answer`). `RetrySafe` and `FollowsLifecycle` are proved under the
  hypothesis that there is one request (`\A r, s \in Requests : r = s`), as they are
  false with two. `SerialInv` then says that what a request read is still so when it
  writes (`Fresh`), that staff members have a user row, that only users have the numbers
  of users (`NumbersOfUsers`), and that an expired invitation is past its time. `Fail` may end the request anywhere, so what is proved covers
  every interrupted acceptance.
* `OtpSessionProofs` (`IInv`). `IInv` adds to the properties `CodesOK`: two requests past the
  deletion of a code hold different codes (a deletion succeeds once), a code that
  paid is spent, a spent row is gone and keeps its owner, and a request in
  `verifyOtp` holds a row of its own user. Lemma `Deleting` says what a deletion of
  rows preserves, `OthersHold` that the facts about other requests survive a step.
  `SignInImplements` proves `Spec => CodesSpec` with a lemma for each action that
  changes a table: `VerifyTake` is `Redeem` because a deletion succeeds once;
  `VerifyMark` and `VerifySession` are `Use`, as `CodesOK` gives the request a code that
  is spent and not granted; `VerifyClean` is `Answer`, which voids the user's other codes.
* `OnboardingProofs` (`IInv`). `IInv` adds `RowsOK` and `JobsOK` to the properties and falls
  into four parts (tables, register requests, organization queue, business-user
  queue), of which most actions leave all but one alone. `RowsOK`, that a row carries
  the e-mail its user registered with, is what turns the unique e-mail of
  `business_users` into "one row per user": the constraint on `(user_id, is_active)`
  alone would let an inactive row and an active one coexist. `JobsOK` says that a job
  not yet finished has attempts left, and that a queued business-user job has its
  data, so the row it inserts belongs to a user; it inserts only for a live one, and
  the cascade takes the rows of a deleted one. `NoSilentLoss` needs a second invariant
  on top, `Progress`: a registered business user has queued its job (`Queued`), a
  completed organization job has handed on a business-user job (`Handed`), and a
  completed one of those has its row or its user was supplanted (`Settled`): the row a job
  finds by e-mail is its own user's, or that of a user registered with the same address,
  and two live users were only if one of them has moved (`AddressOK`, `EmailsApart`).
  `ActiveOnceOnboarded` is proved for `Workers = 1` and finitely many jobs (so that
  running jobs can be counted): one run at a time (`OneRun`), hence a look-up that found
  no business user still holds at the insert (`LookUpHolds`), and the branch that
  switches an existing pair off is never reached (`OneWorkerInv`).
* `AccountsProofs` (`AccountsInv`). The properties follow from five facts that are
  inductive together: e-mails of live users are unique and, unless changed, lower-case; the other tables
  and the jobs hold the account's own address up to spelling until `updateUser` has
  changed it; a job and a change belong to a user that was inserted; and what a request has
  found out of its user stays true of it (`RequestKnows`).
* `BusinessUserRolesProofs` (`RolesInv`). `RolesTypeOK`, `HolderListed` and `RoleKept`
  (the row a change has left behind keeps its role, whatever its flag) are inductive
  together, and `SuccessGivesRole` follows from them; `RowsGrow` says that a row that is
  there keeps its role until its business user is deleted.
* `ProfilesProofs` (`ProfilesInv`). An undisturbed user has at most one update under way,
  which has the row already and each part it is past (`UpdateKnows`); rows come only from updates
  that were not refused, the services' data not from lost ones either (`Traced`). A read that crossed no update therefore sees services
  that keep what goes with the rows it has (`ReadKnows`), and is done with a user only
  with a whole profile, or with a null that a listing may have (`ReadWhole`).
* `UserServiceProofs`. Listings (`ListingInv`): until something is deleted the client
  never asks beyond the last page (`WithinPages`); no row beyond the pages it got has
  been seen (`SeenOnce`, giving `RepeatsExplained`); every old row on those pages has
  been (`SeenSoFar`), and the total covers the old rows when the last page is fetched
  (`TotalCovers`), which give `NothingMissed`. Lemmas say what an insert (`Appended`), a
  deletion (`RemovedAt`) and a move do to the order and to the positions of the other
  rows. Figures (`ActivityInv`): the windows of a report lie apart, so nobody counts twice, and the total counted first is at least the number of
  users in range that did not arrive since (`TotalCoversRange`). `UsersInv` conjoins the
  invariants of all parts, so `TypeOK` of the suite holds whichever part runs.
* `ServicesProofs`. Circuit (`CircuitInv`): the type invariant, `StateMatchesCount` and
  `NoCallSinceOpened` are inductive together. Codes (`DeliveryInv`), per code: a call past
  `queue.add` has left a job, unless the process stopped; an active job has a worker,
  unless the process stopped (`JobOK`); a job or a call that is over has a mail or an
  error, and there is no mail before that (`MailOK`). Steps of one code leave the others
  alone (`CodeStep`). Container (`StartupInv`): what the commands before the present one
  have done still stands, whichever boot did it (`Prepared`). Batch (`BatchInv`): each
  answer list of an aligned batch is that of its own kind (`AlignedAnswers`), and the ids
  counted as failed are a first part of the ids as long as the refused ones, so the same
  when those come first (`AlignedFailed`). `PartsInv` conjoins the parts.

So every invariant, safety action property and refinement that a passing run checks is
also a theorem. Only model-checked: the liveness properties `Settles`,
`DeliveryEnds`, `BootCompletes`, and what the violations show (counterexamples are
for TLC to find). Liveness under fairness is out of this prover's reach, as are ENABLED,
what recursive definitions compute for every input, and modules with RECURSIVE
operators; no module here has one.

## 5. Assumptions and what is not modelled

* In `StaffInvitation` a success answer of the organization service carries the company
  it was asked for. That service is not in the repository; without it the code's
  `company?.companyId` looks for a staff row of any company, and inserts one for `''`.
* In `StaffInvitation` no user is deleted and no user's e-mail or number changes. `Accounts` has
  both: `AcceptedKeepsStaff` says that only the deletion of the invitee
  (`organization.processor.ts:98`) takes the staff row of an accepted invitation.
* `Accounts` has one invitation per mailbox, of one company, and one change of address
  per user; what several of them do to each other is in `StaffInvitation`.
* `StaffInvitation` starts from any batch of invitations, which covers whatever
  `InvitationBatch` lets through.
* A code of `generateReferenceId` may collide with an existing one; the insert is
  then refused and the whole batch fails (`Fail`).
* Producers use BullMQ and consumers Bull on one Redis; the models take the jobs as
  delivered.
* `business_users` rows are only written by the business-user job.
* A listing is by the time of insertion or of the last write. Other columns (names,
  e-mail), ties and an invalid `sortBy` (no order at all) are left out.
* In `Activity` a month is `Period`, and the counts of the previous period, the trends,
  percentages, labels and averages made from them, are left out: the date ranges come
  from a library (`@djengo/proto-contracts`) that is not in the repository.
* Logging, passwords, formatting and single reads (`getBusinessUser`,
  `getUserCountForOrganization`, roles `findAll`) are left out.

Not modelled, and why:

* *Generated gRPC code* (`shared/dependencies/*.pb.ts`): 4900 of the 10400 lines of the
  implementation are generated types and client stubs, which have no behaviour; the
  modules name the few types their records come from. This is why the share of
  lines that the models stand for is about a quarter of the implementation and about
  half of what is written by hand. Most of the rest has no caller or no state:
* `app.service.ts` creates, updates and soft-deletes profiles, but no controller
  exposes it; `rabbitmq.service.ts` has no active caller (its calls in
  `organization.processor.ts` are commented out); `initiateRegister`,
  `validateRefreshToken`, `updateUserStatus`, `updateUserBasic` are never called;
  `create-organization.processor.ts` and `financials.processor.ts` are in no loaded
  module; `prisma/seed/organization_permissions.ts` is imported and never written.
* Controllers, modules, middleware and configuration forward or configure; the gRPC
  clients forward, and their answers and failures are choices in the callers' models.

Behaviours met while modelling for which the project has no run of its own:

* `resendStaffInvitation` also resends viewed and deleted invitations before they expire.
* `create-business-user.processor.ts:92` says "created by this point" of a user its
  organization job may have deleted; the insert is then refused (`NothingOfGoneUsers`).
* `staff.service.ts:324-336` matches failed verifications to ids by position: with a
  branch, no department and an invalid role nothing is refused, and of two roles of
  which the second is invalid the first one is. `RefusedWhenAligned` is what is left.
* The card of deactivated users counts users whose `deleted_at` is null, so everybody,
  though the comment at `user.service.ts:665` says "no active user_roles".
* The timeline `_1m` has the value 0, which `user.service.ts:534` takes for "all".
* `last_login` defaults to `now()`, so the users who "logged in on this day"
  (`analytics.service.ts:136`) include those who only registered.
* `refreshToken` is always refused, as its upsert lacks `device_info`.

## 6. Plan

Done, in this order: `StaffInvitation` with its ledger and proofs, `CircuitBreaker`
with proofs, `OtpSession` with proofs, `JobQueue` and `Onboarding` with proofs,
`InvitationBatch`; then `BusinessUserRoles`, `CodeDelivery`, `Accounts` and `Profiles`
with proofs, `Startup`, `Listing`, `Activity`, and the proof of `NoSilentLoss`; then
`OneTimeCodes` with the refinement, and the proofs for one request or one worker at a
time, of the listings and figures, of the start and the batch, and of the suites.

Left:

1. The department of a repeated acceptance (`staff.service.ts:722`), once a document
   says what it should be.
2. An abstract specification of onboarding (a registration that is pending, onboarded,
   failed or gone) and the proof that `Onboarding` implements it.
