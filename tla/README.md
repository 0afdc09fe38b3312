# ChurchFlow API: models, checks and proofs

This directory holds TLA+ models of the ChurchFlow API server (`src/`), the
TLC configurations that check them on small instances, and proofs, checked by
the TLA+ proof system, of the properties that matter most.

The server is a NestJS program in TypeScript on PostgreSQL (through Prisma) and
Firebase Authentication. It keeps the books of churches: members, campaigns
and their items, pledges, and gifts (the `Transaction` table). Every request is
an `async` handler that calls the database a few times and awaits in between.
Only a few of these calls are grouped into database transactions, nothing is
locked across calls, and several server processes may run at once. What can go
wrong is therefore a matter of interleaving: what one call has read is no
longer so when a later call of the same handler writes.

Paths below are relative to `src/src/` unless they begin with `prisma/` or
`docs/`; *tx-feature* is
`modules/features/transaction-feature/services/transaction-feature.service.ts`.

## 1. Inventory

| Component | State | Operations | Hard behaviour | What makes it correct |
|---|---|---|---|---|
| **Pledge ledger**: tx-feature, `modules/core/{transaction,pledge}`, `pledge-feature` | `Transaction` rows; `Pledge` rows with `paidAmount` and `status` | record, bulk record, update, delete, restore a gift; create, update, archive, restore a pledge | the gift and the total are written by separate calls; the difference is worked out from an earlier read; pledges archived in between | the total is the sum of the live gifts; the status follows the total; a failure leaves no trace |
| **Soft delete**: `infrastructure/prisma-client/soft-delete` | `deletedAt`, `deletedBy`, `deletedByCascade` of every row | `softDelete`, `restore`, cascades, restore preview, filtering of queries | cascades run several statements under READ COMMITTED; row locks, rollback | cascades are whole; a restore is the inverse of a delete; tombstones are invisible |
| **Campaigns and items**: `campaign-feature`, `modules/core/campaign*` | `Campaign`, `CampaignItem` rows | create, update, archive, restore; the same for items; progress | an item changed while its campaign is | an archived item says truly why it is archived |
| **Members and merging**: `member-feature`, `modules/core/member`, `modules/processes/member-merging` | `Member` rows, with the user each is linked to | create, update, archive, link, merge two into one | a merge is five calls that commit one by one | nothing stays attached to the dropped member; a user has one member per church |
| **Invitations**: `modules/processes/invitation-processing`, `modules/core/invitation` | `Invitation` rows (pending, accepted, cancelled, expired) | issue, accept, cancel, list | checks and writes apart: limit, duplicates, expiry, accept against cancel; retries | one answer per invitation; a member only by accepting |
| **Claims and sessions**: `infrastructure/firebase-auth/user-claims.service.ts`, `auth-feature`, `claims-refresh.interceptor.ts` | custom claims at Firebase | refresh after membership changes, sign-in, sign-out | read members, then write claims: two refreshes may cross | claims agree with the members in the end |
| **Token cache**: `infrastructure/firebase-auth/firebase-admin.service.ts` | map of verified tokens, bounded, with expiry | verify, invalidate a user, evict | a verification under way when the user is invalidated | an entry never outlives its invalidation |
| **Tenants and slug cache**: `modules/core/tenant`, `tenant-resolver.service.ts`, `tenant.guard.ts` | `Tenant` rows; map from slug to tenant | create, rename, archive, restore, resolve | a lookup under way when the tenant changes | the cache serves no archived church; slugs are unique among live ones |
| **Administration**: `admin-feature` | super-admin flag of a user | toggle, statistics, user search | two administrators demoting each other | one administrator is left |
| **Authorization**: `infrastructure/authorization` | none | ability per role, guard, interceptor | none: pure decisions | only what a role may do is allowed |
| **Audit trail**: `modules/core/audit` | `AuditEvent` rows | append, list | written last, failures dropped | (promises only best effort) |
| **Reports**: the reading half of `pledge.repository.ts`, `transaction.repository.ts` | none | summaries, trends, ageing, urgency | several reads of changing tables | totals of the buckets agree |
| Email, database client, controllers and DTOs, start-up, scripts | none of their own | | | |

How they interact. A controller passes the guards (token cache, claims, tenant
resolver, abilities) and calls one feature service or process. That service
calls core services, which call repositories; all repositories share one Prisma
client with the soft-delete extension. A gift handler reaches across
components: it validates against members, campaigns, items and pledges, writes
a transaction, and then adjusts pledges. A merge moves gifts and pledges and
then refreshes claims; accepting an invitation creates or links a member and
then refreshes claims. Every handler ends with an audit event. `PROJECT.json`
lists the hazards found in the code, each at its line.

## 2. Modules

| Module | Contents |
|---|---|
| `GiftTables` | a table of gifts, batches, and what they add up to for a pledge |
| `GiftLedger` | abstract: gifts and balances change together, at once |
| `PledgeLedger`, `MCPledgeLedger` | the handlers of gifts and pledges, call by call |
| `Giving`, `MCGiving` | what gifts and pledges name: pledge, campaign, item |
| `SoftDelete`, `MCSoftDelete` | archiving and restoring, statement by statement |
| `QueryFilter`, `MCQueryFilter` | the rewriting of queries, and what the database answers |
| `Members`, `MCMembers` | members, their gifts and pledges, merging, and claims |
| `Invitations`, `MCInvitations` | invitations, and the members acceptance links or creates |
| `Sessions`, `MCSessions` | credentials, the verification cache, sign-out, the super-admin role |
| `Tenants` | churches, the slug cache and the guard |
| `GiftReports` | reports about gifts and churches, as functions of the tables |
| `Reports` (extends it) | reports about pledges and campaigns; the agreement properties |
| `Pages` (extends it), `MCReports` | what each read request answers |
| `SumTheorems` | lemmas about sums over finite sets: by parts, by groups, over an image, after one entry changed |
| `PledgeLedger_proofs`, `SoftDelete_proofs`, `Sessions_proofs`, `Giving_proofs`, `Members_proofs`, `Invitations_proofs`, `Tenants_proofs` | theorems about the module each is named after; `PledgeLedger_proofs` also about `GiftLedger`, `SoftDelete_proofs` also about `QueryFilter`, `Reports` and `Pages` |

How they compose. `PledgeLedger` implements `GiftLedger` (`INSTANCE ... WITH`, the
property `BooksRefined`). `Pages` extends `Reports`, which extends `GiftReports`.
Where one component enters another only by its effect, it is a single step there
and is taken apart in its own module: archiving a campaign in `Giving`
(`SoftDelete` has the statements), archiving a member in `Invitations`
(`Members`), rebuilding claims in `Tenants` (`Members`). Operators whose comment
begins with "Fault" are plausible mistakes; no specification uses them. Each
property of a run is violated when one of them takes the place of the definition
after it.

Whether a caller may make a request is taken as given in every module.

## 3. Modules and code

### 3.1 PledgeLedger

State. `pledge` and `gift` are the two tables; a row is absent, live or archived
(`deletedAt` set). A request keeps its place in its handler (`pc`), what it has read and
will write (`job`), the pledges it has still to adjust in order (`queue`) and by how much
(`due`). Amounts are whole cents: the columns are `Decimal(14, 2)`, and the differences
the code computes on JavaScript numbers are rounded to two digits when they are stored. A
`due` that is not zero after a failure is an adjustment that will never be made: it is
history, which the code does not keep, and it lets invariants speak of what is missing.

| Action | Code |
|---|---|
| `BeginRecord`, `Insert` | `recordMany`: validation of every row, then `createManyWithAudit` in one transaction, then the map of deltas. `record` is the batch of one |
| `BeginUpdate`, `CheckPatch`, `RejectPatch`, `Save`, `SaveGone` | `update`: the read of `before`, then the validation of the pledge the patch names (refused unless live by then), then the write, and the four cases of the adjustment |
| `BeginDelete`, `Erase`, `EraseNothing`, `ReadBackErased` | `delete`: `TransactionService.delete` finds the live row; the repository's transaction stamps it (matching live rows only) and reads it back in whatever state |
| `BeginRestore`, `Revive`, `ReviveNothing`, `ReadBackRevived`, `ReadBackGone` | `restore`: accepts a row in either state, clears the stamp if there is one, reads it back among the live ones |
| `Adjust`, `AdjustRefused` | `adjustPaidAmount`: increment and status in one transaction, refused for an archived pledge |
| `Crash` | the process or its database connection is gone between two calls |
| `CreatePledge`, `EditPledge`, `ArchivePledge`, `RestorePledge` | the single writes of `pledge-feature`; a pledge has no children to cascade to |

Steps merged: the several reads that validate a batch (or the one of `record`)
are one step: nothing read there is used again, and all that is lost is a batch
accepted although its pledges were never live all at once; the existence check that
`TransactionService.update` makes once more just before the write is part of
the write's outcome (`SaveGone` is its `NotFoundException`). `softDelete` and
its read-back are one step when the stamp matched, because the row stays locked until
the commit, and two when it did not. The increment and the status write of
`adjustPaidAmount` are one step because the increment holds the row lock.

`Init` ranges over the books as `scripts/backfill-pledge-paid-amount.ts` leaves
them. Left out: campaign and item attribution (module `Giving`), dates, notes,
members (module `Members`), audit events, tenants (every operation is within
one), and reads that change nothing (modules `GiftReports` to `Pages`).

### 3.2 SoftDelete

State. `row` is the committed tables. "removed" stands for `deletedAt` set and
`deletedByCascade` false, "swept" for both set. A request's open transaction
has its own writes (`draft`), which are also its row locks. Every SELECT
and every UPDATE of the helpers is a step.

| Action | Code |
|---|---|
| `BeginDelete`, `BeginRestore` | the handler's lookup and the helper's `findMany`; if that finds nothing the helper returns and nothing happens |
| `Stamp` | the first `updateMany` of `softDelete` and `restore` |
| `FindChildren`, `ReachChild` | `cascadeSoftDeleteInto`, `cascadeRestoreInto`: the `findMany`, and the `updateMany` taking its rows one by one, since PostgreSQL locks and looks at them again one by one |
| `Commit`, `ReadBackFails`, `Abort` | the end of `$transaction`: `restore` reads its row back with `findFirstOrThrow`, and an exception rolls back |
| `BeginAdd`, `Insert` | `addItem`: the check of the campaign, then the insert |
| `CreateCampaign` | `create` |

The lookup of the handler and the `findMany` of the helper are merged: a row
that is gone at the second makes the helper return without a write, which is a
request that did not begin. The cascade's tree is one level deep because
`CampaignItem.campaign` is the only relation declared `onDelete: Cascade`
(`prisma/schema/campaign.prisma`); `Children` is what
`getCascadeChildren` finds for it. Locks are those PostgreSQL takes for UPDATE.
A deadlock is broken by the database, by aborting one of the
transactions: `Abort`.

Left out: who deleted a row and when (nothing reads it back), and the
query-rewriting extension (module `QueryFilter`), whose effect (queries see live
rows only unless they ask) is in the guards.

### 3.3 Giving

State. `row` says which campaigns, items and pledges are live; `promise` and
`gift` are what each pledge and gift names. `overtaken` and `loose` are history:
requests that name something archived since they began, and gifts of which an update
changed a part and kept a pledge or an item that goes with the rest.

| Action | Code |
|---|---|
| `BeginRecord`, `BeginUpdate`, `CheckPledge`, `CheckItem`, `CheckCampaign`, `Refuse` | `resolveAttribution`, one lookup a step: a pledge replaces campaign and item by its own; else the item, then the campaign |
| `Record`, `Update` | the write. `Patched` is the update: with a pledge all three columns are set, without one only those it gives a value for or clears (`clears`: a null passes the DTO and is written) |
| `BeginPledge`, `Promise`; `BeginAddItem`, `AddItem` | `PledgeFeatureService.create`, `CampaignFeatureService.addItem` |
| `Archive`, `Restore`, `ArchiveGift` | the single-step forms of module `SoftDelete` |

What an update names is checked by itself, and not against the columns it leaves as they
were. One that names a campaign and no pledge keeps the gift's pledge and item; one that
clears the item keeps a pledge that is for that item; one that clears the campaign keeps
an item of it (`ComesLoose`). The gift then counts for one campaign and pays a pledge of
another, or has an item and no campaign. `AttributionAgrees` is stated for all other
gifts; a later update that gives a pledge, or says what the item is and keeps no pledge,
puts a gift right (`Restated`).

### 3.4 QueryFilter

State: `archived`, the rows with `deletedAt` set. A query is a tree of *levels*: the
arguments it is asked with, the where clauses inside its own, and the arguments of
what it includes and counts. `Level` is a table of them, a constant: what the walker
(`soft-delete.walker.ts`) changes is only what each level says of `deletedAt`, so a
walk is a function from what is said (`Silent`: nothing) to what is sent.

| Operator | Code |
|---|---|
| `Reached`, `Enters` | how far the recursion of `processWhere`, `processRelationArg` and `processIncludeSelectArgs` gets: through logical operators, and through relations to models that can be archived |
| `Merges`, `Merge` | at which levels `mergeDeletedAt` is called, and what it does in either mode |
| `Filtered`, `WithDeleted`, `StateFiltered` | the extension's walk, the bypass, and `applyStateFilter`, which puts the two together |
| `Asked`; `Archive`, `Restore` | a query through the extension; archiving and restoring of a row, so that the invariants are about every choice of archived rows |
| `Meets`, `Shown`, `Answer` (external) | what Prisma and PostgreSQL make of a query |

`WellFormed` says which trees are queries: relations that the schema has, one model per
level. `LooksNoFurther` says what the walker takes for granted: it passes through,
unlooked at, what stands below a relation to a model that cannot be archived
(the audit trail) and below a count, and no query of the server has relation
conditions there. Left out: `every`, `is: null`, and the second look of
`findUnique`, which finds nothing new once the filter is in. A required parent that is
included is shown even when archived, as the code says.

### 3.5 Members

State. `member` is the table, `holding` the gifts and pledges with their owner and
tombstone, `claims` what Firebase keeps for each user. `queue` is the users whose
claims a request has still to rebuild; a request that fails keeps its list, as a
record of what it leaves undone. `met` is history: members and users two
requests worked on at once.

| Action | Code |
|---|---|
| `BeginUpdate`, `Save`, `SaveGone` | `MemberFeatureService.update`; a member's own profile update is the one without a role |
| `BeginDelete`, `Erase`; `BeginRestore`, `Revive`, `ReviveTaken` | `delete`, `restore`; the unique index on (tenant, user) of live rows may refuse |
| `BeginMerge`, `Move`, `Patch`, `PatchRefused`, `Drop`, `DropGone`, `Erase` | `MemberMergingService.merge`: two moves side by side, the copy of what the kept row lacks, the archiving |
| `Look`, `Send`, `SignIn` | `UserClaimsService.refreshFor`, read and sent; `exchangeIdToken` |
| `BeginRecord`, `Record`, `Archive`, `Restore`, `Reattribute` | the gift and pledge writes that name a member |
| `Crash` | the request dies between two calls |

When only the dropped member has a user, the merge copies that link before it
archives the row that holds it: the index refuses, and the merge fails with gifts
and pledges moved (`PatchRefused`). Only when somebody else has archived the
dropped row since does the copy succeed, which is why `ClaimsOwed` needs no
exception for merges.

### 3.6 Invitations

State. `invitation` and `member` are the tables, with a `clock` for expiry and for the
hourly limit. `peak`, `joined` and `troubled` are history (see the comments there).
Each `await` of `issue`, `accept` and `cancelById` is a step: `BeginIssue`,
`Dedup`, `CheckMember`, `Create`; `BeginAccept`, `MarkExpired`, `FindMember`,
`Link`, `SaveEmail`, `Enrol`, `MarkAccepted`, `Look`, `Send`; `BeginCancel`,
`MarkCancelled`. `Crash` ends a request at any of them. Members are archived and
restored meanwhile. Left out: `cancel(token)`, which no route calls, the public lookup, the
lists, and the e-mail, whose failure is logged and changes nothing.

### 3.7 Sessions

State. `super` is the column of the user table, `claims` and `token` are Firebase's,
`cache` and `born` are `verifyCache` (a `Map`, so in order of insertion). A request passes
the guard (`Arrive`, `Hit`, or `Miss`, `Ask`, `Store`) and goes on to sign out everywhere
(`Revoked`, `Forget`), to set a user's role (`FindActor`, `Update`, `Look`, `Send`), or
only to rebuild the claims of a user (`Look`, `Send`): that is the `refreshFor` of a
sign-in (`exchangeIdToken`), of changes to members, of an accepted invitation and of a
merge. `Mint` is the provider's part of a sign-in. `refreshFor` reads the row and then
overwrites the whole claim: when a role changes between the two steps of another request's
refresh, one change of role is enough to leave the claim stale. `crossed` is history: the
users to whom that happened, or whose refresh failed, until a refresh begins while none is
being sent. `RolesGuard` decides by the claim in the credential, which may be older than
the table. `Kept` is the eviction at the limit; `Break` and `Restart` end requests, and a
restart empties the cache. A time to live of 0 switches the cache off and is left out.

### 3.8 Tenants

State. `tenant` is the table, `person` each user's church, role there and super-admin
flag, `claims` what the user's claims say of that (the church by the slug it had when they
were built), `cache` the resolver's. Rename, delete and restore are check, `Write` and
`Invalidate`; create is check and `Write` only, as in the code. The guard is `Get`,
`ReadBySlug`, `ReadById`, `Set`, and then `Verdict`: 404 for those who have no membership
under the church's slug, 403 for members without a role that the route requires
(`TenantRoles`; no route declares any today), and super-admins pass. `Lapse` is the time
to live, `Restart` empties the cache.

Slugs and ids may overlap, because `assertValidSlug` lets a UUID pass and the resolver
looks for a slug first. A church created with the id of a live one for its slug changes
what that key stands for, and nothing invalidates it. `missed` and `calm` are history:
keys that a lookup had read when they changed or that no invalidation reached
(`Overlooked`: such a create, and a rename that did not know of another; or a change that
broke off), and guards that began when the claims, the cache and every lookup about to be
cached were up to date (`Fresh`, `Settled`), and during which no church changed.

Claims that name a church by its slug let the members of an archived church into
another that has taken the slug: `MemberOf` in `GuardRight` says so.

### 3.9 GiftReports, Reports, Pages

Functions of six tables. `GiftReports`: lists, summary, givers, trend,
unattributed gifts, the figures of churches and of the platform. `Reports`:
lifecycle, pledge list and report, urgency, progress. `Pages`: what the
controllers make of them for the staff and for a member's own pages, with the
defaults they fill in. Days are numbers and a month has a fixed length, except in
`SetUTCMonth` and `GiversFrom`, which use the calendar. The tables are functions
from ids to rows; `ChurchColumns` to `GiftColumns` are the columns of each
(`prisma/schema`), and a row that is not there yet is `absent`. The actions archive
and restore rows and settle stored totals, so that reports are compared on tables
with archived rows and stale totals.

What the database leaves open is left open: `Sorted` is any order that respects the
ORDER BY, and `AtMost` any selection when a query without one has a `take` that is too
small. There are two of the latter, the candidates of `findUrgent` (`SampleSize`, six
times the limit and at least 50) and the unpaid pledges of the ageing chart
(`AgingRows`, 10000); `UrgentIsUrgent` and `PledgeReportsAgree` say what is still
promised when they overflow. `Lifetime` stands for the widest window the pages ask
for, from 1970 to 2999 in the code, and `Limits` for the page sizes.

A report is evaluated on one state. The server asks for the parts of an answer in
several statements, so that a write in between shows in one part and not in
another; lists sorted by a date only may repeat or skip a row between two pages. Neither
is modelled.

## 4. Runs

| Run | Specification | Shows | Bounds |
|---|---|---|---|
| `ledger_any` | `Spec` | `TypeOK`; `SuccessMeansSettled`; `PaidMovesWithStatus` | 2 requests, 2 gifts, 1 pledge, amounts 1 and 2 |
| `ledger_settles` | `FairSpec` | `BalanceConserved`, `StatusAgrees`; `BooksRefined` (implements `GiftLedger`); `BooksSettle` (liveness) | 2 requests, 2 gifts, 2 pledges, amount 1 |
| `ledger_relive` | `SmoothSpec` | `PaidIsRunningSum` is violated | 1 request, 1 gift |
| `archive` | `LiveSpec` | `NothingLost`, `RemovedStaysRemoved`, `CascadeWhole`, `PreviewKept`; `RequestsEnd` (liveness) | 3 requests, 1 campaign with 2 items |
| `members` | `SmallSpec` | `TypeOK`, `ClaimsOwed`, `MergeLeavesNone`; `ClaimsSettle` (liveness) | 2 requests, 2 members, 1 user, 1 gift, 1 pledge |
| `members_tombstones` | `SmallSpec` | `MergeMovesTombstones` is violated | 1 request |
| `invitations` | `Spec` | `RateBounded`, `OnePending`, `AcceptedMeansJoined`, `FinalStays`, `LinkKept` | 3 requests, 2 invitations, members, users, addresses; clock 0..2 |
| `sessions` | `Spec` | `TypeOK`, `HonouredLessThanTtl`, `CacheBounded`, `DroppedAtSignOut`, `SomeoneLeft`, `ClaimFollows` | 2 requests, 2 users, 2 credentials; room for 1 entry, time to live 1, clock 0..2 |
| `tenants` | `Spec` | `CacheCurrent`, `GuardRight`; `CacheHeals` (liveness) | 2 requests, 2 churches, 2 slugs (one of them the id of a church), 1 user |
| `giving` | `Spec` | `AttributionAgrees`, `NamedIsLive` | 2 requests, 2 campaigns, 1 item, 1 pledge, 1 gift |
| `reports` | `MCSpec` | `GiftReportsAgree`, `ChurchFiguresAgree`, `PledgeReportsAgree`, `UrgentIsUrgent`, `ProgressAgrees`, `PagesAgree` | 2 churches, 3 members, 1 campaign, 1 item, 2 pledges, 3 gifts; 3 days to a month; 1 change |
| `filter` | `FilterSpec` | `LiveWorld`, `ListSlices` | 9 rows, queries up to two relations deep |

Each request is served once, so a behaviour has as many requests as `Requests`
has members; deadlock is not checked where a behaviour rightly stops when all
are served. Two requests make every pairwise race. Three are what it takes to
overrun the invitations' limit and have a third look at the result, or for a
delete and two more to interleave in a cascade; two items let a cascade be cut in
the middle. Initial states range over all consistent tables (`Init`), so that a
run need not begin by filling them; `members` and `reports` start from part
of them, said in their modules. Gifts start
absent in `giving`, invitations in `invitations`. The ledger's states are spent in two
ways: `ledger_any` has one pledge and amounts and promises 1 and 2, so that updates
change amounts and promises; `ledger_settles` has two pledges and amounts of 1
against promises of 1, so that gifts move between pledges and a batch is for both. In
either, totals come below, at and above the promise. `MaxBatch` 2 (the server's
limit is 50) is the smallest batch in which two gifts share a pledge or do not. The
theorems cover all other amounts and numbers. Deadlines in `reports` sit on both sides
of today, of 14 and of 30 days; the sample of `findUrgent`, at least 50 rows, and what
the ageing chart takes, 10000, are larger than the tables of the run. `SYMMETRY` is
declared only in runs without liveness properties.

The specifications differ in what else goes on. `SoftDelete.OneAtATime` (part of
`LiveSpec`) is the assumption that no two requests archive or restore one campaign at the
same time, and `PledgeLedger.Courteous` (part of `FairSpec`) that clients do not start on
a gift another request is about to write, and restore only archived gifts. The server
enforces neither; `CascadeWhole` and `PreviewKept`, and `BalanceConserved`, `BooksRefined`
and `BooksSettle`, need them. In the other modules an assumption of that kind is part of
the property: what two requests had open at once is in a history variable (`met`,
`troubled`, `raced`, `crossed`, `usurped`, `overtaken`, `missed`), and the property is
about the rest, which says exactly which interleaving it takes to break it. None of them
is a guard of an action: every interleaving happens.

Fairness. Weak fairness of `Proceed(r)` for every request: Node resumes a handler
when its database call returns, every handler is a finite sequence of calls,
and PostgreSQL grants a row lock when the holder commits or rolls back. Starting a
request, editing, crashing and aborting are never assumed to happen. `Tenants`
adds weak fairness of `Lapse(k)`: the clock goes on. `BooksSettle` and
`ClaimsSettle` are about behaviours in which no request fails.

### Where the code and its comments part

Two runs are counterexamples.

* `ledger_relive`: `PaidIsRunningSum` is the schema's comment on `paidAmount`
  (`prisma/schema/pledge.prisma:17-20`). Restoring a live gift adds its amount
  again (tx-feature:289). No later step corrects it; `findById` shows the live
  sum instead of the column, the lists and reports show the column.
* `members_tombstones`: `MergeMovesTombstones` is the comment on
  `reassignMember` (`transaction.repository.ts:781-783`). The update says nothing of
  `deletedAt`, so the extension narrows it to live rows: an archived gift stays with
  the dropped member, and comes back to it when restored.

The models show more, which the properties are stated around:

* Two requests on one gift leave a total that nothing corrects
  (`BalanceConserved` needs `Courteous`).
* A batch is recorded though one of its pledges is archived before the
  adjustment; the call then fails with the gifts recorded, while tx-feature:93-95
  promises that a failure leaves the books untouched.
* A new promised amount leaves the status as it was until the next gift
  (`StatusAgrees` is about specifications without such edits).
* A second delete of a campaign that a restore overtakes sweeps the items of a
  campaign that stays live (`CascadeWhole` needs `OneAtATime`).
* An update that changes or clears a part of what a gift is for keeps the rest
  (`loose`), while the comment on `resolveAttribution` (tx-feature:409-411) promises that
  campaign and item match the pledge and that the item belongs to the campaign.
* `TenantFeatureService.create` does not invalidate the slug cache, which
  `tenant-resolver.service.ts:60-62` has called "whenever a tenant is created". It matters
  only when the new slug spells the id of a live church: that key then goes on serving the
  other church until the entry lapses (`Overlooked`; without it `CacheCurrent` is
  violated).
* A sign-in that read the super-admin flag before it was changed, and sends it after the
  change's own refresh, leaves the claim stale until the next refresh (`crossed`).
* The default window of the givers report sets the month before the day
  (`transaction.tenant.controller.ts:215-216`): on a day that the month eleven months
  ago does not have, it covers eleven months and not "the last 12 months"
  (`GiversWindow` in `Pages` says exactly when).
* `includeDeleted=false` in a query string becomes true: the DTO converts any
  non-empty string with `Boolean`. The list views take the flag after conversion.
* `findUrgent` leaves out pledges whose item or campaign is archived, because it
  asks for the relation with `is`, while the other reports keep them.

## 5. Proofs

Every invariant and every action property that a passing run checks is a theorem. All
theorems hold for any finite set of gifts, of invitations and of requests about them, any
pledges, campaigns, items, members, users, credentials, churches and slugs, any natural
amounts, any batch limit, rate limit, time to live and size of the cache, any finite
tables the reports are made from, and queries of any depth. They rest on the named
assumptions `GiftAssumption`, `RequestAssumption`, `TreeAssumption`, `SessionAssumption`,
`GivingAssumption`, `PeopleAssumption`, `InvitationAssumption`, `TenantAssumption`,
`TablesAssumption`, `RowsAssumption` (a row has the columns of its table) and
`CalendarAssumption` (a month has a length, a year up to twelve months, today is a day),
which say just that, and that ids of different kinds differ (a slug may be an id); the
theorems about queries also on `QueryTrees` and `ForeignKeys`. TLC evaluates all of them.

* `LedgerTypeOK`, `SuccessSettles`: `TypeOK` is inductive, and so is
  `TypeOK /\ DueIsQueued`. The second is needed because "a request that is done
  owes nothing" is lost at the last adjustment unless one knows that what it owes
  is on its list. The central lemma is that every branch of `update` visits every
  pledge whose sum it moved.
* `PaidMoves`: no invariant is needed beyond `TypeOK`; only `Adjust` moves a total.
* `StatusFollowsPaid` (`UneditedSpec`): inductive with `TypeOK`.
* `CourtesyConserves` (`CourteousSpec`): `BalanceConserved` is not inductive. A
  write changes the sum of live gifts by the difference between the row now and
  the row after, and `due` by the difference between the row *read* and the
  row after; they agree only when nobody has written in between. `Undisturbed`
  says so: the rows a request is about to write are as it saw them, and no other
  request is about to write them. `UnbornUnpaid` covers pledges not yet created.
  `CourteousInv` is the conjunction. The arithmetic rests on `SumTheorems`
  (the sum of a table after one entry or a batch of entries changed), proved
  from the definition of the fold by way of the library's fact about recursive
  functions on finite sets.
* `CourteousRefinesBooks`: under the mapping `balance = paid + Owed`, a write of
  a gift is the abstract operation, and every other step stutters: an adjustment
  moves an amount from `Owed` to `paid`.
* `LedgerBalanced`: in the abstract books, balances are sums. Together with the
  refinement, it gives `BalanceConserved` its meaning.
* `LocksProtect`, `RemovedStays` (`Spec`): the inductive invariant says that the
  rows a transaction has written are locked by it alone, and are for everybody
  else what its where clause asked for. So a commit changes a row only from what
  the clause allows, and a cascade's clause never allows "removed".
* `CascadesAreWhole`, `PreviewHolds` (`OrderlySpec`): the inductive invariant
  follows a cascade through its stages. After the stamp the campaign is written
  by this transaction; after the search every item still to be handled is on the
  list, unless a request on that item holds it; at the commit none is left.
* `SilentQueriesSeeTheLiveWorld`, `ListsShowTheirSlice` (`QueryFilter`): two databases are
  compared, one with all rows and one without the archived ones, each with what is sent to
  it. `Comparable` says that at every level the walker reaches the two let the same of
  the shared rows through, and that the first hides the archived rows wherever a
  relation could lead to them. Then the rows that meet a level agree (`MeetsAlike`), and
  so does what is shown of a row (`ShownAlike`). Both go down the tree: among the levels
  where they did not, there would be a deepest one (`DeepestWithout`, from the library's
  fact that the order of the naturals is well-founded; the bound `Deepest` may be
  any). That the recursive functions `Meets` and `Shown` exist at all is proved the same
  way. The two theorems are two choices of what is sent. They hold for any rows, foreign
  keys and trees of any depth that satisfy `ForeignKeys` and `QueryTrees`.
* `TablesAreTyped` (`Reports`): the rows keep the columns of their tables (`TablesOK`).
  This is all the six theorems about reports need of the behaviour, and it is inductive;
  the rest of each is about one state of the tables, for every window, church, filter and
  limit there is. Sums are the folds of the library, so each begins with `SumTheorems`.
  * `GiftReportsStayInAgreement`: the parts by type, campaign and month partition the rows
    of the list (`SumByKey`); for the months, every day of the window lies in exactly one of
    them (`MonthsBetweenIs`, from division with remainder). `Givers` and `Ranking` sort: a
    finite set with a strict order has an enumeration in which nothing comes after what it
    should precede (`SortedExists`): a smallest part without one would get one by putting
    an element that precedes no other (`LastElement`) behind the rest. The first rows are
    then the largest (`LeadersLead`).
  * `ChurchFiguresStayInAgreement`: members belong to one church each, so that the churches'
    counts sum to the platform's; `LastMonths` says that a window of n months, resolved
    from today, begins on the first day of a month and has n buckets.
  * `ProgressStaysInAgreement`: gifts and pledges of a campaign are those of its live items
    and the rest (`SumByKeyAndRest`).
  * `PledgeReportsStayInAgreement`: the list holds one row per pledge, so that sums over its
    rows are sums over pledges (`SumImage`), and a pledge that is active has one of the four
    ages exactly when it is unpaid (`LifecycleIs`).
  * `UrgentStaysUrgent`: `MoreUrgent` is a strict order of the rows that can be ranked; a
    pledge that is due is a candidate (`DueIsPressing`), whether the deadline is its
    item's or its campaign's.
  * `PagesStayInAgreement`: a member's own pages show the rows the staff see of that member
    and together make them up; `GiversWindow`, for every day
    of the years it names, needs how many months `SetUTCMonth` moves (`MonthCount`, again
    by division with remainder).
* `SessionTypeOK`, `CacheKeepsToLimit`: the limit needs that entries bear
  different insertion numbers, all below `born`: at capacity the entries with fewer
  than `MaxEntries` newer ones are then fewer than `MaxEntries`.
* `HonouredBriefly`: not inductive, because an entry is stored after the answer
  it stems from. The invariant adds that an answer in hand was asked for no later
  than its credential was revoked, and that an entry of a revoked credential runs out
  within the time to live after the revocation.
* `SignOutDrops`: adds that an answer in hand about a credential revoked since is in
  `raced`, and that an entry belongs to its credential's user.
* `RoleNotLost`: an actor who still has the role is another than the user losing it.
* `ClaimsFollowTable`: for a user not in `crossed`, whatever a request has read and is
  about to send is what the table says. A change of role while one is about to send puts
  the user in `crossed`; a refresh that begins alone reads the table and takes the user
  out again.
* `AttributionHolds`, `NamedIsLiveHolds` (`Giving`): the invariant says what a
  request has found out at each of its calls (`FoundOut`: at the write the three names
  fit together) and what cannot change meanwhile (a pledge that is there keeps its
  purpose, `Unpromised`); `StillLive` adds that what it has looked up is live unless it
  is `overtaken`.
* `MembersTypeOK`, `MergeMovesAll` (`Members`): `MergeLeavesNone` speaks of the end of
  a merge only. `Emptied` says of every stage that the tables already moved hold
  nothing live for the dropped member, and `Alone` that no other request names that
  member: so nothing is given to it again, neither by a gift recorded meanwhile nor by
  another merge that keeps it. Both leave out the members in `met`.
* `NoClaimForgotten` (`Members`): `ClaimsOwed` says nothing of what a request is about
  to send. `OweInv` adds that, for a user in no meeting, only one request is concerned
  with the user (`Apart`), that what it is about to send is what the rows say
  (`SeenSo`), that the role an update compares with is the role in the row
  (`RoleRead`), and that a merge still has the right user for the dropped member, and
  cannot give that user to the kept one (`LinkRead`). A step then either leaves the
  members of the user alone (`Kept`) or puts the user on its list. While this was
  proved, the property became stronger than it had been: a failed request does not
  excuse every user, only those on the list it left, and merges are no exception.
* `CacheIsCurrent` (`Tenants`): a write changes what a key stands for only if it is one of
  the church's own keys, old or new (`OthersKept`), and these are invalidated or in
  `missed`. The invariant adds that slugs of live churches differ, that a lookup in hand
  is what the table says unless its key is in `missed` (`LookupsRight`), and that two
  requests never create one church (`NewOnce`). Create invalidates nothing: its id is new,
  and its slug stood for nothing before, or for the live church whose id it spells
  (`Overlooked`).
* `GuardDecidesRight` (`Tenants`): the attempt showed that `calm` was too weak. With three
  requests, a lookup that one of them made before a rename can be cached after the
  guard began, though nothing changed since; the run, with two, is too small for that.
  `calm` now asks for `Settled` at the beginning, and the theorem covers any
  number of requests. `WellInformed` says that a calm guard holds claims that are those of
  the user and a church that the key names, or none; `VerdictRight` compares
  its decision with the memberships, roles and super-admins of the tables.
* `RateIsBounded`, `PendingIsOne` (`Invitations`): not inductive, since a request that has
  counted will write later. `Counted` bounds what there is together with what is still
  to come: recent invitations plus issuing requests are at most `RateMax + peak - 1`, and
  pending ones for an address plus requests past that check at most `peak`. A window of
  time has either passed, and its number stands, or lies within what is recent.
* `AcceptedHasJoined`, `FinalHolds`, `LinkIsKept` (`Invitations`): the invariant `JoinInv`
  says of an invitation without trouble that one request at most has it open (`Alone`),
  and with what (`Opened`); how far it is (`Standing`: nobody has joined before the link,
  one user has between the link and the mark, and the status says so after it); that no
  other invitation names its member (`Named`), and whom the member belongs to (`Linked`).
  Together they say that the link an acceptance overwrites is empty.

The runs check some of these under a stronger specification than the theorem
needs (`NothingLost` and `RemovedStaysRemoved` are proved for `Spec` and run under
`LiveSpec`, `StatusAgrees` is proved for `UneditedSpec`, `BalanceConserved` and
`BooksRefined` for `CourteousSpec`, and run under `FairSpec`), so that one state space
serves several questions.

Only model-checked: the liveness properties `BooksSettle`, `RequestsEnd`,
`ClaimsSettle` and `CacheHeals` (fairness and ENABLED are beyond the proof system at
hand). The violated properties are counterexamples and need no proof. The theorems about
reports stand in `SoftDelete_proofs` next to those about archiving and queries: together
they say what a reader is shown of rows that come and go.

## 6. Not modelled

* Authorization: a table from roles to abilities without state; a model would
  restate it.
* The audit trail: nothing reads it back, and its failures are logged and dropped.
  (Inside `createManyWithAudit` a failed audit insert has already aborted the
  database transaction; `PledgeLedger` has the outcome, all or nothing.)
* E-mail, which only calls a service; the database client and start-up, which
  are wiring; scripts other than the backfill, which run by hand on an idle database.
* Of the controllers: routes, validation that rejects a request, and layout. What a
  request may carry is in the inputs of the modules.
* Updates of texts, targets and deadlines of campaigns and items, and of names
  and addresses: single writes that no other step reads back.
* The preview of a merge, the search for users, the suggestion of a slug, the lists of
  invitations, and the minute for which the platform's figures are cached.
