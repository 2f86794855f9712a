# Verification of ArborPress

ArborPress is a self-hosted publishing system: a Quart web application over one
SQL database (SQLite or a server database), with background workers in every
process that serves it and a command line that works on the same database and
files. This directory holds TLA+ modules for the parts of it in which several
requests, workers, processes or hosts share rows or files, the TLC configurations
that check them, and TLAPS proofs. Every module is translated from the Python
source under `src/arborpress`; `PROJECT.json` says for each definition which lines
it stands for. Paths below are relative to `src/arborpress`.

## 1. Inventory of the system

| part | state it keeps | operations | interacts with | what is hard |
|---|---|---|---|---|
| mail outbox (`mail/queue.py`) | table `mail_queue` | enqueue, claim, send, finalize, retry, cancel | SMTP; every component that sends mail; operator pages and CLI | leases, worker death, ambiguous send, requests that race workers |
| mail transport, profiles, templates (`mail/smtp.py`, `profiles.py`, `template_engine.py`) | profile rows | connect, render, send | outbox | only I/O and text |
| backup restore (`backups/restore.py`) | live paths, rollback and staged siblings, journal, maintenance marker, database | apply, rollback, recover | the web application refuses to start while a marker exists | death between any two file operations, commit uncertainty, repeated recovery |
| backup sets (`backups/service.py`, `archive.py`, `verify.py`, `retention.py`) | set directories, pins, the instance lock | create, verify, pin, prune, clean up | restore; uploads of the running server | a consistent pair of database and files, pruning the last good set |
| federation delivery (`federation/services.py`, `operations.py`) | `federation_outbox_activities`, `federation_deliveries` | enqueue, claim, post, retry, cancel | remote inboxes; administrator | lost updates over a long POST, moved inboxes, leases |
| federation inbox (`web/routes/federation.py`, `federation/inbox.py`) | `federation_inbox_activities`, `ap_followers`, remote comments | receive, claim, Follow, Undo, Create, Update, Delete, answer, reprocess | delivery queue (answers), comments | redelivery, reordering, two handlers on one relation |
| outbound follow (`federation/services.py`, `federation/inbox.py`) | outbound `ap_followers` row | follow, unfollow, Accept, Reject | inbox and delivery queue | late answers, unlocked read-modify-write, truncated keys |
| actors, policy, signatures, fetch (`federation/actors.py`, `policy.py`, `remote.py`, `security.py`) | keys, actor cache, domain rules | resolve, sign, verify | both queues | parsing and cryptography |
| OAuth server (`auth/oauth_server.py`, `web/routes/oauth_provider.py`) | clients, grants, codes, families, tokens, idempotency receipts | authorize, consent, exchange, refresh, revoke, edit client, write resources | sessions; administrator; content, comments, media | concurrent exchange and rotation, revocation against requests in flight, repeated writes |
| SSO login (`auth/oidc*.py`, `web/routes/sso.py`) | login state, identities | begin, callback, link, unlink | sessions, credentials | one-shot state, last way to log in |
| sessions, recovery (`auth/sessions.py`, `breakglass.py`, `web/routes/auth.py`) | `user_sessions`, pending ceremonies, recovery tickets | establish, refresh, revoke, authorise, redeem, enrol, complete | all of authentication | recovery excludes login, ceremonies that end after a reset |
| step-up (`auth/stepup.py`) | `step_up_grants`, ids in the cookie | grant, assert, consume | sessions, MFA | one-shot use by parallel requests |
| passwords, MFA, WebAuthn, pending login (`auth/*`) | credentials, challenges, counters | verify, enrol, remove | sessions | last credential, attempt limits |
| roles and permissions (`auth/roles.py`, `permissions.py`, `content/authors.py`) | roles, object grants, authors of a post | set role, disable, replace authors | content | last administrator |
| comments (`comments/service.py`, `threads.py`, `voting.py`) | comments, revisions, votes | submit, confirm, edit, delete, vote | moderation, federation, notifications | links sent twice, revisions that overtake each other |
| moderation (`comments/moderation.py`) | reports, decisions, appeals | report, decide, appeal, overturn | comments | overturning what has changed since |
| content (`models/content.py`, routes, `core/scheduler.py`) | posts, revisions, object ids | create, edit, delete, publish on time | federation delivery | four routes and a scheduler that change one row and must tell the followers |
| plugin lifecycle (`plugins/lifecycle.py`, `state.py`) | package and environment directories, record, enabled set | install, update, remove, enable | supervisor | renames without a journal |
| plugin processes (`plugins/process.py`, `supervisor.py`, `rpc.py`) | child processes, one channel each, state file | start, stop, request, event, restart | core services over RPC | timeouts with late answers, start against stop, restart policy |
| plugin services and jobs (`plugins/services.py`, `jobs.py`) | key-value rows, jobs with leases | schedule, run, defer, cancel, store | plugin processes | leases of another worker, two servers |
| notifications and push (`notifications/*`, `web/routes/notifications.py`) | events, preferences, subscriptions, `web_push_deliveries`, live sockets | emit, opt out, subscribe, claim, push, stream | scheduler, sessions | a third lease protocol, opt-out during a send, logout under an open socket |
| themes (`themes/management.py`) | override directories, manifest, revisions | edit, reset, restore, activate, trust | rendering, settings | several files per edit |
| site settings (`core/site_settings.py`) | one row per section, a cache per process | read, save a section | everything | whole-row writes from stale copies |
| cache and search (`core/cache.py`, `search.py`) | two cache levels, index rows | get, set, invalidate, index | content | stale first level |
| migrations (`core/migrations.py`) | database lock, revision | lock, upgrade | start-up, restore | two hosts starting |
| web, CLI, configuration (`web/*`, `cli/main.py`, `core/config.py` ...) | none of their own | dispatch | everything | the schedule under which workers run |

What makes each part correct, in a line: a mail, push or delivery is settled, is
marked sent only when it was, and is repeated only for a reason that can be
named; a restore is all or nothing, and there is always a set to restore from; a
relation with a remote actor is what the last decision of the two sides says; a
code, a refresh token, a step-up grant or an idempotency key is used once, and
what is revoked stays revoked; no account loses its last way in, and a recovery
leaves only what was enrolled in it; what the public reads is what the record of
decisions explains; followers have the post as it is; an edit of several files
and a plugin update are all or nothing; a field of the settings is what was last
decided about it. `PROJECT.json` lists the places where this is at risk under
`hazards`, with the property that watches each, or the reason why none does.

## 2. Plan

Written, in the order of their importance:

1. `MailOutbox`, with `MailOutboxProofs`: the lease protocol other queues repeat.
2. `Restore`, refining `AtomicRestore`, and `BackupSets` around it, with `RestoreProofs`.
3. `FederationDelivery` with `FederationDeliveryProofs`, `FederationInbox` (proofs in
   `QueuesProofs`), `OutboundFollow` with `OutboundFollowProofs`.
4. `OAuthServer`, `Recovery`, `Credentials`, with `AccountProofs`: who gets in and who
   stays in.
5. `Comments`, `Content`, `ApiWrites`, `Settings`, `ThemeFiles`, with `CommunityProofs`:
   what people write.
6. `PluginRuntime`, `PluginPackage`, `PluginJobs`, with `PluginProofs`.
7. `WebPush` (proofs in `QueuesProofs`), `LiveSocket` (proofs in `CommunityProofs`).

Every safety invariant and every action property of a passing run is a theorem
(section 6). Left: an abstract lease queue, with a proof that the outbox, the
deliveries, the pushes and the jobs of plugins implement it; votes and reports of
comments; plugin key-value quotas; the migration lock.

## 3. Conventions of the models

- One action is one database transaction, one call to the outside or one
  file-system operation. Where the code reads a row in one statement and writes it
  in a later one without a lock, the two are different actions and the write
  applies the columns that differ from what was read (SQLAlchemy's unit of work),
  by primary key, to whatever the row holds by then. A conditional `UPDATE ... WHERE`
  is one action. `SELECT ... FOR UPDATE` locks on a server database and does nothing
  on SQLite; a module that depends on it says which of the two it takes, or takes
  both.
- A clock is abstracted to the comparisons made with it: a lease is `held` or
  `expired`, a back-off `future` or `past`; actions let time pass, also under a worker
  that is in the middle of its work.
- A process may die between any two of its actions.
- Variables listed as observers record what happened and guard no action. They
  let a property name its exceptions: a second delivery is allowed after an
  acceptance that was not recorded (`ambiguous`), after a lease was taken from a
  live worker (`overlap`, `overran`), after an unlocked request wrote over a row that
  had moved on (`stale`, `raced`, `blind`, `forgiven`, `excuses`).
- Constants named `Max...` bound what would be unbounded, except `MaxAttempts`,
  `MaxTries`, `MaxRestarts`, `MaxPings`, `MaxEdits` and `MaxOpenJobs`, which are limits of
  the code itself with smaller values.
- An operator whose comment starts with "Mutant" or "Mutation" is a plausible defect of the
  definition that follows it. It is used by no specification; replacing the
  definition by it must break a property (`mutants` in `PROJECT.json`).
- Modules that EXTEND several components have a variable `subject`: a behaviour is
  about one of them, chosen in the initial state, and the others stand still. One
  run then checks several components, whose state spaces add and do not multiply.
  No property relates two of them; where one calls the other (a restore and the set
  it is made from) the caller has the call as one step. The theorems are about the
  specification that each component has of its own (`Spec`, or `PushSpec`, `InboxSpec`,
  `BackupSpec`, `CredentialsSpec`, `RecoverySpec`, `JobsSpec`, `PackageSpec`, `RuntimeSpec`,
  `ApiSpec`, `LiveSpec`, `ContentSpec`, `SettingsSpec`, `ThemeSpec`, `CommentsSpec`), whose
  initial condition and next-state relation are what the MC module joins.
- `CHECK_DEADLOCK FALSE` everywhere: a settled queue with its bounds used up, a
  finished restore and an idle server rightly have nothing to do. That nothing
  stops too early is what the liveness properties are for.

## 4. Modules

**`MailOutbox`** (`mail/queue.py`). `row` is the table; `pc`, `job`, `seen`, `fault`
are the local state of one call of `process_queue`, that is of one fresh
`worker_id`. `Start` is `_worker_lock`; `ClaimNone`, `ClaimSelect`, `ClaimUpdate`,
`ClaimLost` are `_claim_one` (terminalization of exhausted leases, SELECT,
conditional UPDATE, a rowcount other than 1); `Prepare`, `SendAccepted`,
`SendRefused`, `SendUnknown` the attempt with its three outcomes (the last is a
message that the server took although the client saw an exception);
`FinalizeSent`, `FinalizeRaises`, `FinalizeFailed` the recording transactions;
`RetryRead` and `RetryCommit` the two halves of `retry_mail`; `CancelMail` the single
UPDATE of `cancel_mail`. `Flock` says whether `fcntl.flock` serializes the workers,
which holds for one host with a POSIX system.

**`WebPush`** (`notifications/service.py`, `push.py`, routes). The third lease queue:
`CreateNotification` makes a delivery per active subscription; `Claim`, `LostClaim`
and `ClaimNothing` (which buries exhausted leases) are `_claim`; `DeliverOne` is the
second look at the preferences before the send, `Record` what is written after it;
`PreferencesUpdate`, `WebPushSubscribe` and `WebPushUnsubscribe` are the routes.
**`LiveSocket`** is the WebSocket of the same inbox: one-shot tickets, the cursor,
pages, and the session that may end under an open connection. A round of the socket
is three statements, each of which sees what was committed before it (READ COMMITTED):
`SocketChecks` reads the session, `SocketAsks` the switch, `SocketSelects` the events;
`SocketSends` and `SocketWaits` follow.

**`Restore`** (`backups/restore.py`). A swap entry of the journal is one path that is
replaced; `target`, `rollback`, `staged` say what is at the path and its siblings,
`carried` follows a SQLite file that lies inside a directory being moved. `disk` and
`mem` are the journal on disk and in memory, `dirty` a write that is due. `Begin`
to `Finish` are `apply_restore`; `RemoveNew`, `RestoreOld`, `RolledBack` are
`_rollback_swaps`; `CleanupOne` to `StagingRemoved` the removal of the leftovers;
`Fail` is a call that raises and runs the except branch, `Crash` the death of the
process, `Recover` the operator's `restore recover`. **`AtomicRestore`** says what a
visitor may see: the service closes, the instance is replaced as a whole or not,
the service opens. `Atomic` in `Restore` instantiates it with the refinement mapping:
closed while a marker file exists; the replacement is the journal write that says
`complete`. A plan replaces at least one path (`backups/restore.py:154`). **`BackupSets`** is what surrounds it: sets are made (`CreateBackup`,
`ExportDatabase`, `ScanTree`, `CopyFiles`, `Publish`), pinned, pruned in two passes with
a plan shown in between, cleaned up, damaged, and restored (`ApplyRestore` to
`RecoverRestore`, where the switch itself is one step), while uploads write a file and
then a row.

**`FederationDelivery`** (`federation/services.py`, `operations.py`). As the outbox,
without a lock and without conditional writes: `Load` to `Commit` are `deliver_one`
in the session of `run_delivery_batch`, `change` the columns it will write.
`RequestRead` and `RequestCommit` are `retry_delivery` and `cancel_delivery`.

**`FederationInbox`** (`web/routes/federation.py`, `federation/inbox.py`). One local
account, one remote actor with its Follows, their Undos and its notes with their
Creates, Updates and Deletes. `ReceiveInbox` stores an activity once; `ClaimInbox`,
`LoadIntake`, `Read` and the handlers `Follow`, `Undo`, `Create`, `Update`, `Delete`
process it; `Conflict`, `Reject`, `Fail` are the ways a handler ends without success;
`Respond`, `ReviewRevision` and `Reprocess` are the administrator's.

**`OutboundFollow`** (`federation/services.py`, `federation/inbox.py`).
`follow_remote_actor` (`FollowRead`, `FollowCommit`, `FollowConflict`),
`unfollow_remote_actor` (`Unfollow`, which locks its row), `_follow_response`
(`ResponseRead`, `ResponseCommit`, `ResponseUnknown`). `fits`, chosen in the initial
state, says whether the 64 characters that `enqueue_activity` keeps of a revision reach
the uuid in an activity id: they do not when the site's origin has 49 characters or
more. No route calls follow and unfollow yet, only tests do.

**`OAuthServer`** (`web/routes/oauth_provider.py`, `auth/oauth_server.py`,
`web/routes/admin.py`). One user, one confidential client. A token request is a read
(`ExchangeRead`, `RefreshRead`) and a commit; `rowLocks`, chosen in the
initial state, says whether `FOR UPDATE` locks (server databases) or does nothing
(SQLite). With row locks the administrator's
changes wait for exchanges under way: the insert of a family takes a key-share lock
on the client row through its foreign key. **`ApiWrites`** has the writes of the
resource API with an Idempotency-Key: a call that finds no receipt is two steps, and
the unique constraint decides between it and others; keys expire, resources are
deleted, a key comes back with another body. What a comment's URL names, its post, is
part of the request (`name`) and not of what is compared with the receipt
(`SameRequest`): the handler hashes the body only.

**`Recovery`** (`auth/sessions.py`, `auth/pending.py`, `web/routes/auth.py`,
`web/routes/sso.py`). The sessions and ceremonies of one account. The logins
(`LoginBegin` to `LoginSession`, `BreakglassLogin`, `MfaWebauthn...`, `MfaTotpComplete`,
`Sso...`), the enrolments (`RegisterBegin`, `RegisterConsume`, `RegisterComplete`, and the
same for TOTP) and the recovery (`AuthenticatorReset`, `TicketRedeem`, enrolment inside
it, `CompleteRead`, `RecoveryComplete`) take one action per transaction; a request keeps
in `req` what it read before it awaited. `Guard` is the check that every request of a
session passes.

**`Credentials`** (`auth/stepup.py`, `auth/policy.py`, routes, CLI). A behaviour follows
one of three things that share no column: the credentials of an account with the
step-up grants, the roles, or the lockout counter. Handlers that take
`lock_user_for_credential_change` are one action; those that do not (break-glass
password, the commands) are a check and a write. `AuthPaths` is what
`assert_auth_path_remains` counts, `CanLogin` what the login handlers let in; they are
not the same (`NoLogin`).

**`Comments`** (`comments/service.py`, `comments/moderation.py`, routes). Submission by a
guest, an account or a remote actor, the mailed confirmation link and its
replacement, moderation, edits as revisions with or without review, appeals and
their review. Bodies are the numbers of the revisions that wrote them. What a
handler decides from a row it read without a lock is held in `flight` in between.

**`Content`** (`web/routes/admin.py`, `api.py`, `oauth_provider.py`, `core/scheduler.py`).
One post, changed by the editor's form, two APIs and every process's scheduler, and
the newest activity its followers were sent, with the keys that deduplicate
activities. The clock has seconds, because `updated_at` is part of a key.

**`Settings`** (`core/site_settings.py` and its callers). One row with its fields, a
cache per process, and requests that decide one field and write the others back as
they read them, locked or out of the cache. **`ThemeFiles`** (`themes/management.py`)
has the edits of a theme's local child, one action per file operation, with their
undoing and with a kill at any step.

**`PluginRuntime`** (`plugins/process.py`, `supervisor.py`, `control.py`, `state.py`). All of
it runs in one event loop, so an action is the code between two awaits. Callers are
the supervisor and administrators' requests; `StartChecks` to `HandshakeCloses` are a
start, the last three of them its failure (`_terminate` await by await), `AfterStart` what
`enable_plugin` does after it, which stops the plugin again when the state file cannot
be written (`EnableUndone`); `StopBegins` to `StopCloses` a stop, `ChildExits` and `WatchExit` an exit and its notice,
`SuperviseStart` and `SupervisePing` the loop of the supervisor. A channel that holds
an answer too many is `behind`. **`PluginPackage`** (`plugins/lifecycle.py`) has install,
update and uninstall rename by rename, with their undoing, a kill at any step, and
the start that verifies what it finds. What update and uninstall check before they have
the lock (`UpdateVerifies`, `UpdateCompares`, `UninstallChecks`) is not checked again under
it (`MayCommit`, `Uninstall`), and other commands may come in between. **`PluginJobs`** (`plugins/services.py`,
`jobs.py`) has the jobs of one plugin on two servers, only one of which runs it.

The `MC...` modules instantiate these for TLC; `MCQueues`, `MCFollows`,
`MCAccounts`, `MCCommunity` and `MCMaintenance` join several with `subject`, and a
behaviour is then about one of them. `MCRestore` has the plans of the restore.

## 5. Runs

Passing:

| run | instance | what it shows |
|---|---|---|
| `mail` | 1 mail, 2 workers without `flock`, 1 operator with 2 retries, 1 death; fair | `SentIsTruthful`, `DuplicateExplained`; every mail is settled |
| `queues` | push: 1 event, 1 browser, 2 workers, 3 attempts, 2 deaths; inbox: a note's Create, Update, Delete, 2 workers, 2 tries, 1 death, 1 failure; fair | `PushDuplicateExplained`, `OptOutHolds`; every push and every activity is settled |
| `fed_delivery` | 1 delivery, 2 workers, 1 administrator, 1 death, 1 moved inbox; fair | `DeliveredIsTruthful`, `DuplicateExplained`; every delivery is settled |
| `follows` | inbound: 2 Follows and their Undos, 2 workers, 1 failure, 1 lost lease; outbound: 3 Follow ids, 2 sessions, a short and a long origin | `AcceptedIsAnswered`, `UndoOwnsFollow`, `AcceptedIsOurs`, `UndoQueued` |
| `recovery` | 3 factors, 1 enrolled, 2 sessions, 2 ceremonies, 2 resets, 2 requests | `Exclusive`, `RecoveryReplaces` |
| `accounts` | credentials: 2 keys, 1 TOTP device, 1 identity, 2 grants, 2 requests; 3 users; threshold 2; OAuth: 2 codes, 2 families, 3 rotations, 1 change of the client, both kinds of database | `PathRemains`, `GrantOneShot`, `AdminRemains`, `LockoutBound`, `OneLiveRefresh`, `ReuseIsFatal`, `ChangeInvalidates`, `RevocationHolds` |
| `community` | 1 comment with 2 revisions and 3 decisions; 3 events on 2 sockets; 1 post with 3 writes; 1 key with 2 resources; 2 theme files; 3 saves; always 2 requests or processes | `RecordExplains`, `TextIsNewest`, `LogoutStopsSocket`, `FollowersTold`, `OncePerKey`, `EditIsWhole`, `DecisionsKept` |
| `maintenance` | restore: two plans of 2 and 3 paths, server database or SQLite, 3 deaths, 2 failing calls; sets: 2 sets, 2 commands, 1 upload, 1 mishap; plugins: 2 processes, 1 administrator with 2 orders beside the supervisor; 2 versions, 2 kills; 1 job, 2 servers, 2 attempts; fair | `NothingLost`; refinement of `AtomicRestore`; a restore ends or `recover` refuses for ever; `BackupConsistent`, `BackupRemains`; `ManagedProcess`, `LateAnswerHeals`, `StartsWhole`, `JobRunsExplained` |

Expected violations, each a disagreement between the code and what a comment or a
document says of it (`findings` in `PROJECT.json` quotes the line):

| run | property | what happens |
|---|---|---|
| `restore_inside` | `ServesOneInstance` | a second `recover` deletes the SQLite file that the first put back with its directory |
| `oauth_revoke_race` | `RevocationComplete` | a family inserted after the revocation is revived by the next consent |
| `oauth_scope` | `ScopesAllowed` | a consent page opened before a scope reduction still grants the old scopes |
| `follow_long_origin` | `UndoSent` | with a long origin the Undo of a second Follow is taken for the first and not queued |

The exceptions that passing properties name are reachable; they are what a
maintainer of the code should know:

- `DuplicateExplained` of the outbox, `stale`: `retry_mail` checks a snapshot and
  commits by primary key (`mail/queue.py:492`), so a RETRY mail that a worker claims
  and sends in between is queued and sent again. Two such commits leave a PENDING row
  with its attempts used up, which nobody touches again: the exception of
  `EventuallySettled`. `overlap`: without `flock` a lease of 90 seconds that runs out during
  a slow SMTP exchange puts a mail in two hands, although the comment at
  `mail/queue.py:549` calls the leases race-safe.
- `PushSettles`, `Stranded`: a worker that outlived its lease writes `retry` over a row
  whose attempts another one used up (`notifications/push.py:208`); the row is never
  claimed and never buried.
- `RestoreEndsOrRefuses`, second alternative: a process that dies in `_rollback_swaps`
  between `os.replace(rollback, target)` and the journal write
  (`backups/restore.py:2071`) leaves a journal that every later `recover` refuses with
  "Missing rollback path", although the entry is back in place. With a server database
  `recover` refuses by design once the commit has begun.
- `BackupConsistent`, `split`: an upload that was in flight when a restore switched the
  media directory ends as a row without a file, in this instance and in later sets.
- `DuplicateExplained` of the delivery queue: `run_delivery_batch` commits what
  `deliver_one` decided over a cancellation or retry made during the POST, and
  `claim_delivery` takes an expired lease without comparing `attempts` with
  `max_attempts` (`federation/services.py:507`).
- `UndoOwnsFollow` and `AcceptedIsAnswered`, `blind`: `_undo` finds the relation by the id
  of the Follow and writes it by primary key, so it may undo a newer Follow
  (`federation/inbox.py:413`).
- `AcceptedIsOurs`, `raced`: an Accept handled beside an unfollow restores the
  relation (`federation/inbox.py:263`).
- `UndoQueued` says what the code does keep for every origin: an Undo that the truncated
  revision cannot tell from the relation's own is queued. That it is the relation's own
  is `UndoSent`, which a long origin breaks (`federation/services.py:68`, the run
  `follow_long_origin`).
- `RevocationHolds`, `overtaken`: the run `oauth_revoke_race`.
- `RecoveryReplaces`, `late`: an enrolment that had consumed its ceremony when the
  administrator authorised the recovery stores its factor afterwards, and the factor
  survives.
- `PathRemains`, `stale`: the removals that do not take the user lock. `counted`: the check
  they share accepts a bare break-glass password or a lone TOTP device as what is left
  (`auth/policy.py:288`), although `breakglass_login` refuses a password alone
  (`web/routes/auth.py:2395`) and a TOTP device opens no login of its own. Checked
  removals, one after the other and without any race, can so end at an account that
  nobody can log in to, although `docs/specification.md:487` says that the last usable
  path cannot be removed. What the property keeps without this exception is that a
  path the policy counts is there.
  `AdminRemains`, `LockoutBound`, `stale`: two demotions, or two failed logins, at once.
- `TextIsNewest`: an appeal gives an older revision back over a newer one
  (`comments/moderation.py:581`); an edit published without review while an older one
  waits is overwritten when that one is approved (`comments/service.py:427`).
- `FollowersTold`, `excuses`: the administration API queues no activity at all
  (`web/routes/api.py:656`, `:724`), although `docs/activitypub.md:98` has the rows created
  with the content transaction; a form written over a change its author had not seen; a hide
  or a deletion in the name of another primary author than the one who announced the
  post; two changes within one second. A hide or a deletion by the announcing author
  has no excuse.
- `LogoutStopsSocket`: a page selected after a check that preceded the logout is sent,
  and its events may have been committed after it (`web/routes/notifications.py:557`,
  `:572`). It is one page and no more.
- `OncePerKey` says that an answer names a resource made from the same bytes, not for the
  same post: `oauth_comment_create` hashes the body only (`web/routes/oauth_provider.py:1028`;
  the update of a post hashes the slug too, `:893`), so a key used again on the URL of
  another post with an equal body is answered 200 with the comment on the first post,
  and the second comment is not made.
- `DecisionsKept`, `forgiven`: a request that reads a section without its lock, out of
  the cache or in the midst of another request.
- `EditIsWhole`: two server processes that edit a theme at once; the kill of a reset
  that is being undone.
- `ManagedProcess`, `overlapped`: a plugin disabled while it starts keeps a child nobody
  manages. `StartsWhole`, `cut`: windows in which a kill leaves a mixture that no record
  contradicts (`Unseen`). The new package is in place, the command is not done, and the
  record is missing, is of the same version (a second command whose checks were made
  before the first had the lock), or is already the new one while the command is
  undoing. `JobRunsExplained`, `excused`: leases that run out; the loop of a
  server ends for good when `finish_job` raises (`plugins/jobs.py:53`).

Seen on the way and part of the models: `post_new_save` looks for the values of its
form among the names of the enumeration, so that a new post is always a public
draft; a second Update of a remote note while the first waits for review is rejected
for good; a child that crashes after a successful start is restarted without limit,
since only failed starts are counted (`plugins/supervisor.py`).

Bounds. Two workers (requests, sessions, processes) are what an overlap takes; a third
would repeat the role of one of them, since a row is held by one and overtaken by
another. Two attempts are a first and a last one, with an exhausted row after it;
`PushAttempts = 3` is what a stranded row takes. Two deaths allow a death during
recovery, a third one during the recovery after it. Two Follows (three outbound:
before, during and after) let an old activity meet a new relation. Two families and
two codes let one survive what kills the other; three pairs of tokens are what two
rotations of one refresh token take. One change of the client separates before and
after. Two resets let a recovery be superseded. Three decisions are a decision, its
reversal and one in between; three writes of a post are its announcement, a change
and the change that raced it; two processes of a plugin are one and its replacement,
which is what a start that overlaps a stop, or a late exit notice, confuses; two
versions are an old one and a new one, and a second command for the new one. `follow_long_origin`
has just what its trace takes. Symmetry is used where the elements of a set are
interchangeable, and in no run with a liveness property.

Fairness. The worker loops poll until they are told to stop, and every SMTP exchange,
HTTP request and push has a timeout, so a step of a live worker is weakly fair; clocks
advance, so leases and back-offs run out (weakly fair). For plugins the event
loop goes on with every caller, notices every exit and runs the supervisor, and
a command that holds the lifecycle lock ends. Operators, administrators, remote actors,
failures and deaths are not fair; a dead worker's place is taken by the next one the
process manager starts. For the restore, a running process goes on and the operator
runs `restore recover` while the marker files are there, as
`docs/production-operations.md` tells him to. A handler that fails or dies without end
settles nothing: the bounds on deaths and failures are part of these results.

## 6. Proofs

Eight modules prove, for all sets of mails, workers, requests, users, plans and all
values of the bounds, what the runs check on small ones: every safety invariant and
every action property of a passing run, and that the restore implements
`AtomicRestore`. Each proves an inductive invariant that TLC checked first, and one
lemma per action; `PROJECT.json` lists the theorems under `theorems`.

Assumed is only what the modules name with ASSUME: limits and bounds are natural
numbers (the lockout threshold, the limit of factors and the page of the live socket
positive), switches are Boolean, the names for "nobody" are nobody's, a plan has
the shape that `plan_restore` gives it, the workers of the push queue are finitely
many. The theorems about the restore have a hypothesis of their own, `Beside`,
explained below.

**`MailOutboxProofs`.** `TypeCorrect` is inductive as it stands (lemmas `RequeuedRow`, `ChangedRow`,
`FinalizedRow` and `RowOperations` type the row operators). `SingleSender` needs
`LockExclusive`: with `flock` at most one worker is inside `process_queue`, hence
no lease is ever overtaken. `ClaimHeld` needs `OwnerMeansLeased`: finalization tests
the owner and not the status, and is right because only a leased row has an owner.
`SentIsTruthful` needs `AcceptedIsRecorded`: a worker about to write SENT has seen
the acceptance. `DuplicateExplained` needs `AcceptedOnce`: while nothing irregular
has happened to a mail it was accepted at most once, and either its row says SENT
or one worker is about to say so; that the worker then still owns the row is
`ClaimHeld`. `FinalStates` follows from `ClaimHeld` and `OwnerMeansLeased`: a worker
that writes a row holds it leased, so the row was neither SENT nor CANCELLED.

**`FederationDeliveryProofs`.** The same argument for a queue that commits by primary
key. Besides the types the invariant has that what a worker is about to record as
delivered was accepted (`AcceptedIsRecorded`), that one worker at most is past the
claim of a delivery and finds it as it claimed it, or cancelled, unless a takeover or
an unlocked request hit it (`ClaimHeld`), and that an undisputed acceptance happened
once and its row or its worker says so (`AcceptedOnce`).

**`QueuesProofs`.** Inbox: what a handler found is a row of the kind it asks for, and a relation
that it found is there for good (`FoundRow`); it works on an activity that was stored
(`TaskStored`); with these the two properties are inductive. Push: a row belongs to
the worker that claimed it (`LeaseHeld`) until its lease runs out, which is noted
(`LapseNoted`); while nothing is noted a push that the service took is marked sent, or
its worker died before it could (`TakenOnce`).
`OptOutHolds` counts: `GraceCovers` says that after an opt-out the pushes a worker
already carries are at most those still allowed, by cardinalities of finite sets.

**`OutboundFollowProofs`.** The invariant `IInv` adds to the types what each session holds
(`SessionOK`: the row it read, and an answer to the very Follow of that row), that
the relation records a Follow that was queued (`RelationQueued`, so a fresh id
differs from it), and that a revision in use belongs to a queued Undo
(`RevisionsQueued`, for long and for short origins). `AcceptedIsOurs`, `UndoQueued`
and `AnswerStays` follow without a hypothesis. `OnlyTruncationDropsUndo` says that
nothing but the truncation loses an Undo: where it does not bite (`fits`), `UndoSent`
holds.

**`AccountProofs`.**
- OAuth server (`OAuthInv`). A family has one refresh token in use because the live
  one is always the last one issued (`LiveIsLast`) and what a rotation in flight holds
  was issued (`RefreshIssued`); two exchanges that are past their lock work on different
  codes (`ExchangeApart`). Reuse, withdrawal and a change of the client are final
  because each leaves a mark on the tokens that nothing takes away (`ReusedRevoked`,
  `DoomedRevoked`, `EpochCurrent`).
- Credentials (`CredentialsInv`). No other step closes a path that the policy counts or
  the way through the login handlers (`PathKept`). A removal in flight has checked what would remain
  (`RemovalChecked`), a demotion has seen another administrator (`OtherAdminSeen`), a use
  belongs to a grant that was issued (`UsesOfGrants`), and the counter of wrong logins
  counts them (`CounterCounts`) while no two requests overlapped on it.
- Recovery (`RecoveryInv`). At most one recovery stands (`OneRecovery`); while one does
  there is no normal session; a request in flight still fits the rows (`Fits`): none goes
  on with an enrolment outside the session of the recovery, an enrolment that was
  overtaken knows that it is late, and the request that completes the recovery holds
  the factors the recovery began with. `RecoveryReplaces` is then a property of the
  one step that completes: the usable factors were the old ones or late (`BaseCovers`).

**`CommunityProofs`.**
- Writes with a key (`ApiInv`): the receipt names the one thing made with the key since
  the last expiry (`ReceiptNames`), two things made with it that both exist were made
  before and after an expiry (`LivingDiffer`), an answer names what was made of the
  request's type and from its bytes (`RepliesName`).
- Live socket (`LiveInv`): what was committed after the end of the session and is in a
  page or was sent is at most one page, by cardinality; between the check of a round
  and its SELECT none of it has been sent, because a check that passes says that the
  session had not ended.
- Content (`ContentInv`): a copy that a request read holds unless the post changed since
  (`CopyHolds`), and a key that was used belongs to a revision that was made
  (`RevisionKeys`), so a new activity is never taken for an old one without an excuse.
- Settings (`SettingsInv`): a copy of the row lacks only what it is known to have missed
  (`CopiesHold`), and under the lock of a section it lacks nothing (`LockHolds`).
- Themes (`ThemeInv`): while nobody overlaps only one edit is under way, and at each of
  its steps the files are what it has done so far: before the declaration the
  manifest on disk is the one it remembers, and what it remembers is a theme that
  validates and the one readers have, so that undoing it restores that theme.
- Comments (`CommentsInv`): the status is the outcome of the decision with the greatest
  number, which the invariant names by a witness; a request in flight carries an
  outcome that the status it saw allows (`Carries`); what was stored after an edit that
  waits was published without review (`PendingLast`).

**`PluginProofs`.**
- Jobs (`JobsInv`): a job without excuse has one worker at most and is running while it
  has one (`JobHeld`), and every lapse of a lease is an excuse (`LapseExcused`), so that it
  is done at most once (`DoneOnce`); what succeeded was done (`SuccessDone`).
- Packages (`PackageInv`): until a kill hits a window of `Unseen` the trees, the record and
  the rollback copies are where the order of the renames puts them, starting from trees
  that verify, or that a kill left damaged in a way the record shows (`Began`,
  `SwitchedFrom`, one clause for each place of the command).
- Processes (`RuntimeInv`): one caller at a time is inside a start (`OneStarter`, which is
  `_start_lock`) and what the others do fits where they stand (`PlacesFit`), so only the
  child that is entered lives unless a start overlapped a stop (`LivingManaged`); while
  the plugin is disabled the only starts are those that will enable it
  (`DisabledQuiet`).

**`RestoreProofs`.** `RestoreInv` says what the journal tells of the disk: which entries are
untouched, replaced or back (`ApplyStands`, `UndoStands`), that from an incomplete journal
the old instance can be put back and a complete one means the new is in place
(`JournalsTell`), and how far the journal on disk may lag behind the one in memory
(`DiskFollows`). With it each step is shown to map to a step of `AtomicRestore` or to a
stutter. The hypothesis `Beside` says that no plan moves a directory which holds the
database file. It cannot be dropped: without it the run `restore_inside` violates
`ServesOneInstance`, and `NothingLost` fails in the same way. `BackupInv` says for
each command what it relies on while it holds the instance lock (`Relies`, `LockHeld`):
the rows it exported have their files until they are copied, and a plan to prune
spares a set that verifies and every pinned one; and that the instance and every
finished set have the files of their rows (`RowsHaveFiles`).
`BackupRemains` is then a property of each step that removes a set.

Only model-checked. The liveness properties `EventuallySettled` (outbox and
deliveries), `PushSettles`, `IntakeSettles`, `LateAnswerHeals` and
`RestoreEndsOrRefuses` rest on fairness, that is on ENABLED, which the prover does not
treat. The four expected violations are counterexamples. `SingleSender`, `ClaimHeld`,
`FinalStates`, `AnswerStays` and the type invariants are proved and no longer part of a
run. No module uses a RECURSIVE operator; functions that look for a greatest or
lowest number are reasoned about with the well-foundedness of the natural numbers.

## 7. What is not modelled

Listed part by part in `PROJECT.json` with the reason. In short: formats, parsing,
cryptography, rendering and page handling are input and output; the caches of rendered
pages and of search only delay what is seen, within a lifetime; the migration lock is
a lock around schema scripts. Inside the modelled parts: concurrent inserts with one
idempotency key (mail), archive checks and unsynced directory entries after a power
failure (restore, where only the death of the process is modelled), clean-up of
transport metadata (delivery), ignored activity types (inbox), expiry of tokens,
deactivation of users and signing keys (OAuth), registration of accounts (recovery),
votes and reports (comments), the key-value store (plugins), and the security form,
which writes its whole section (settings).

Known risks that no property watches: `rotate_refresh` and `revoke_grant` lock in
opposite orders (`auth/oauth_server.py:390`), which the database resolves by aborting
one; `set_enabled` (`plugins/state.py:33`) may lose the entry of another plugin when the
command line and the server write at once; two hosts that start with migrations
pending (`core/migrations.py:101`); the first level of the cache, refilled with an old
value by a slow reader (`core/cache.py:488`); an event of the live channel whose
transaction commits behind the cursor (`web/routes/notifications.py:577`), which the
inbox page still shows; a media file whose row was never committed.
