# TLA+ models of the FreshGuard online main server

The online main server (OMS) is one Python process: a FastAPI application, three
background tasks and one SQLite database. Shops run *devices* with a
*connector*, which keeps a websocket open to the server, uploads scan results
and answers commands. Users talk to the server through a Telegram bot service
(*tgbot*), which calls the `/bot/v1` API and receives pushed notifications.
Administrators use a web interface.

The modules here model the parts of the server where order, failure and
concurrency matter; TLC checks them on small instances, and TLAPS proves the
main safety properties for all values of the constants. Paths below are
relative to the repository.

## 1. Inventory

| Part | State it keeps | Operations | Interacts with |
|---|---|---|---|
| **Notification delivery worker** `app/notification_delivery_worker.py` | `notification_deliveries.status`, `failure_reason` (disk); attempt counters, the batch in flight (memory) | claim a batch, push it to tgbot, reconcile the answer or the failure, clean up at startup | rows made by events; tgbot over HTTP |
| **Notification events** `app/notifications.py` | `notification_events`, `notification_deliveries` | create an event with a delivery per eligible recipient, dedup window for defects | called by `/update` and the status monitor; read by the worker |
| **Recipients and preferences** `app/notifications.py:168-382`, `app/api/bot.py:308-530` | `notification_preferences` | who is eligible for an event; a user's settings, per store | reads memberships and bans of Access |
| **Notification status monitor** `app/notification_status_monitor.py` | `device_notification_state` (disk); start of the grace period (memory) | one iteration: read all devices, decide, commit events and records | reads presence written by the link |
| **Realtime link** `app/realtime.py`, `app/api/connector.py:56-139` | `_connections` (device to websocket), `_pending` (request to future), the websockets' own states; `devices.last_seen_at` | connect, receive loop, disconnect; send a command, resolve an answer | connectors; command handlers |
| **Device commands** `app/api/bot.py:1786-2143` | `device_commands` | submit, show the status | realtime link |
| **Defect ingestion** `app/api/update.py` | `scan_results` | upload a scan (once per device and image) | creates defect events |
| **Access** `app/api/bot.py`, `app/admin_ops.py`, `app/user_context.py`, `app/staff_invite_policy.py` | users, bans, stores, memberships, staff invites, each user's active store and device | session, invite, redeem, choose store or device, revoke; the administrator's create, ban, grant, revoke, decommission | decides who may command what and who is notified |
| **Connector registration** `app/api/connector.py:142-250` | enroll tokens, devices, device tokens | register with a token of limited use | Access creates and revokes the tokens |
| **Blobs and images** `app/api/connector.py:253-329`, `app/blob_cleanup.py`, `app/notification_images.py` | `blobs`, the files of the storage directory, `annotated_image_cache` | upload, serve; the cleanup thread; fetch an annotated image through the device | commands (a device uploads what a command asked for), realtime link |
| **Administrator login** `app/admin_telegram_auth.py`, `app/admin_session.py`, `app/admin_auth.py`, `app/admin_authorization.py`, `app/roles.py` | login challenges, sessions, role registry | start, claim, complete, consume; resolve the actor of a request | web interface |
| **Administrator pages** `app/admin_ui.py`, `app/admin_i18n.py`, `app/api/admin.py` | none | forms and routes over `admin_ops` | |
| **Database schema** `app/db.py` | the tables and columns, in the version of whichever server wrote the file | create, rebuild, add and fill columns at every start | before everything else |
| **Startup and shutdown** `app/main.py` | the tasks | run the migration, the cleanup, the monitor and the worker | all |
| **Configuration, models, hashing** `app/config.py`, `app/models.py`, `app/security.py` | settings | parsing, hashing | all |

### What is hard here

* **Two stores with different lives.** Rows survive a restart; attempt
  counters, pending futures, registered sockets and the grace period do not.
  Each of the worker, the link and the monitor has to be right across a stop
  at any point.
* **Acting on the outside before recording it.** The worker pushes and then
  reconciles; a command is sent and then its row is written. Timeouts say
  nothing about what the other side did.
* **The event loop.** The critical sections of `realtime.py` never suspend, so
  they are atomic; but `connect` awaits the closing of the socket it replaces,
  the handler awaits a presence write, and `wait_for` races the answer with
  its timer.
* **SQLite transactions.** Writers are serialised (`BEGIN IMMEDIATE`), a busy
  database raises after ten seconds, and whatever an operation did before it
  raised is rolled back.
* **Scripts that commit as they go.** `executescript` commits each statement, so
  a migration is a row of transactions, and its process may end between any two.
* **Two stores for one thing.** A blob is a file and a row, written and removed in
  separate steps by threads that do not exclude one another.
* **Times as strings.** Timestamps are compared as ISO strings with whatever
  offset and precision they were written.

### What makes each part correct

* Worker: a settled delivery never moves again; "sent" is true; a user is shown
  a notification a bounded number of times; retries are neither cut short nor
  endless; every delivery settles unless a transaction failed.
* Link: what is registered is served and what is served is registered, however
  reconnections race; each answer reaches its own request or nobody, and becomes
  its result if the timer has not fired; no request waits for ever or leaves its
  future behind; an answer never costs a connector its connection.
* Commands: a row says "succeeded" only of a command its device answered;
  a final status stays; every row becomes final unless its own write failed, its
  answer could not be stored or the process stopped.
* Monitor: subscribers are told of an outage once, and of a return only if they
  were not told last that the device is there, whatever restarts and failures
  intervene; a lasting change is noticed.
* Ingestion: an image counts once however often it is sent; every defect stored
  with notifications enabled is announced, or covered by an announcement of its fruit
  and device that is not a window older (but may be of any later time); no two
  announcements within a window, by the clocks that are compared.
* Access: a code names one invite, and invites and tokens let in as many as they
  say; the active store and device of a user are never ones the user lost;
  memberships change only by an authority that is held at that moment; a request
  reaches only the stores its sender administered; nobody rises above the rank
  that was given from above.
* Recipients: of a new event are told exactly those who may be told and have not
  turned it off, whatever happened to roles, memberships and settings before.
* Blobs: a file goes only when its time is over; an expired row goes in the end;
  a file nobody lists comes of a fault; the cache names only what can be served.
* Schema: no row is destroyed; the server comes up and serves every row,
  unless a start ended in one of three known windows.
* Login: a challenge logs in one account, once.

## 2. Modules

| Module | Models | Of |
|---|---|---|
| `NotificationDelivery` | worker and tgbot's push endpoint | `notification_delivery_worker.py`, `notifications.py` |
| `DeliveryPromise` | what the outbox promises about one delivery (abstract) | the statuses of `notification_deliveries` |
| `ConnectorLink` | connection manager, websocket handlers, command broker | `realtime.py`, `api/connector.py` |
| `DeviceCommand` | command rows; extends `ConnectorLink` | `api/bot.py` |
| `RequestPromise` | what a request to a device promises (abstract); a call of the broker implements it, and so does a row | the results of `send_command`, the statuses of `device_commands` |
| `StatusMonitor` | monitor and presence | `notification_status_monitor.py`, `device_status.py` |
| `PresenceNews` | what the subscribers of a device are promised (abstract) | the events of `notification_events` |
| `DefectIngest` | `/update` and the dedup window | `api/update.py`, `notifications.py` |
| `Recipients` | memberships, bans and preferences, as far as they decide who is told | `notifications.py`, `api/bot.py` |
| `DefectAlerts` | uploads with the deliveries of their events; extends `DefectIngest` and `Recipients` | `api/update.py`, `notifications.py` |
| `BlobStore` | files and rows of blobs: uploads, the cleanup thread, readers | `api/connector.py`, `blob_cleanup.py`, `api/admin.py` |
| `ResultImages` | annotated images and their cache; extends `BlobStore` | `notification_images.py`, `api/bot.py` |
| `SchemaMigration` | `init_db` at the granularity of its commits | `db.py` |
| `Access` | users, bans, stores, memberships, contexts, devices in service | `api/bot.py`, `admin_ops.py`, `user_context.py`, `admin_authorization.py` |
| `AccessCodes` | staff invites and enroll tokens; extends `Access` | `staff_invite_policy.py`, `admin_ops.py`, `api/bot.py`, `api/connector.py` |
| `LimitedUse` | what an invite, an enroll token or a login challenge promises (abstract) | `used_count`, `uses`, `max_uses`, `used_at`, `revoked_at`, `expires_at` |
| `AdminLogin` | login challenges, completion tokens, browser sessions | `admin_telegram_auth.py`, `admin_session.py`, `admin_ui.py` |

`MC<Module>` gives a module its model values, offsets and symmetry; each
`*.cfg` is one run of it; `<Module>_proofs` holds its theorems, and those of the
modules it extends. A *faulty
variant* of a definition stands just before it: it is the bug that the
properties have to notice, and no specification uses it.

### How state and actions correspond to the code

**NotificationDelivery.** `status` and `reason` are the columns; deliveries are
numbered in creation order, so "oldest first" is "smallest first". `Claim` is
the committed claiming transaction; while `phase = "pushing"` the HTTP request
is in flight and tgbot handles deliveries one by one (`TgbotHandles`). The push
ends in `PushAnswered` (any subset handled, the rest becomes `internal_error`,
unknown reasons are normalised), `PushRaises` (one temporary reason for the
whole batch), `ReconcileFails` (the answer came or the push raised, but the
reconciling transaction did not commit; counters in memory may have moved) or
`Crash`. What an abandoned push left undone tgbot may still do
(`TgbotHandlesLate`). `Startup` is the cleanup that fails every open row;
`StartupWithoutCleanup` is the cleanup that swallowed its own error.
`pushes`, `shown` and `skipped` are history.

**ConnectorLink.** One step is what runs between two suspensions. `Connect`
registers, then closes the predecessor, which raises if a failed send has
already marked that socket (`CloseRaises`, Starlette) and may raise when its
handler is dead (`CloseMayRaise`, the websocket server). `OldClosed`, `Accept`
and `HandlerDies` are the rest of the way to the receive loop; `ReceiveEnds`,
`ReceiveFails` (a message that is not JSON), `ReceiveAnswer`, `ReceiveOther`,
`Resolve`, `RecordFails` are the loop and its `finally` (`Leave`). A "serving"
handler is blocked in `receive_json`; one that was superseded while blocked may still
take a message, and leaves at the next `receive_json`.
`Dispatch`/`NotConnected`, `Sent`/`SendRaises`,
`TimerFires` and `Returns` are `send_command`; `TimerFires` may come after the
future was resolved and before the coroutine wakes, and `asyncio.wait_for` of
Python 3.12 (the Dockerfile's) then drops the result. `client` and `app` are
Starlette's two connection states. A socket whose handler died before its `try`
stays registered; that is what the code does. `Calls` is the broker as a
`RequestPromise`: `Stand` forgets where in the call a request is, and `Replied`
are the calls that the device they were sent to has answered.

**DeviceCommand.** Adds the row of each command and the writes of the handler
around the steps of the link. The handler blocks on SQL, so insert, mark and
send are one step (`Submit`), and so are the end of the call and the last
UPDATE (`Finishes`); what can come between is a failed write (`Write`,
`MarkSentFails`), an answer that cannot be stored (`RefusesAnswer`) or the end of the
process (`CrashInSubmit`). `obstacle` is history: which of them it was. `Rows` is a second `RequestPromise`, of what users are shown:
"queued" and "sent" are open, and "succeeded" is the success. Whose commands are
allowed is left out (section 6).

**StatusMonitor.** `Poll` reads, `Commit` decides and commits, with heartbeats,
ticks and stops in between; `RollBack` is an iteration that raised. `Recorded`
and `Announced` are the branches of the loop body. `told` holds the events of the
last commit until the next iteration begins, `news` the last event of each device,
and `fresh` whether a device was seen since what its last outage was found from:
with them the monitor is a `PresenceNews` (`Subscribers`).

**DefectIngest.** One action, the upload's transaction, and its variant with
`notifications_enabled` off (`IngestQuietly`; `quiet` is history). A scan has a time, the
sender's UTC offset and its fruits with defects; `StringNotBefore` is what the
comparison of the two printed timestamps comes to. Times are in half seconds so
that fractions matter. An event has the time it occurred (`at`) and what its sender
had on its clock (`wall`); the code compares the one with the other, so what it
keeps for every sender is `ClocksApart`. `OnePerWindow`, about times alone, is what
a test expects (section 4) and follows only for senders in UTC.

**Recipients.** `role` is the unrevoked membership (Access proves there is one
at most), `prefs` a row of `notification_preferences` or none. `Eligible` is the
chain of `continue`s in `resolve_eligible_recipients`; `Merged` is the merge of a
partial update over what is stored or the defaults; `MayUpdate` holds the checks
of the settings endpoint, which the older endpoint makes for the store that is
active for the user. Access's operations appear by their effect, at any moment
(`ChangeRole`, `Ban`, `Unban`, `ToggleStore`), which covers every order Access
allows and more. `off` is history: the toggles a user has last turned off.
`Willing` is stated by it and not by `prefs`, so that a merge that forgets shows.
Provider ids (one Telegram identity per user) and the wording of a notification
are left out.

**DefectAlerts.** `Upload` is the whole transaction: the scan, its events
(`DefectIngest`) and a delivery for each recipient of each (`told`); `UploadQuietly`
makes neither. What becomes of
a delivery is `NotificationDelivery`; the status monitor's events take the same
way (`create_event_with_deliveries`) and are not composed again.

**BlobStore.** `files` and `rows` are what is on disk and in the table. An upload is
`WriteFile` and `InsertRow`, or a file cut short (`WriteFails`), or a refused row,
upon which it removes its file (`InsertFails`). The cleanup thread is `SelectExpired`,
an `Unlink` or `UnlinkFails` per file, and one `DELETE` for all (`DeleteRows`), which
raises at a fault or when it has more variables than SQLite allows (`TooMany`);
`DeleteFails` is the exception the loop swallows. A reader finds row and file
(`Find`) and opens the file later, when `FileResponse` is sent (`Respond`). `left` is
history: files a fault left without a row.

**ResultImages.** A tap is a `Hit`, or a `Miss` that deletes a stale entry, asks the
device and suspends; the answer is `Render` (new file, row and entry),
`RenderRollsBack` (the file stays, the rows do not) or `Unavailable`. Between
two suspensions a tap is atomic for other taps, but not for the cleanup thread; the
code looks at a file after its row within one such step, and the model takes the
two looks together: a file that goes between them is one that goes right after.
The checks of `bot.py:2084-2130` before a tap are taken as passed.

**SchemaMigration.** One step per commit. `shape` says whether a table is missing, of
the old version or new; `made` and `copy` are its `_v2` and what is in it. `Make`,
`Fill`, `Drop` and `Rename` are the statements of the two rebuild scripts, each its
own transaction; `Fill` that meets a key already copied raises (`"refused"`).
`AddColumn` commits at once, while `Backfill` and `FillNames` are one
transaction that the next script or the end of `init_db` commits: `filled` is what the
connection sees and `saved` what survives. `Kill` is the end of the process or a
statement that raises. `Insert` and `Heartbeat` are the server at work between
two starts. `stored`, `cutAt` and `cutColumn` are history; a window is
entered in `cutAt` only if there are rows it can harm (`WindowOf`), so that
`OnlyWindowsHarm` says exactly when rows are out of service: at `"up"`, rows of a
table are missing if and only if a start ended between its `DROP` and its `RENAME`.

**Access.** One action per operation of the bot's API and of the administrator,
each of which is one SQLite transaction. `role` holds the unrevoked membership
rows, of which an index allows one per user and store. `activeStore` tells a
context row without a store (`NoStore`) from no row at all (`NoRow`), because
`Grant` does. `EffectiveStore` and `EffectiveDevice` are
`resolve_effective_user_context`; `DropMembership` is
`normalize_user_context_after_membership_change`, except that the code takes the
user's oldest usable store and the model any (`Usable`). The request of a member
who administers has two steps, because its roles are read when it is
authenticated (`Authenticate`, kept in `scope`) and its operation comes later
(an `ActorStep` that starts with `Passes`, or `Refuse`); requests of the
bootstrap administrator, whose authority cannot change, have one. `Grant` and
`Revoke` ask again within the transaction (`Outranks`); the other operations do
not, in the code or in the model; `StoresAreApart` and, of invites and tokens,
`PassesAreApart` say what they are held to nevertheless. Of the permissions of
`config/roles.json` the model keeps that the same roles (`AdminRoles`) may administer, manage roles and
invite, and that every role may choose a store and a device. The fallback of
the command handler that repairs a context and raises (`no_active_store`) is
rolled back and so is no step.

**AccessCodes.** Invites and tokens share `issued`, `ended` (revoked or past
`expires_at`; which of the two no guard tells apart), `limit` and `used`. Time
is `Expire`, at any moment. A code is a member of a small set, so that codes
collide; `Free` is the collision test of `generate_unique_staff_invite_code` and
`Names` the query that finds the newest invite of a code. `Redeem` and
`Register` are composed of an action of `Access` and the count of the use;
`entered` is history.

**AdminLogin.** `admins` is what `_resolve_linked_admin_user` would accept: it
changes at any moment (`AuthorityChanges`), which stands for every operation of
Access. A claim is `CheckClaim` (the reads before `BEGIN IMMEDIATE`) and
`FinishClaim` (the transaction, in which the UNIQUE column `challenge_id` refuses
a second token). A token is named by its challenge and the user it was given
to. `Consume` is one transaction; its answer, which sets the cookie, may be
lost. The challenge's own expiry is not asked for any more once it is claimed.
`Given(c)` are the users who hold a link of a challenge: `SessionIsEarned` asks that
of a challenge that logged somebody in there is one, however claims raced.

## 3. Runs

| Run | Asks | Instance |
|---|---|---|
| `NotificationDelivery_worker` | bounded retries, truthful final outcomes, refinement of `DeliveryPromise`, only a startup frees a stranded row; every delivery settles, or a failed transaction stranded it | 2 deliveries, batches of 1, 2 attempts, 2 stops, 2 failing transactions |
| `DeviceCommand_rows` | registered is served, served is registered; the broker leaks nothing, an answer in hand before the timer fires is set and kept, and none harms anybody; only the obstacles named leave a row open; refinement of `RequestPromise` by calls and by rows | 2 commands, 2 sockets of a device, 1 failing row write, 1 failing presence write, 1 stop |
| `DeviceCommand_finish` | every call returns, every superseded handler leaves, every row becomes final or meets an obstacle | 1 command, 2 sockets, one failing write of each kind, 1 stop |
| `StatusMonitor_announcements` | refinement of `PresenceNews`; lasting changes are recorded | 2 devices (one without a store), threshold 1, grace 2, 2 restarts, 1 rollback |
| `DefectAlerts_uploads` | nothing lost that was stored with notifications enabled, nothing announced twice in a window of the clocks, resends harmless; who is told | 2 images, 2 fruits, 2 defects per scan, times 0..3, window 2, senders in UTC and two seconds west; 1 user, 2 roles, 1 store |
| `Access_authority` | contexts name nothing their user lost; memberships change by current authority; requests reach only the stores they came for | 2 users and the bootstrap administrator, 2 stores, 1 device, 2 ranks of roles |
| `AccessCodes_use` | codes are unambiguous; refinement of `LimitedUse` | 2 users, 1 store, 2 devices, 2 invites, 1 code, 1 token, limits none and 1 |
| `AdminLogin_sessions` | sessions belong to who opened the own link, once per challenge, by current authority; refinement of `LimitedUse` | 2 users, 2 browsers, 2 challenges |
| `ResultImages_store` | only expiry loses a file, orphans come of faults, the cache names nothing lost, expired rows go | 3 blobs, 2 readers, 1 result, 2 faults, statements of at most 2 variables |
| `SchemaMigration_starts` | no row destroyed, harm only of three windows, the server comes up | 2 rows per table, 1 device, 1 store, databases of every version, 3 starts or servers cut short |
| `ConnectorLink_lockout` | *violated*: a valid reconnection is served | 1 device, 3 sockets |
| `DefectIngest_offsets` | *violated*: the window holds for senders with an offset | 1 device, 2 images |

Every property of a passing run is broken by a faulty variant of the code
(listed in `PROJECT.json`), so each does distinguish this code from a plausible
worse one.

### Why the bounds are enough

* Two deliveries with a batch limit of one make a row wait behind another one's
  retries. Two attempts are the least at which a first failure requeues and a
  second does not. Two stops allow a crash in the retry after a crash; two
  failing transactions allow a failed reconciliation followed by a failed
  cleanup, the only way to exceed the plain bound on messages.
* Two commands on two sockets give crosswise, late and repeated answers, and a
  socket that is replaced while it is still half open. Further sockets and
  devices are left to the proofs.
* Ages beyond the threshold are alike, so `age` is capped just above it. Grace 2
  is longer than the threshold, so that an outage can begin and end within it.
* Two images arrive in either order, with one fruit in both; by the clocks of two
  senders, times 0..3 (in half seconds) with a window of two seconds and an offset
  of two seconds reach less than a window, one half second less, exactly one and more.
  An event between two others, longer times, and more users and stores are left to the
  proofs. A user has a role that permits the event, one that does not, or none. The run
  is reduced by the symmetry of images and of fruits, which nothing orders.
* Three blobs are a raw image, its annotated one and another, and one more than
  a statement may name, so that the limit is met. (The limit of SQLite is 32766
  variables by default and 250000 in some builds; what counts here is that there
  is one.) Two readers wait for one image. Two faults allow a rolled back
  render and then a crash.
* Three ends of a process reach a second interrupted rebuild over the remains
  of a first, and one of each table; two rows tell a partial copy from a whole one.
* Two users, one the administrator of the other or both of each other's store;
  two stores, so that losing one can fall back to the other. Two ranks are
  enough to outrank and to be outranked. Two invites of a single code always
  collide; two devices compete for the one use of a token, two users for the
  one use of an invite. `MaxEntries` caps the uses of an invite without limit.
* Two users race for one challenge while the other is claimed or completed, and
  two browsers open the links of either.

What the bounds cut off is covered by the proofs for the safety properties
listed below, which hold for any bounds; type invariants are proved, so the runs do
not check them. `CHECK_DEADLOCK FALSE` is used where the bounded environment (all
sockets opened, all crashes used, all images uploaded) really may stop; the
worker's and the monitor's models never do where it is left on.

### Fairness

* Worker: `run_forever` polls again after any exception, the HTTP client has
  timeouts, and the process is restarted. Nothing is assumed of tgbot: it need
  never answer.
* Link: the loop runs what is ready; a closing handshake and a send are bounded
  by the websocket server, a wait by its timer. Connectors need not answer,
  reconnect or close; no fairness is put on `ReceiveOther` and `ReceiveFails`, so
  heartbeats and malformed messages are no one's duty.
* Monitor: time passes, the loop goes on after an iteration that failed, and the
  process is restarted. A transaction fails finitely often: a device whose rows
  can never be written would block the announcements of all, for ever, because
  an iteration is one transaction.
* Blobs: `run_blob_cleanup_loop` catches every exception and goes on, and the
  process is restarted; one weak fairness condition is put on the thread's steps as
  a whole (`CleanupProgress`). Nothing is assumed of uploads, taps or devices.
* Schema: a start goes on until it is served or cut short, and whoever runs
  the server starts it again, also after a refusal (`WF(StartStep)`).

## 4. Findings

1. **A reconnection can be locked out** (`ConnectorLink_lockout`).
   `ConnectionManager.connect` registers the new socket and only then closes the
   old one. When a command's failed send has already marked the old socket
   disconnected, that close raises `RuntimeError`, before the handler's `try`:
   the new handler dies and its socket stays registered. It then is replaced by
   the next reconnection.
2. **The dedup window is shifted by the sender's UTC offset**
   (`DefectIngest_offsets`).

### Migrations that are cut short

README.md:161 says that migrations "run automatically on startup".
`SchemaMigration` shows three windows in which the end of the process does harm
that no later start repairs; `OnlyWindowsHarm` and `ComesUp` show that there
are no others.

* After the `INSERT` and before the `DROP` of a rebuild: the next start finds the
  `_v2` table there and filled, its `INSERT` breaks the primary key, and every
  start from then on is refused.
* After the `DROP` and before the `RENAME`: the next start creates an empty
  table, sees nothing to rebuild, and serves without the old rows, which stay in
  the `_v2` table.
* After `ALTER TABLE ... ADD COLUMN last_seen_at` and before the next commit: the
  column is there, so no start fills it from `last_seen_ts` any more.

All are narrow, and none destroys a row (`RowsSurvive`).

### Also seen

Part of the models, too: a connector that falls
silent keeps its connection, as `WS_HEARTBEAT_TIMEOUT_SECONDS` is documented
and read but used nowhere; a command that timed out is "running" for ever,
because a late answer finds no waiter; an administrator's request in flight may
still create an invite or a token after its sender was banned or lost the role;
a row whose reconciliation failed stays "sending" until the next restart, which
fails it although its user may have seen it; a push whose answer was lost is
repeated; rows of commands cut short by a crash stay open for ever; a later
defect suppresses an earlier one that is uploaded after it; the string
comparison can shorten the dedup window by a fraction of a second; members of a
closed store are still notified but cannot change their settings; when more
blobs expire at once than a statement may name, the cleanup removes their files
but never a row again; a partly written or rolled back file is never
removed; two taps at once each fetch the image and each store a blob; and a tap
is not checked again after its wait for the device, nor is it asked whether the
blob the device names is one of that device. An answer whose status is a truthy
non-string (`200`, `true`) raises in `.strip()` (`bot.py:745`, called at 1927 outside any
`try`): the request ends in a 500 and its row stays "sent" for ever, as it does when the
answer names a blob that does not exist. An answer that is set in the same turn of the
loop as its timer fires is dropped: the call times out and its row is "running".

## 5. Proofs

All are of the form `Spec => []Inv` or `Spec => [][A]_vars`, for any values of
the constants that satisfy the named assumptions (`DeliveryAssumption`,
`LinkAssumption`, `CommandAssumption`, `MonitorAssumption`,
`IngestAssumption`, `RecipientAssumption`, `StoreAssumption`, `RegistryAssumption`,
`NameAssumption`, `PassAssumption`, `LoginAssumption`, `BlobAssumption`,
`ResultAssumption`, `MigrationAssumption`):
any number of deliveries, sockets, users, codes, crashes and faults.

* **`NotificationDelivery_proofs`.** `IInv` strengthens the properties with
  `BatchInv` (a batch is in flight exactly while pushing, and its rows are
  "sending"), `PushInv` (how the pushes of a delivery relate to its counter in
  memory, per status), `ShownInv` (messages shown and still possible never exceed
  the pushes) and `ReasonInv` (which reasons go with which status). The bound on
  messages is then the bound on pushes: within one life of the process the
  counter bounds them, and a row outlives the process in an open status only
  over a skipped cleanup, which adds `MaxAttempts` at most. `WorkerKeepsPromise`
  is the refinement of `DeliveryPromise`: each action maps to a step of one or
  several outcomes, or to a stutter; "sent" is recorded only of a delivery that
  was reported sent, which `ShownInv` knows to have been shown. `ClaimFindsBatch`
  is about the claim's query, which the model writes as a condition on a set: there is
  exactly one such set while anything is pending. Two sets of oldest rows are
  nested (`OldestAreNested`), and one that leaves a row out and has room takes in the
  next oldest (`NextOldest`).
* **`DeviceCommand_proofs`**, of the link. `RouteInv` says where a socket may be by
  the state of its handler and the two Starlette states, and that a socket whose
  application side is still usable is the registered one of its owner;
  `AnswerInv` says that answers on their way and in hand were sent by the
  command's device. Both properties about registration follow from `RouteInv`.
  `CallsKeepPromise` is the refinement of `RequestPromise`: `CallSteps` reduces each of
  the link's actions to a move of the calls or an answer that is sent, and `AnswerInv`
  makes an answer of anybody one of the device that was asked (`RepliedIsHeard`).
  `TimelyAnswersAreHeard` and `AnswersAreHarmless` go through the
  steps that take an answer: a future is completed only if it is in the table and
  not done, so none of them makes the handler raise, and if the call waits it is
  both, so the result is set (`InHandIsResolved`). What may still come between the
  result and the return of the call is the second half (`ResultIsKept`).
* **`DeviceCommand_proofs`**, of the commands. Every step of the composition is a
  step of the link or leaves it alone (`CommandsKeepTheLink`), so the link's
  invariants are inherited; `RowInv` relates each row to its obstacle and the state
  of its call, `CauseInv` both to the faults and stops there were.
  `CommandsKeepPromise` is the second refinement of `RequestPromise`, which a row that
  is written twice, taken back or filled in for another command would break.
* **`StatusMonitor_proofs`.** `FreshInv` relates what the iteration has read, what
  is recorded and what was seen since; `NewsInv` keeps the last announcement
  in step with the record, and knows that an iteration between its reading and its
  commit has told nothing. `SubscribersAreToldRight` is the refinement of
  `PresenceNews`: a sign of life is `See`, the beginning of an iteration or of a process
  `Pass`, a commit is `Tell` (`CommitTells`, device by device), all else a stutter.
* **`DefectAlerts_proofs`**, of the uploads. `ClocksApart`, for any offsets, window
  and order of arrival, from an arithmetic lemma about the comparison (`Apart`), once
  for the events of one scan (`ScanApart`) and once for new against old;
  `WindowsHold` has `OnePerWindow` of it for senders in UTC, whose clocks show
  the time (`WallInv`). The action property `ImagesCountOnce`.
  `NothingIsLost` asks, for a defect of a scan that is being stored, for the first
  of the scan's defects of that fruit: that one is suppressed by an older event or
  becomes one itself (`FirstIsAnnounced`). That there is a first is the only
  use of well-foundedness (`Least`). The property does not repeat the comparison of
  strings: `SuppressingIsNear` is what that implies about times.
* **`DefectAlerts_proofs`**, of the recipients. Every step is an upload or leaves the
  uploads alone (`AlertsAreUploads`), so the above holds of the composition.
  `OffInv` (a toggle is off in the settings exactly if the user last turned it
  off) makes `Recipients` equal `Willing`, and `KeyInv` (an event belongs to a
  stored scan) makes the events of an upload new; `WishesAreKept` is both.
* **`ResultImages_proofs`.** `PlaceInv` places what the cleanup has selected among
  the expired and what uploads write outside the rows. With it the three
  invariants are inductive together: the cache is left with listed blobs because
  the `DELETE` cascades, and with files because only expired ones are removed.
  `DisposalsAreDue` is about steps: no row goes before its time, no file but with such
  a row or a refused one, and no id is ever given a second content.
* **`SchemaMigration_proofs`.** `ShapeInv` says what is missing, old or new at each
  stage, `CopyInv` where the rows of a table are between two statements of its
  rebuild and what an interrupted one leaves, `ColumnInv` which columns are
  filled and saved, `OriginInv` that nothing is made up, and `ScarInv` what
  each window leaves for ever: of `"filled"` a copy that shares rows with the old table,
  so that no start gets past it, of `"dropped"` a copy no table has. `RowsSurvive` is
  inductive with them, and at `"up"` they give `OnlyWindowsHarm`, both ways.
* **`AccessCodes_proofs`**, of access. `TypeOK`, `ContextIsMember` and `ContextDeviceIsLive` are
  inductive together: what takes the place of a revoked store is a store of
  the user, and a device survives in a context only with its store
  (`DropMembershipContext`). `AuthorityIsCurrent` needs types only: the one step
  that ends the request of a member and changes a membership is a `Grant` or a
  `Revoke` of that member (`EndsOwnRequest`), which ask `Outranks`. `StoresStayApart`
  goes through all operations of such a request, also those that ask nothing again.
  `RanksComeFromAbove` is the consequence for whole histories: a new role in a store
  came of an invite or of a `Grant` (`NewRole`), by a member only below its own,
  so without the bootstrap administrator nobody rises above the highest rank
  given; its hypothesis on `InviteRoles` is that of `staff_invite_policy.py:13`.
* **`AccessCodes_proofs`**, of codes. Every step is a step of `Access` or leaves it alone
  (`CodesKeepAccess`: issuing and revoking end a request, as `Refuse` does).
  `PassesStayApart` is the counterpart of `StoresStayApart` for the passes.
  `PassSteps` says what can happen to the rows of passes. `CodeIsUnambiguous` is
  inductive given that invites are issued in order and that what is not issued
  has no code; `KeepsLimits` needs that the counter counts every use
  (`UsesAreCounted`).

* **`AdminLogin_proofs`.** `TokenInv` (a challenge has exactly the token of its
  claimant once it is claimed), `UseInv`, `ClaimInv` (a claim in flight is of
  a started challenge) and `SessionInv` are inductive and give `SessionIsEarned`: a
  claim that finds no token finds the challenge pending (`FinishClaimCases`), which is why the code
  need not look at the row count of its UPDATE.

**Only model-checked:** the liveness properties (`SettlesOrStrands`,
`CallsReturn`, `SupersededLeave`, `CommandsFinish`, `OutagesAreRecorded`,
`RecoveriesAreRecorded`, `ExpiredGo`, `ComesUp`), which are beyond this prover.
Every invariant, action property and refinement that the passing runs check is
stated by a theorem. `PassesAreApart`, `DisposalIsDue`, `ClaimFindsBatch` and
`RanksComeFromAbove` are proved and not part of a run.

## 6. Order and what is left

Built in this order: worker, link, commands (composed with the link), monitor,
ingestion, access, invites and tokens (composed with access), the
administrator's login, schema migration, blobs and images, recipients
(composed with ingestion).

**Not modelled:**

* The checks before a command (`bot.py:1797-1823`) and before a tap
  (`bot.py:2084-2130`), with the memberships and devices of Access changing in
  between. The code makes them once, outside any transaction, and promises nothing
  about the time after; a composition would restate them as a guard.
* The administrator pages and translations (`admin_ui.py`, `admin_i18n.py`,
  most of `api/admin.py`): routing and wording over `admin_ops`, whose operations
  are in `Access` and `AccessCodes`.
* Configuration, request parsing, token hashing: functions without state.
* Authentication of connectors and of tgbot, and the creation of the bootstrap
  account: the models begin with an authenticated socket, upload, command or user.
* Added columns other than the two kinds `SchemaMigration` keeps: each is
  added and filled as one of those is.
