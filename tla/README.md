# WebSentinel in TLA+

WebSentinel is a reverse proxy with a built-in web application firewall and an
admin dashboard: one Flask application (`src/proxy_app.py`), served by several
Gunicorn processes or by the threads of the development server, which share one
SQL database.  Every request to the protected site runs through `proxy()`:
block list, rate limit, pattern detectors, brute-force check, forwarding,
logging, alert mail, automatic block.

There is hardly a lock in the program.  What makes it hard is that several
workers interleave between the reads and the commits of one handler, and that a
handler makes up to a dozen separate commits, each of which can fail, or be the
last one before the process is killed.  This directory models that: every
query, every commit and every call to the outside is a step of a worker.

## 1. Inventory

| Component | State | Operations | Talks to |
|---|---|---|---|
| Request handler (`proxy_app.py`: `proxy`, `persist_request_and_incidents`) | the handler of each worker; tables `requests`, `incidents` | receive, inspect, refuse, forward, log, follow up every severe incident | calls all the others |
| Brute-force detector and login throttle (`detectors/brute_force.py`, `login()`) | table `login_attempts` | `should_preblock`, `detect`, `_cleanup_expired`; count and record in `login()` | called before and after forwarding |
| Block list (`utils/ip_blocklist.py`) | table `blocked_ips` | `is_blocked`, `maybe_auto_block`, `block_ip`, `unblock_ip` | reads `incidents`; called first and last, and by the dashboard |
| Alerting (`utils/alerting.py`) | table `alerted_ips`; the Gmail token file; the Gmail API | `maybe_alert`, `should_alert`, `_record_alerted`, `_gmail_credentials`, `authorize`, `alerting_issue` | called for every severe incident; reads the settings |
| Risk engine and decision (`utils/risk_engine.py`, `_should_block`, `_is_suppressed`) | none | score, severity, block or forward | between detectors and handler |
| Rate limiter (`utils/rate_limit.py`) | process memory: timestamps per ip, one lock | `is_rate_limited`, `seconds_until_reset` | decides whether a request continues |
| Target registry (`utils/targets.py`, five dashboard routes) | table `targets` | add, edit, toggle, activate, delete; bootstrap at start-up | tells the proxy where to forward |
| Pattern detectors (`detectors/*.py`) | none | regular expressions over the decoded payload | findings for the handler |
| Normalization (`utils/normalize.py`) | none | repeated decoding, lower case, comments, white space | between the request and every pattern detector |
| Forwarding (`get_client_ip`, `get_request_body`, `rewrite_location_header`, the upstream call of `proxy`) | none | client address, body, path and query upstream, Location back | inspection, the target registry, the site |
| Retention clean-up (`cleanup_old_data`, `create_app`) | deletes from `requests`, `incidents`, `alerted_ips`, `login_attempts` | one transaction at every start, then the bootstrap of the targets | foreign keys between the tables; the running workers |
| Settings page (`update_settings`) | table `settings` | insert or update of each key | read by alerting, before the environment |
| Dashboard pages, API, sessions | none of their own | queries, exports; login, logout | all tables |
| Schema, migrations, front end, deployment | | | |

What makes each of them correct, and what is hard about it:

- **Handler.** An incident says truthfully whether its request was stopped; a
  forwarded request is logged; a block that is due happens; every handler ends.
  Hard because all of it is spread over separate commits.
- **Brute force.** A bounded number of failed logins per client and window, no
  burst overlooked.  Hard because the count is read before the request goes
  upstream and the failure is written after the answer.
- **Block list.** An admin's block lasts until it is lifted.  Hard because
  `block_ip()` selects, then inserts or updates, whatever happened in between.
- **Alerting and settings.** One mail per cooldown; no silence without a mail;
  a changed setting takes effect; a token that cannot be used is noticed.  Hard
  because the cooldown is read before the mail and written after it, the
  settings before up to seven further steps, and the token is a file that
  workers truncate and write while others read it.
- **Rate limiter.** The limit, and only the limit.  Hard because the clock is
  read outside the lock, and the list after it was released.
- **Retention.** What is old goes, what is in use stays, and no incident loses
  its request.  Hard because every start of a process deletes under running
  workers, with foreign keys that one of the two databases enforces, and
  because its exceptions are swallowed.
- **Normalization and forwarding.** The detectors judge what the site will
  read, the site reads what the client sent, and redirects lead back to the
  proxy.  Hard because encodings nest and mix, bodies fail to inflate in several
  ways, and the target may be switched during the exchange.
- **Targets.** At most one active target.  Hard because activation, deletion
  and the bootstrap of a starting process are decided on rows read earlier.

`PROJECT.json` lists the hazards one by one with their lines.

## 2. Modules

| Module | Models | State in the code |
|---|---|---|
| `LoginAttempts` | every query and commit on `login_attempts` | `attempts`, `lastId` = the table; `bf[w]` = the call worker `w` is in |
| `Blocklist` | every query and commit on `blocked_ips` | `blocked` = the table (ip -> `expires_at`, `Permanent` for null); `lastIncident`, `severe` = the join of `incidents` and `requests` that is counted, by incident id; `blk[w]` = the call |
| `BlockPolicy` | the configuration of automatic blocks, shared by the next module and the composition | constants only |
| `Alerting` | `maybe_alert()`, the settings form, the token and those who write it | `alerted`, `settings` = the tables; `token` = the token file; `mails` = what the Gmail API accepted; `alr[w]`, `form[a]`, `console` = the call, the save, the console's sign-in in progress |
| `Findings` | risk engine, suppression, `_should_block()` | no state; a finding is its attack type and confidence, a detector the set of findings its patterns can give |
| `ProxyPipeline` | `proxy()` and `persist_request_and_incidents()`, and the dashboard forms that use the same workers; composes the four above over one clock | `job[w]` = the handler; `requests`, `incidents` = the tables |
| `Retention` | `create_app()`'s clean-up and bootstrap beside workers that store rows; the database is a choice of `Init` | `requests`, `incidents`, `alerted`, `attempts`, `targets` = the tables, with their ids; `job[w]` = the handler |
| `Normalize` | `normalize()` as functions on texts | no state; a character and how often it is percent-encoded |
| `Forwarding` | one exchange between client, proxy and site, around `Normalize` | `ex` = the exchange; `target` = the active target; `fronted` = the deployment |
| `RateLimiter` | `rate_limit.py` under threads | `hits`, `lock` = `_hits`, `_lock`; `thr[t]` = the call |
| `TargetRegistry` | the `targets` table, its routes, the bootstrap | `rows` = the table; `ses[s]` = the commit a session is about to do |
| `LoginAttemptsProofs`, `BlocklistProofs`, `AlertingProofs`, `TargetRegistryProofs`, `RateLimiterProofs`, `RetentionProofs`, `ForwardingProofs` | the theorems about one component each | |
| `PipelineProofs` | the theorems about the composition, which uses those about its components | |
| `MC...` | symmetry sets and traffic for TLC | |

Conventions.  A call is a record per worker whose `step` names the next query
or commit, so a value read by one step and used by a later one is in that
record and may be stale, as it is in the program.  Unique constraints are what
makes a commit fail: an action for the commit that succeeds and one for the
commit that raises, with complementary guards.  A killed process is `Crash`
(`Abandon` in a component): the session is lost, what was committed stays.
Variables that only properties read (`history`, `pin`, `batch`, `torn`,
`forwarded`, ...) are marked so where they are declared.  An operator commented
`Mutant:` is a plausible bug of the definition below it; each property is
broken by at least one of them.

`ProxyPipeline` uses the components' own actions through `INSTANCE`.  A call is
a phase of the handler, during which the component's steps are taken; the table
`severe` that `Blocklist` counts is replaced by a query on `incidents`.  That
the composition uses each component as the component's module assumes is a
property of its own: the pipeline implements the three specifications.

## 3. Runs

| Run | Question | Bounds |
|---|---|---|
| `pipeline` | Do incidents tell the truth, do due blocks happen, how many requests leak past a fresh block, does a manual block that no auto-block overlapped stay? | 2 workers, 1 client, 3 requests or forms, clock 0..2, blocks and windows of one tick |
| `pipeline_refines` | Does the handler implement the three component specifications, is everything forwarded logged, does every handler end? | 2 workers, 1 client, 2 requests, among them one with a user agent and a login with a path that the database refuses; clock 0..1, mails on, one killed handler, no symmetry |
| `pipeline_suppressed` | Is a suppressed client never blocked, as the comment in the code says? **No.** | 2 requests |
| `login_attempts` | How many failed logins pass, and is a burst ever overlooked? | 2 workers, 2 clients, threshold 2, window 1, clock 0..3, 3 failures |
| `blocklist_race` | Does every manual block stay? **No.** | 2 workers, 1 client, clock 0..2 |
| `alerting` | Is an ip silenced only by a real mail, does every mail start a cooldown, do settings take effect, is there a token where the settings page complains of none? | 2 workers, the console, 1 client, 2 saves at a time of two forms, 2 mails, clock 0..1, cooldowns of one and two ticks |
| `alerting_race` | Is there one alert per cooldown? **No.** | 1 client, 2 mails |
| `targets` | One active target, given up only by a form that takes it away or a deletion, when no process starts during an admin request? | 2 admins, 2 starting processes, 2 rows |
| `targets_race` | The same when a process starts meanwhile? **No.** | 1 admin, 1 process |
| `rate_limiter` | Is the limit kept, is nobody rejected without cause, is Retry-After sane? | 2 threads, 2 clients, limit 2, window of 2 ticks, clock 0..4, 5 hits |
| `retention` | When do incidents keep their request and its client, what does a start leave behind, does it delete what is in use? | both databases, requests and incidents kept 1 and 2 days, 2 and 1, 1 and 0, 0 and -1; 2 workers, 2 clients, 2 requests, 2 starts, days 0..4 |
| `forwarding` | Do the detectors judge, and does the site receive, what the client meant; do redirects lead back? | about 1300 requests that vary in one respect each: texts of up to 6 characters encoded up to 4 times, all body faults, forged headers, repeated parameters, dot segments, escaped `?` and `#` in the path; 3 targets, 2 deployments |

The block list has no passing run of its own: `pipeline` checks its property on
the composed system, `pipeline_refines` that the system implements it, and the
theorem of `BlocklistProofs` covers every instance of the module.

Why the bounds are enough.  Each race in the code is between two workers on one
row, so two workers and one client show it; where rows of different clients
could be mixed up (the component runs) there are two.  Thresholds are 1 or 2,
and there are more requests, failures or hits than the threshold, so it is
reached and exceeded.  Windows, cooldowns and blocks last one or two ticks and
the clock runs longer, so entries expire, also in the middle of a call, and
blocks are renewed.  The slack that the bounds `UpstreamFailuresBounded`,
`LeakBounded` and `AdmissionBounded` grant is tight: with one less, TLC finds a
counterexample.  In `alerting` a clock of one tick is enough for one
cooldown to pass and the other not, and so for a second mail of the same
client; two workers and the console make three writers of the token file.  In `retention` a row of each table can
expire alone, before and after those it references, a period of no days takes
rows from under a running handler, and the alert cooldown is covered by two of
the four policies, the window of failed logins by three.  In `forwarding` one more
round of encoding than `normalize()` decodes is among the texts, and so is every
order of the characters that comments and runs of white space are made of.
`MaxTime`, `MaxRequests`, `MaxAttempts`, `MaxMails`, `MaxBatch`, `MaxIncidents`,
`MaxHits`, `MaxStarts` and `MaxCrashes` bound the exploration and stand for
nothing in the code; `MaxBatch` is the number of detectors, so it excludes
nothing.  The idle states that remain when they are used up are
steps too (`ReadOnlyPage`, `LoginThrottled`, `Rest`), so TLC's deadlock check
is on in every run.

The two pipeline runs share the work.  `pipeline` has mails off and no crashes
but three requests; `pipeline_refines` has both but two requests, because
refinement and liveness are checked without symmetry.

**Fairness.**  `FairSpec` adds weak fairness of `Progress(w)` for every worker:
a handler that can take a step takes one.  The operating system schedules every
process; the upstream request has a timeout of 10 s;
the database answers every statement with a result or an exception; and the
Gmail call returns, which holds for a stored valid token only.  The pipeline
therefore assumes one, and settings that nobody changes; in `Alerting` the token
may be missing, expire, be withdrawn or be unreadable, and a worker may wait for a sign-in
for ever.  Nothing is assumed of clients, admins, the clock or crashes.
`HandlersFinish` then says that no interleaving of failing commits makes a
handler run for ever.

### What the violated runs show

Each states a sentence of the code's comments or documentation, and TLC's trace
is a behaviour of the code.

- `SuppressedNeverBlocked`: only `_should_block()` looks at the suppression
  list.  The requests of a suppressed ip are forwarded, but their severe
  incidents count toward `maybe_auto_block()`, which blocks the ip.
- `ManualBlockSticks`: `maybe_auto_block()` finds the ip free, an admin blocks
  it permanently, the auto-block then updates that row with its own expiry.
- `OneAlertPerCooldown`: two workers read "not alerted" and both send.
- `AtMostOneActive` (with `Overlap = TRUE`): a starting process counts zero
  targets, an admin adds and activates another URL, the process inserts its
  active row.

Further places where the code and its words differ, which the models follow the
code in:

- `src/README.md` and the comment at `BLOCK_SEVERITIES` say that Critical and
  High findings are blocked.  `_should_block()` decides on confidence and on the
  number of attack types, never on severity: a single SQL injection finding of
  High confidence is scored Critical and forwarded.
- Rejected requests are counted by the rate limiter too, so waiting as long as
  Retry-After says may end in another rejection; `RejectionsJustified` promises
  only that a client is let in after a quiet window.
- "Delete requests older than req_days (incidents referencing them are already
  gone)": by default incidents are kept three times as long as requests.
  PostgreSQL then refuses the clean-up, every time; SQLite deletes the requests
  and leaves incidents without the client they are about, whose codes later
  requests with the same id cannot take.  `KeepsReferences` and `CleansFreely`
  say where the comment holds.  On PostgreSQL an alert whose incident expires
  stops the clean-up as well, whatever the settings.
- A clean-up that fails leaves the transaction aborted, so on PostgreSQL the
  bootstrap of an empty targets table fails after it.
- `get_request_body()` promises that what cannot be inflated is forwarded as it
  is; gzip raises `zlib.error` for corrupt bits, which is not caught, and the
  client gets a 500 (`BodyRaises`).  A body in another encoding than gzip loses
  its Content-Encoding.
- `normalize()` is not idempotent on a comment over a line break: the first pass
  leaves it, and turns the line break into a space, and the second takes it out.
- A repeated query parameter reaches the site once.  An encoded `?` or `#` ends
  the path, dot segments are removed, encoded ones too, and a double escape
  loses a level on the way.
- A redirect of the site to itself is passed on unchanged when the target names
  the default port or, as `WEBSENTINEL_TARGET`, an upper-case host.
- "Every incoming HTTP request is logged": blocked and throttled ones are not,
  nor one whose url or user agent PostgreSQL finds too long, which has been
  forwarded by then.
- A failed login whose path is longer than `LoginAttempt.url` is not counted:
  PostgreSQL refuses the row in `detect()` itself, after the site has seen the
  password.  Nothing bounds how many such logins a client sends
  (`DetectRefused`); `UpstreamFailuresBounded` is about those that are recorded.
- A second manual block of an ip does not always make its row permanent: an
  `expires_at` that was read as null and is set to null is no part of the UPDATE
  (`Written` in `Blocklist`), so an expiry that an auto-block has committed in
  between stays.
- The settings page reports a missing token only.  A token file left unreadable
  (two writers that overlap, the second with the shorter text; a writer that
  stopped) stays so, because neither alerting nor `authorize` can load it, and a
  grant that Google has withdrawn makes every renewal fail; of both the page
  says nothing.
- Nothing relates the retention periods to each other or to the alert cooldown
  and the login window: a period may be zero or negative, and then rows go that
  are still in use, also under a running handler.  A period that is no number
  makes `int()` raise inside `create_app()`'s `try`, so nothing is ever cleaned
  up; that is not modelled.
- The login form of the dashboard counts failures by `remote_addr`, not by
  `get_client_ip()`: behind a trusted proxy all clients share one count.
- Of two overlapping saves of the settings, each writes only what differs from
  what it read, so a mixture that nobody submitted may remain.

The weaker statements that do hold (`LoneManualBlockSticks`, `DueBlocksHappen`,
`LoneSaveTakesEffect`, `SilencedOnlyAfterMail`, `CooldownStarts`,
`NoIssueMeansToken`, `AtMostOneActive` without overlap, `AdmissionBounded`) are checked next to them.

## 4. Theorems

Proved by TLAPS for every value of the constants that the modules' assumptions
admit: any set of workers (finite where workers are counted), clients,
thresholds, windows.

- **`LoginAttemptsProofs`.**  `UpstreamFailuresBounded` and
  `DashboardGuessesBounded` count what really happened (`history`), but the code
  looks at the table, which is cleaned up all the time.  The invariant
  therefore says first that the table still holds every failure of the window
  (clean-up deletes only what is older, and the clock only moves forward), then
  that failures plus calls in flight stay below threshold + workers.  A step
  that clears a request has just counted fewer than the threshold, and at most
  every worker is in flight; a step that records a failure takes its own worker
  out of flight.  The rest is cardinality of finite sets.  `BurstFlagged` has an
  invariant of its own: row ids are handed out in the order of insertion, so
  nothing that is inserted later counts towards an attempt that was judged, and
  of the attempts up to it those in the window can only become fewer; when
  `detect()` counts, the table holds them all.
- **`BlocklistProofs`.**  `LoneManualBlockSticks` is not inductive: the row of
  an ip that is pinned alone could be overwritten by an auto-block that is under
  way.  The invariant adds that there is none: none was when the pin was set,
  and none can start, because `maybe_auto_block()` finds a permanent row.  The
  same is said of an admin's call that has read the row as permanent, and so
  will not write the expiry: from its look-up on, if no auto-block was under way
  then, the row stays as it was read.
- **`TargetRegistryProofs`**, assuming `~Overlap`.  `AtMostOneActive` needs that
  the bootstrap's insert finds no active row.  The invariant says that while
  some process is bootstrapping no admin request runs, and the table is empty or
  holds only the row another starting process has just inserted, whose URL then
  collides; besides that URLs are unique and only starting processes bootstrap.
  The action properties `OnlyDeletionDeactivates` and `FallbackIsDeliberate`
  follow step by step from the same invariant: a commit writes only the columns
  its form has changed, so what another request changed in a row loaded before
  stays.
- **`AlertingProofs`.**  `SilencedOnlyAfterMail` rests on a statement about
  calls: one that is about to look up or write a row of `alerted_ips` has sent a
  mail no later than what it stamps.  `CooldownStarts` is about every mail: the
  recordings of one ip that overlap form a batch, which begins with its first
  mail (`batch`), and no stamp, whichever of them is committed last, is older
  than that.  `NoIssueMeansToken` needs that an empty or garbled token file has
  a writer, or had two at a time, or one that stopped; `LoneSaveTakesEffect` that a
  save nobody overlapped still sees the settings it read; `DisabledMeansQuiet`
  that a worker which is past `is_enabled()` when alerts are disabled sends at
  most one mail and then is no longer.  The steps fall into those that go on
  towards the mail, the mail, those after it, and those of admins.
- **`PipelineProofs`.**  `IncidentsTruthful` and `ForwardedAreLogged` relate
  rows to what was sent upstream, so the invariant follows every handler: its
  number is in no row and was not forwarded until the step that does either, it
  is forwarded only by a handler past inspection, and from the commit of the
  request on there is a row with its answer.  The actions are sorted into five
  kinds (a handler stays, enters, moves on, leaves, stores), and each kind keeps
  the invariant.  For `LoneManualBlockSticks` the invariant of `BlocklistProofs`
  is carried over: what the pipeline does to `blocked_ips` is what `Blocklist`
  allows.
  The same module goes on with:

  - *Leaks.*  The requests of a blocked ip that leaked, and those past
    `is_blocked()` that still may, are together fewer than the workers: the
    worker that commits the block is not on its way to the site, a blocked ip's
    requests do not pass the check, and forwarding moves a request from the
    second set to the first.
  - *Due blocks.*  `DueBlocksHappen` fails if somebody else's step makes a call
    stop before the block is there.  `DueInv` says for every call what that
    could be: from the incident on, either the ip was seen blocked since, or it
    is free now and the call is still going to count or to write.  The commit
    that changes nothing is the case to see: the row carries the very expiry the
    call computed, no row expires later than a block's duration after its ip was
    last seen blocked, so it was seen blocked at that moment or later.  And of
    the incidents a verdict is about, the window only ever loses some.
  - *Room.*  `Blocklist` explores a bounded number of incidents.  `FitInv` shows
    that the bound never holds a handler up: inspection leaves at most one
    finding of each detector and the brute-force check adds one, and every
    handler that has not stored its incidents yet has `MaxBatch` reserved.
  - *Refinement.*  Every step of the pipeline is a step of `LoginAttempts` or
    leaves its variables alone, and likewise for `Alerting` and, with `FitInv`,
    for `Blocklist`, whose table of severe incidents is computed from the
    pipeline's.  The invariants are needed because a handler may act on a call
    only in the phase of that call.  The theorems about `LoginAttempts` and
    `Alerting`, instantiated with the refinement, then hold of the handler
    (`LoginPromisesHold`, `AlertPromisesHold`), and with them the composition's
    type invariant `PipelineTypeOK`.
- **`RateLimiterProofs`.**  `AdmissionBounded` looks at every window that ever
  was, the code at a list that is pruned from the front only.  The invariant
  sorts the windows: a window is *whole* as long as all its hits are in the
  list, which is then what the code counts; or it has *passed*, and the hits
  allowed in it together with the threads that read the clock before it ended
  and still wait for the lock are within the bound.  It becomes the second when
  a thread prunes it, and that thread itself waits no longer, which is where the
  slack of one thread less comes from.  `RejectionsJustified` needs how many hits can be
  stuck behind a younger one: one for each other thread.  `RetryAfterSane`, for a
  list read after the lock was released, needs that a hit stays in its list for a
  window, behind older ones only.
- **`RetentionProofs`.**  The invariant gives every incident a request of its
  client stored no more than a day earlier, which outlives it when requests are
  kept longer, and which PostgreSQL does not let go otherwise; and the incident
  that a handler is about to store is the only one of its request.  A new id is
  above every other (PostgreSQL) or above those that remain (SQLite), so it is
  fresh either way.  `StartsClean` and `LiveRowsKept` are action properties
  that follow from it step by step, for retention periods of any length:
  `LiveRowsKept` because what either period covers, the longer one does.
- **`ForwardingProofs`.**  An exchange carries, at every step, what the request,
  the deployment and the target that served it determine.  What the properties
  then need is about texts of any length, over any alphabet without the percent
  sign, and any number of decoding rounds: `Decoded` is a recursive function, of
  which the proof shows by an explicit solution that there is one, and by a
  least round of disagreement that there is no other; so what comes out is known without going
  through the rounds, and a text as deep as the rounds is decoded to the bottom.
  `NormalFormStable`, that normalizing twice is normalizing once, needs what each
  pass leaves.  Stripping: from every position on, what is left has no comment,
  because its closing signs were closing signs of the text, no further to the
  left, so that a comment in it would have been one before.  Collapsing: the
  items that are kept are numbered by how many come before them; neighbours that
  are not white were neighbours, so no comment forms, and white space only stays
  between two other characters.  Such a text is changed by no pass.  A simple
  path (no `?`, `#` or dot segment, escaped or not, and nothing escaped twice) and
  distinct parameters survive the way by the same counting.

Every theorem but those about the targets holds without further conditions;
those assume that no process starts during an admin request, the case in which
`targets_race` shows them to fail.

The assumptions.  Thresholds and windows are positive integers: those of the
brute-force check are constants of the code, those of the block list are raised
to 1 when they are read.  The rate limit is positive, because any other switches
the limiter off before it does anything, and so is its window, which the code
does not see to.  Retention periods are any integers.  There are finitely many
workers or threads, and the mark for "no client" is not a client.  Two of
`ProxyPipeline` are about bounds of the exploration only (`BatchFits`,
`IncidentsFit`: the block list is not explored less far than the handlers).
`LettersOnly` of `Normalize` says that lower-casing makes letters of letters and
leaves its own result alone, and `RequestsType` of `Forwarding` that a request
is one: texts are sequences of characters that are percent-encoded a natural
number of times, a body is plain, gzip or brotli, and only a compressed one can
fail to inflate.  TLC evaluates each of them in the runs.

The rows that a run and a theorem share are checked on a small instance by TLC
first; the theorem says the same of any number of workers.

Model-checked only:

- Liveness (`HandlersFinish`); fairness is out of the prover's reach.  The
  handler has no loop but over its findings, so what the property says is that
  no failing commit and no call's error leaves it without a next step.
- The properties that `expect` a violation, which are false.

## 5. Not modelled, and why

- The regular expressions of the detectors and the text of the mail: data that
  no property tells apart.  A finding is one of the pairs of attack type and
  confidence the detectors can produce.
- `is_private_target()` with the helpers in `detectors/ssrf.py`, and the
  connection test: they inform the admin and decide nothing.  Of
  `normalize_target_url()` only what a redirect is compared with is modelled.
- `reset_rate_limits()`: called by tests only.
- Dashboard queries, charts, exports, templates: they change no state
  (`ReadOnlyPage`).
- The session cookie and logout: Flask's.
- Migrations, demo data, deployment scripts: run once; deployment decides only
  the number of workers.
- Of a path: empty segments, bytes that are no UTF-8, and a percent sign of its
  own; texts and paths have an alphabet without it.
- Ids of `blocked_ips` and `login_attempts`: SQLite gives those of deleted rows
  out again, so on SQLite a call that has found a row may update another one
  inserted since with the same id.  Only the ids of requests, which incidents
  refer to, are modelled (`Retention`).
- A malformed Location header, for which `urlsplit` raises: it would need
  characters of URLs that nothing else distinguishes.
- The rate limiter inside the pipeline is a free choice of the handler
  (`RateLimited`); its own module checks it.  This is sound for the pipeline's
  properties, which hold whichever requests are rejected.  In the same way
  settings, token and clean-up are left to the modules `Alerting` and
  `Retention`: retention counts days, a handler takes less than one.

## 6. Plan

Written, in this order: `LoginAttempts`, `Blocklist`, `Alerting`, `Findings`,
`ProxyPipeline` (the composition), `TargetRegistry`, `RateLimiter`; proofs of
the first, the second and the registry; `Retention`, settings and token in
`Alerting`, `Normalize`, `Forwarding`, and rows the database refuses and
suppressed clients in `ProxyPipeline`; proofs about the composition and
`Alerting`; then about `RateLimiter`, `Retention`, `Forwarding`, bursts, due
blocks, and that the composition implements the block list.

What is left to prove is nothing that a run checks but `HandlersFinish`.  Next,
where the model could still grow: the private-address notice and URL
normalization of the targets, and the session cookie.
