# TLA+ models of the registry's retention engine and request/notification paths

This directory holds TLA+ models of the code under `src/`. They are checked with TLC.
The repository is a slice of Harbor and of the distribution registry. `spec.md`
describes its core, the tag-retention engine. Of that engine only the builder
(`pkg/retention/policy/builder.go`) is in `src/`. The selectors, templates, the
"or" algorithm and the performers are not, so those parts are modelled from
`spec.md` and marked `spec_modelled` in `PROJECT.json`. Everything else is
translated from the Go source, and `PROJECT.json` "map" names the lines each
definition stands for.

## 1. Inventory

### Retention engine (spec.md §2-§4, `pkg/retention/policy/builder.go`)
* **Builder** (`basicBuilder.Build`, builder.go:57-98). Its only state is the
  candidate universe captured by `NewBuilder`. `Build(policy, isDryRun)` rejects a
  nil policy. For each rule, in order, it resolves the template to an evaluator,
  the action to a performer (built with the full universe and the dry-run flag),
  and every tag selector. The first unresolvable name returns an error. Last, it
  resolves the algorithm name to a processor.
* **Selectors** (spec §4.2, not in src). A doublestar pattern selector has the
  decorations matches and excludes. A label selector has withLabels and
  withoutLabels, and an empty label set means no filtering. Each is a pure
  function from candidates to a subset of them. The pattern is matched by the
  `Doublestar` module: `Match` is a RECURSIVE operator over token sequences, in
  which `*` stays inside one `/`-separated segment and `**` crosses segments.
  The library is not in this repository. The matcher is modelled from the
  spec, and no property is checked on it alone.
* **Templates/evaluators** (spec §4.4, not in src). latestPushedK,
  nDaysSinceLastPush, always and nothing. Each is a pure function of its input.
* **"or" processor** (spec §4.6, not in src). Evaluates every rule: it applies
  the rule's selectors in sequence to the universe, then the evaluator. It unions
  the retained sets and hands the complement to the performer.
* **Performers** (spec §4.5, not in src). The real performer issues one delete
  call per non-retained candidate, possibly concurrently. A failed call is
  collected and does not cancel its siblings. The dry-run performer only
  records the candidates.
* Interactions: Build → Process is a synchronous library call. The performers'
  delete calls run concurrently against the artifact store.
* Correctness: no retained candidate is deleted. The decision is the union over
  rules, whatever order the rules are evaluated in. Dry runs and real runs make
  the same decision, and a dry run has no side effect. No decision is made on an
  incomplete rule set, which means Build fails fast. Every non-retained
  candidate is eventually deleted or reported as failed.

### Webhook notification (`controller/event/handler/util/util.go`, `pkg/notification/hook/hook.go`, `jobservice/job/impl/notification/webhook_job.go`, `pkg/notification/notification.go`)
* `SendHookWithPolicies` (util.go:18-53). For every policy × target it builds
  and publishes a hook event. A failure is logged and the loop goes on. The
  result is an error if any failed.
* `StartHook` (hook.go:40-86). Creates a job record with status Pending in the
  DB and submits the job to the jobservice. If the submit fails, it updates the
  record to Error, and that update can itself fail. If the submit succeeds, it
  writes the UUID, updating only the UUID column.
* Jobservice and status hook (outside src). The jobservice runs the job and
  reports status changes to the status-hook URL, which updates the record's
  status by id.
* `WebhookJob` (webhook_job.go). It sends one HTTP POST. A transport error or a
  non-2xx response is an error. `ShouldRetry` is true, and `MaxFails` is 10
  unless the environment overrides it.
* `AddEvent` (notification.go:101-115) appends events to the request's event
  list. A passed flag overwrites `MustNotify`.
* Hard parts: partial failure between the DB record and the submit, the
  status hook racing the UUID write, retries of a request that was delivered
  but whose answer was lost, and retry exhaustion.

### Transaction middleware (`server/middleware/transaction/transaction.go`)
* Per request: a `committed` flag in the context, which the handler can set
  with `MustCommit`, and a buffered response. The transaction commits when the
  handler called `MustCommit` or the response is a success. Otherwise it rolls
  back. If begin, commit or rollback fails, the buffered response is reset to a
  500, unless the reset itself fails.
* The same request carries an event context (`NewEventCtx`/`NewContext`,
  notification.go:85-98). The handler adds events with `AddEvent`. The
  notification middleware that sends them is outside this repository. It sends
  the list when the response is a success or when `MustNotify` is set.

### Immutable-tag push check (`server/middleware/immutable/pushmf.go`)
* Before a manifest push it looks the tag up. It rejects the push if the
  existing tag is immutable. A failed lookup lets the push through, whatever the
  error (`pushmf.go:50-53`). The check
  and the later write are separate steps, so concurrent pushes interleave
  between them.

### Quota on manifest push (`server/middleware/quota/put_manifest.go`)
* Computes the storage a push adds. That is zero if the manifest is already
  associated with the project. Otherwise it is the manifest size plus every
  missing non-foreign blob. The value is read at request time and charged
  later.

### Replication fetch, Harbor v1 adapter (`pkg/reg/adapter/harbor/v1/adapter.go`)
* `FetchArtifacts` runs one task per repository with a limited-concurrency
  runner. Each task writes its own slot `rawResources[index]`. The closure
  copies `index` and `repo`, but it reads the range variable `project` for the
  resource's metadata only when it runs. The model's resources are therefore
  `<<project, repository>>` pairs, and the project is read at task run time. Empty
  repositories give nil slots, which are filtered out. Any error aborts the
  whole fetch.

### CDN storage middleware (`distribution/.../tencentcdn/middleware.go`)
* `URLFor` is meant to fall back to the backend URL for storage drivers it does
  not support. Otherwise it signs a CDN URL.
* `newTencentCDNStorageMiddleware` parses the options. A `duration` given as a
  `time.Duration` or a string is accepted. A string of zero or a negative
  value parses too, and every URL signed with it is already expired. A value
  of any other type (an int from YAML) is ignored, and the 20-minute default
  is used.

### Notary signature helper (`pkg/signature/notary/helper.go`)
* `GetTargets` opens a notary repository cached under one process-wide
  directory (`/tmp/notary-cache`). It lists the targets, then removes the
  cached `root.json` so that a deleted and re-created repository is not checked
  against an old root. A failed removal is only logged. Concurrent API requests
  share the directory. The notary client writes the downloaded root to the cache
  before it fetches the rest of the metadata. Every error of the listing returns
  at lines 93-97, before the removal. So a listing that fails after the root
  download leaves the root behind (`FailAfterRoot`).

### Not modelled
* RBAC evaluator: a `sync.Once` lazy init of a casbin enforcer. The enforcer
  itself is outside this repository. Its one hazard is listed in `PROJECT.json`:
  `sync.Once` counts a panicking `makeEnforcer` as done, which leaves a nil
  enforcer. Whether `makeEnforcer` can panic is decided outside the repository.
* `DigestFromTarget` and `notaryAuthorizer`: formatting only.
* The registryctl router, the nydus accessory and the artifacthub adapter:
  wiring and static metadata.
* Swagger model conversions: JSON copies.
* `notification.Init`: start-up registration.
* Test utilities and generated mocks.

## 2. Plan

1. `RetentionRules` holds the pure selector, template and decision operators.
   `RetentionSpec` is the abstract promise: one decision step, then settlement of
   each removed candidate. `RetentionEngine` is the detailed Build plus the "or"
   Process and the concurrent performer, and it refines `RetentionSpec`. Checked
   through `MCRetention` over every small policy. **(done)**
2. `WebhookNotification`: `SendHookWithPolicies`, `StartHook`, the jobservice
   with its status hook, and `WebhookJob` retries. **(done)**
3. `TransactionMiddleware`, `ImmutablePush`, `ReplicationFetch` and `CdnURLFor`.
   **(done)**
4. `QuotaPutManifest`, with concurrent pushes sharing blobs. A doublestar matcher
   as a RECURSIVE operator, used by the pattern selector.
   `AddEvent` with the notification middleware, and `GetTargets` of the
   notary helper. **(done)**
5. Concurrent quota pushes, and the abstract `ReplicationFetchSpec` that the
   fetch refines, with its liveness. **(done)**

The runs are listed in `PROJECT.json`. Section 3 describes them.

## 3. Runs, bounds, fairness and findings

Each module declares its parameters as `CONSTANTS`. An `MC*` module gives them
small values, and a `.cfg` names the specification and the properties. Run a
check with `tlc -workers 2 -config X.cfg M` in this directory. Every property
of a passing run has a mutant in `PROJECT.json`: a plausible bug in the mapped
code that TLC shows the property catches.

| run | module / cfg | result | what it shows |
|---|---|---|---|
| retention_engine | MCRetention / MCRetention.cfg | pass | Build, the "or" processor and the concurrent performer never delete a retained candidate. They never act on a policy with an unresolvable name and never touch the store in a dry run. Any rule's performer may issue a removal call, so the dry-run check covers the flag of every rule, not just the first. The engine refines `RetentionSpec` (its `ASpec` is a PROPERTY, via `INSTANCE ... WITH`). |
| webhook_delivery | MCWebhookNotification / .cfg | pass | Every failed target is reported. Success is recorded only after a delivered POST. The UUID update never overwrites a final status. |
| webhook_pending_record | MCWebhookNotification / MCWebhookPending.cfg | violation | A record stays Pending for ever (finding 1). |
| transaction_outcome | MCTransactionMiddleware / .cfg | pass | Responses match what the database kept. Events are sent only after committed writes or an explicit notify flag, and all of them are sent on success. |
| immutable_lookup_error | MCImmutablePush / .cfg | violation | One pusher whose lookup fails re-points an existing immutable tag (finding 5). |
| immutable_race | MCImmutablePush / MCImmutableRace.cfg | violation | Two first pushes of an immutable tag both pass the check (finding 2). |
| quota_usage | MCQuotaPutManifest / .cfg | pass | Pushes in any interleaving never undercharge. Unless two pushes were in flight at once, they charge exactly the stored bytes. |
| replication_fetch | MCReplicationFetch / .cfg | pass | FetchArtifacts returns listing order whatever order the tasks finish in. Each resource carries its own project's metadata, because `runner.Wait` keeps the loop from moving on under a running task. It always returns, and it refines `ReplicationFetchSpec` (one return: the listed resources, or an error). |
| cdn_unsupported_backend | MCCdnURLFor / MCCdnUnsupported.cfg | violation | An unsupported backend gets a CDN URL (finding 3). |
| notary_failed_listing | MCNotaryTargets / .cfg | violation | One caller whose listing fails after the root was cached is stuck with that root once the repository is re-created (finding 6). |
| notary_concurrent | MCNotaryTargets / MCNotaryConcurrent.cfg | violation | Two callers sharing the cache do (finding 4). |

### Bounds
* **Retention.** Three candidates with distinct push times and labels. Every
  policy of zero, one or two rules over the templates and decorations,
  including rules with unresolvable names. At most two delete calls in flight.
  Two rules are the smallest number for which the union, the order of
  evaluation and fail-fast on the second rule matter. Three candidates separate
  latestPushedK from always and nothing.
* **Webhook.** Two policy targets (HTTP and Slack) and `MaxFails = 2`. This is
  enough for a failed and a successful target in one publish, for a retry, and
  for exhaustion.
* **Transaction.** Two concurrent requests. Each handler may call `AddEvent` up
  to twice (`MaxCalls`), which is the smallest number for which a later flag
  overrides an earlier one.
* **Immutable.** Two pushers (one in the lookup-error run) with two pushes each, three tags (one mutable,
  one immutable and existing, one immutable and absent) and two digests.
* **Quota.** Three pushes of two manifests that share a layer, with one foreign
  layer, in every interleaving of their request and push steps. That covers a re-push, a shared layer and a foreign layer.
* **Replication.** Three projects, one of them empty. There are six
  repositories, two of them without artifacts, and a runner of two slots, so
  completions are reordered.
* **CDN.** Every combination of the option classes the parser tells apart, and
  three driver names (in the violation run). The duration classes are absent, a `time.Duration`, a
  valid positive string, a zero-or-negative string, an unparsable string and
  another type.
* **Doublestar.** In the retention run, the candidates' tags are `ab`, `ba`
  and `a`, and the pattern is `a*`.
* **Notary.** Three generations, for one caller whose listings may fail after
  the root is cached and for two callers whose listings do not.

### Fairness
* `RetentionEngine` has weak fairness on its whole next-state relation. Build,
  Process and the performer run to completion without waiting on anyone, and
  every delete call returns or fails.
* `WebhookNotification` has weak fairness:
  * on the publisher loop;
  * on each hook's StartHook steps;
  * on the job run;
  * on the status hook.

  The jobservice runs every queued job and reports every status change. The
  retry loop and its failure count belong to the jobservice, outside this
  repository. So no run claims that every job settles. The fairness serves
  `RecordLeavesPending`: there, the record stays Pending even under it.
* `ReplicationFetch` has weak fairness on FetchArtifacts and the runner's
  steps (`Progress`). The call and the runner's goroutines wait only on each
  other. The model assumes that every client call returns, with a result or an
  error. Under that fairness, `RefinesFetchSpec` includes the abstract
  promise that the call returns.
* The other modules state safety only and assume no fairness. Their clients
  may stop at any point.

### Findings (violation runs)
1. `hook.go:72`: if `SubmitJob` fails and the update to Error fails too, the
   record stays Pending with no job behind it.
2. `pushmf.go:46`: the immutable check and the manifest write are not atomic.
   Concurrent first pushes overwrite a tag that the first push has just made
   immutable.
3. `tencentcdn/middleware.go:101`: `!(name != "s3" || name != "cos")` is always
   false, so the fallback for unsupported backends is dead code.
4. `notary/helper.go:88`: all callers share `/tmp/notary-cache`. A concurrent
   call can list against a root cached before the repository was re-created.
5. `pushmf.go:50`: every lookup error is taken for a first push. A database
   error lets a push re-point an existing immutable tag.
6. `notary/helper.go:93`: a listing that fails after the client cached the root
   returns before the removal. Once the repository is re-created, every lookup
   fails against that root and returns before the removal too, so the cache
   never recovers.

### Known gaps
* Quota charged by concurrent pushes. The amount is computed at request time
  and charged later. Two concurrent first pushes of blobs that are not yet
  associated both charge them. `UsageMatchesStorage` bounds this: the project
  is never undercharged, and it is overcharged only when pushes overlapped,
  which a ghost variable `overlapped` records. Whether the quota controller
  outside this repository corrects the overcharge later cannot be read from
  this code.
* Notary removal failure. `RemoveMayFail` models a failed `os.Remove`, which
  leaves the stale root for the next call. Both notary runs keep it FALSE, and
  the concurrent run also keeps `FailAfterRoot` FALSE, so each run shows one
  cause alone. The removal failure is described as a hazard.
* Weaknesses the properties accept. `EventsFollowOutcome` copies the
  overwrite of `MustNotify` (listed as a hazard). `UsageMatchesStorage` bounds
  the double charge of overlapping pushes rather than ruling it out.
  `SuccessImpliesDelivered` allows a duplicate delivery after a lost response.
* Transaction reset failure (`transaction.go:74`). When `res.Reset()` fails
  after a database error, the middleware only logs, and the client keeps the
  handler's buffered answer. Whether a buffer the middleware made itself can
  fail to reset is decided in `lib`, outside this repository, so the model keeps
  the reset succeeding. The case is listed as a hazard.
* A zero or negative CDN duration (`middleware.go:83`). It is accepted, and
  the URLs signed with it are expired when they are issued. Neither the code nor
  its comments promise a positive duration. The cdn run enumerates this option
  class and shows it accepted. The case is listed as a hazard, not as a finding.
* RBAC once-initialisation. The only concurrency in `HasPermission` is
  `sync.Once`, whose guarantee is the library's. The enforcer is casbin's.
* Webhook target aliasing (`util.go:34`). `Target: &target` is the address of
  the inner range variable, and the notifier handles the event on another
  goroutine. With a Go toolchain before 1.22, the targets of one policy share
  that variable, so a late handler sees a later target. The toolchain and the
  notifier are outside this repository. The model gives each event its own
  target, and the case is listed as a hazard.
* The notification middleware that sends the events is modelled only through
  its contract.
