# kubetidy: a verification project

kubetidy right-sizes Kubernetes workloads. An in-cluster operator keeps a
decaying usage history per workload in `UsageProfile` objects and publishes
`Recommendation`s and one `ClusterUsageSummary`; a command-line tool scans a
cluster (or manifests), computes recommendations from the best usage data it can
get, and turns them into reports, patches and pull requests; it also installs
and removes the operator. This directory models the parts whose correctness
depends on sequences of events, checks them with TLC and proves with TLAPS every safety
property that the passing runs check.

## 1. Inventory

| Component | State it keeps | Operations | Interacts with |
|---|---|---|---|
| Usage collector (`internal/operator/collector.go`, `run.go`, `sampler.go`, `lister.go`, `cmd/kubetidy-operator`) | `Collector.state`: live histograms, sample count and first-seen time per container | `Rehydrate`, `Tick` (`observeAndCheckpoint`, `recommendations`, `writeRecommendations`, `writeSummary`), `Run` | samples metrics-server, checkpoints through the store |
| Store (`store.go`) | none; the API server's objects | `Get`, `Save`, `SaveRecommendation`, `SaveSummary`: each up to three API calls | API server with status subresources and resource versions |
| Profile encoding (`snapshot.go`, `internal/apis/usageprofile`) | none | to and from unstructured objects; encoded histogram snapshots | store, operator usage provider |
| Histogram (`internal/histogram`) | bucket weights, total, maximum, reference time | `Observe`, `Percentile`, rebase, snapshot | collector |
| Rightsizer (`internal/rightsizer`, `internal/model`) | none | `Recommend`, `Confidence` | collector, scan |
| Scan engine (`internal/scan`) | results under a mutex, one slot per workload | a pool of workers analysing workloads, progress callbacks | usage provider, pricing |
| Usage providers (`internal/usage`) | none | operator profiles, Prometheus, metrics-server, with a fallback chain | scan |
| Installer (`internal/installer`, `cli/init.go`, `cli/uninstall.go`) | objects in the cluster | ordered apply with a wait for CRDs, extras, uninstall | API server |
| Recommendation building (`internal/recommend`, `summary`, `score`) | none | group by workload, worst confidence, totals | collector's tick |
| Pricing (`internal/pricing`, `costmodel`) | rates read once from OpenCost, or static ones | unit prices with a blended fallback, savings | scan, collector, `cost` |
| GitOps and patches (`internal/gitops`, `patch`, `cli/pr.go`) | none; the files it writes | select recommendations, render patches and the text of a pull request, write the files | file system |
| Cleanup and sweep (`internal/cleanup`, `cli/sweep.go`) | none | list seven kinds, one after the other; find what is unused among them; it deletes nothing | API server |
| Manifest comparison (`internal/manifest`, `cli/diff.go`, `cli/cost.go`) | none | match two versions of workloads, price the difference | pricing |
| Terminal UI, reports, discovery, API types | none of their own | formatting, listing | everything |

What is hard in them, and the properties that make them correct:

- **Collector and store.** The operator may die between any two calls, a call may
  fail before or after it took effect, `Create` and `Update` drop the status (so an
  object can exist without history), the memory is rebuilt from what was stored,
  templates change while a tick runs, and two instances may overlap. Correct
  means: a checkpoint never takes an observation away; what was observed is
  eventually stored; the window a profile claims covers its observations; the
  sample count never exceeds the samples; the whole protocol looks like atomic
  checkpoints.
- **Publishing.** `Recommendation`s and the summary are written in several calls
  after the checkpoints; a reader may see a spec without its status.
- **Scan engine.** Workers share a result and call back into the caller;
  one failing workload must not lose the others.
- **Installer.** Objects depend on CRDs that become established later; a failure
  half-way leaves a partial installation that a second run must complete.
- **Histogram, rightsizer.** Arithmetic at boundaries: bucket edges, rebasing,
  floors and roundings, in the order in which they are applied.
- **Usage providers and pricing.** Each source may fail, be empty, know some containers
  only, or answer in an order of its own; what is selected once speaks for a
  whole scan.
- **Change sets and the guardrail.** `pr` writes file after file into a directory that
  earlier commands have used; what it announces, what a merge does and what `cost`
  finds are computed by three different programs, with an author in between.
- **Sweep.** What it reasons about was listed at seven different moments.

`PROJECT.json` lists every hazard at its line with the properties that cover it.

## 2. Modules

| Module | Models |
|---|---|
| `Collector` | One or more operator instances: start-up, rehydration, ticks, every call of `Save`, crashes, failed calls, lost answers, deletions and redeployments |
| `DurableHistory` | What the operator promises of the history: atomic checkpoints of the memory, crashes that lose the memory only |
| `CollectorRefinement` | A single instance of `Collector` implements `DurableHistory` |
| `CollectorProofs` | Theorems about `Collector` for every value of its constants, and that it implements `DurableHistory` |
| `Publishing`, `PublishingProofs` | The rest of the tick: `Recommendation`s and the `ClusterUsageSummary`, saved call by call, and what is computed for them |
| `Evidence` | The usage providers: what each makes of its source's answer, the fallback, which one is selected |
| `Pricing` | Monthly costs and savings; OpenCost's rates with their blended fallback |
| `ScanEngine`, `ScanProofs` | A scan: composes `Evidence`, `Pricing` and `Rightsizer` with the pool of goroutines, the progress line and the headline of `Engine.Run` |
| `Histogram` | The decaying histogram: observations, rebasing, checkpoints, restarts, percentiles |
| `Rightsizer` | `Recommend` and `Confidence` as operators |
| `Sizing` | Composes the two: what the operator publishes and a scan proposes from one history |
| `SizingProofs` | Theorems about `Sizing` for every policy, bucket layout, clock and history |
| `Installer`, `InstallerProofs` | `init` and `uninstall` on a cluster that establishes and deletes in its own time, beside a running operator |
| `Sweep`, `SweepProofs` | `kubetidy sweep`: seven lists of a changing cluster and the four detectors |
| `Review`, `ReviewProofs` | The loop around a repository: `kubetidy pr` and its change sets, authors, `kubetidy cost` as a guardrail in CI |
| `Arithmetic` | Lemmas of the proofs about induction, sums, quotients, orders and powers of 2; nothing of the program |
| `MC...` | Values for the constants of the module of that name |

### Collector

`state[o][w]` is `Collector.state` of instance `o` restricted to workload `w`: a
partial function from container names to the live histograms, the sample count
and the first-seen time. A histogram is the set of seconds whose readings it
holds: enough to tell lost, invented and kept observations apart, and nothing
of its numbers. `stored` and `status` are what the API server holds: the objects
that exist, and their status (an object whose status was never written has
`EmptyStatus`, as `FromUnstructured` reads it). `template` is what the lister would
return; `listed` is the part of the last listing the instance has still to visit,
so a tick works on a template that may have changed since. `save` is the `Save` under way and
`fresh` whether the resource version it carries is current.

The actions follow the program's calls: each API call is one action (`SaveGet`,
`SaveCreate`, `SaveUpdate`, `SaveStatus`), because another process may act between
two of them; `SaveFails` is any of them failing before it took effect, the second
outcome of `SaveCreate` is the answer lost after it did. `ObserveAndCheckpoint`
is the whole of `observeAndCheckpoint` up to the first call of `Save`:
folding the samples in and building the profile happen in one goroutine
without a call in between. An error ends the `Save`, never the tick (`Return`).
`Start` and `BootList` are `main`; `Crash` is also an orderly shutdown, since `Run`
does not checkpoint on `ctx.Done`.

`synced` and `taken` are history variables: the workloads whose profile the
instance has read back or written, and the samples really taken.

Workloads are visited in any order, a superset of the lister's order. A profile
that fails to parse is not modelled: only somebody editing the object produces one.

### Publishing

An instance is its `phase` (idle, before the next save, or at one of the later calls
of a save), the
`queue` of objects it has still to save in this tick, the `object` under way, the
advice `recs` and time `at` of its tick, and whether the resource version it carries
is `fresh`. `objects` is the API server. `SaveGet`, `SaveCreate`, `SaveUpdate` and
`SaveStatus` are the calls of `SaveRecommendation`, `GetFails` and `SaveFails` their
failures; those of `SaveSummary` differ in that the summary has no spec, and an
existing one has its status written without an update before.
`Write` outdates what every other instance has read; `SaveRefused` is the conflict
that follows. `Abandon` is an error of one save, after which the tick goes on
(`collector.go:212`).

The advice of a tick is chosen from `Advices`, since the collector's histograms are
modelled in `Collector` and the arithmetic in `Rightsizer`. A status is kept as the advice it is
computed from; score, net savings, targets and efficiency are operators on it
(`ScoreFor`, `Net`, `TopTargets`, `Efficiency`; `Rank` is what a `Recommendation` says of its workload), with percentages rounded down where the code
has floating point. `now` and `to` of a piece of advice are the cost of the current
and the proposed requests, for the price and for its proxy in `score.go` alike.

### ScanEngine, Evidence, Pricing

The actions of a goroutine are the steps other goroutines can see: its slot is
written (`Analyze`), the counter is incremented (`CountDone`), the progress line is
told (`Report`), and the two deferred calls (`Release`, `Leave`). `Spawn` takes the
token before it starts a goroutine. What is true of the cluster (`site`) and of each
workload (`world`) is fixed beforehand, so that what a scan must find does not depend
on when it asks: the requests of its containers, its recorded profile, and the readings
that Prometheus and metrics-server would answer with.

`Evidence` turns readings into usage. `FromMetricsServer` averages the pods;
`MergeResults` is nondeterministic, since the series of a query come in any order and of
those with one container label the last one stays; an unreadable profile is "no
data", and `Fallback` asks metrics-server only if the operator's answer is empty. A reading
says whether its pod is the workload's own, as neither the regular expression nor the
label selector is exact. `SelectUsageProvider` is the cascade of `cli/scan.go`.

`Pricing` has whole numbers: rates are rounded up, and prices are per unit of CPU and of
memory. `HasCostData`, `Blended` and `ByWorkload` are what `buildProvider` makes of an
answer, pseudo buckets left out.

A finding is a container's requests, the proposal of `Rightsizer` for its usage, and what
it saves by `Pricing`; it is kept unless it is noise. `DominantTiers` is the set of answers that
the random order of a Go map allows; `HonestHeadline` shows that it has one element.

### Review

`main` is what is merged and runs; `need` is what usage asks for. `Generate` is the scan
and `gitops.Build` of one `kubetidy pr`: the selection, sorted and cut. Its prices are
chosen anew from `Prices`, a price for each workload, because `selectPriceProvider` takes
what it finds at that time: OpenCost's, or the default with the command's flags. They are kept with the
command and what it announces. `cost` has one price of its own for everything, `Rate`
(`manifest.DefaultPrice`, or its own flags). `WriteFile` writes the next patch into `dir`; `WriteFails` ends the command anywhere, with or without a file that
holds less than it should. `Announce` is the body and the summary. `OpenBranch`
merges all of the directory as a strategic merge does. The files name their
container only, so the author tells whose they are by their names. `Guard` is `kubetidy cost --fail-over`
on main and branch. `Propose` is anybody else's change. Authors, CI and the cluster are external.

Two counts of the bill are kept apart because the code does: `FleetCost`, where
a DaemonSet is a pod on each node (`kube.Discover`), and the one of `cost`, where it is one pod.

### Histogram, Rightsizer, Sizing

`weights`, `total`, `ref` and `max` are the fields of `Histogram`; `snapshot` is what
`ToSnapshot` stored last; `seen` and `kept` are history variables, the observations
the histogram and the snapshot should stand for. Times are whole half-lives, so a
weight 2^(t - ref) is an integer in units of 2^-MaxTime and nothing is rounded. The
half-life stored in the snapshot is that of the process: a changed flag is not modelled.

Fractions of the policy and of confidences are percentages. The logarithm of the
sample count is taken to base 2 and rounded down, which keeps what is said of it here
(it grows with the count). One histogram stands for CPU and memory of a
container; idle readings are not observed. `Scanned` is a proposal before the
noise filter of the scan, which is in `ScanEngine`.

### Installer

A command is the sequence `todo` of calls that `Install` or `Uninstall` makes, ended by
the first that fails. `phase[x]` is what the API server says of object `x`: absent, created
(a CRD not yet established), ready, or terminating (a namespace or CRD whose contents
go first). `pod` and `records` are the operator and what it has written.
`hasty` tells histories in which a command was given while deletions of another
went on: the code does not wait for deletions, and such commands promise nothing.
The prompt, `--print` and the image override are left out.

### Sweep

`listed` grows by one list per call, in the code's order; between any two calls the
cluster may change (`Apply`, `Remove`). `Detect` is the four detectors. `past`
remembers what the cluster has been since the sweep began. Costs and rendering are
left out.

## 3. Runs

| Run | Instance | Shows |
|---|---|---|
| `single` | `Collector`: 1 instance, 2 workloads of 1 container, 2 seconds, counts to 2, 2 disruptions; every call about one workload may fail forever | counts hold through crashes, failures, deletions and redeployments, and every observation becomes durable |
| `containers` | `Collector`: 1 instance, 1 workload of 2 containers, 3 disruptions | windows and history with templates that change, and the refinement of `DurableHistory` |
| `inflation` | `Collector`: 1 instance, 2 containers | **violation**: a restart inflates the sample count |
| `publish` | `Publishing`: 2 instances, 3 workloads and the summary, 2 places in its list of targets, 1 disruption, calls about one workload fail at will | a status is written only below the spec of its own tick; everything else is published again and again; scores and targets rank as promised, where the list is cut too; following advice never lowers the efficiency score |
| `scan` | `ScanEngine`: 3 workloads of 2 containers, 2 workers, 6 clusters, 5 sites | the limit holds, the result is that of a sequential loop, progress is complete, headline tier, caveat and waste are those of the findings, the operator's warm-up loses nothing, a single pod's peak is covered, what shrinks saves, the scan ends |
| `replicas` | `ScanEngine`: 1 workload of 2 pods | **violation**: the proposal may rest on the smaller of two memory peaks |
| `history` | `Sizing`: 3 observations at times 0..5, threshold 2, 3 buckets | percentiles are those of the decayed observations, weights are bounded, memory covers the peak, single samples are used with caution, longer histories earn trust |
| `mirror` | `Sizing`: times 0..3 | **violation**: the operator publishes something else than a scan would |
| `commands` | `Installer`: 6 commands, 1 failure | what reports success is there; no operator without its CRDs; what others use is kept; trying again converges |
| `sweep` | `Sweep`: 10 objects (two of them versions of others), 3 scopes, 2 changes in each sweep | what is found and is not new was so at some moment; nothing ran all along in a namespace that is found; what could be tidied all along is found |
| `review` | `Review`: 3 workloads, 2 containers, 2 repositories, 2 usages, 2 sources of prices, a budget of 4, 2 events | what is announced is in the directory; its headline is what the bill goes down by at the prices of its scan; `cost` finds as much where its price is theirs, and no increase where requests only fall; nothing above the budget is merged |
| `guardrail` | `Review`: a manifest with quantities written as numbers | **violation**: a change above the budget passes |

Bounds.

- `Collector`: `MaxNow = 2` gives an earlier and a later second, which is what every
  property compares. `MaxCount` saturates sample counters. `MaxDisruptions` bounds
  crashes, failed calls, deletions and redeployments together: three allow a failed
  write, a crash and a failed read or a redeployment in one behaviour, which is what it
  takes to lose history (the proofs are not bounded).
- `Publishing`: `MaxNow = 2` distinguishes a tick from the one before; the clock
  stays at its bound, so that liveness is about statuses of the last instant. One
  disruption suffices to crash between a spec and its status, besides the
  failures of `Flaky`, which have no bound. Three workloads compete for
  `TopN = 2` places: the one that gains most is the second by name, the others tie, and one of them is
  cut off. The other advice has one workload, which grows by more than it gains, so that there is room in
  the list. Statuses of both meet, since each tick chooses and calls about one workload may fail.
- `ScanEngine`: three workloads are one more than the workers; ties of tiers and a
  failing workload among others are possible. The sites reach each provider and each
  price source, each with a failure; the clusters have partial profiles, unequal containers,
  pods of others and a workload scaled to zero. `Lookback = 2` hours is mature, as the
  default of the command is.
- `Sizing`: `MaxTime = 5` and `Threshold = 2` allow two rebases of three observations
  and a clock that steps back; the values hit two buckets' bounds, a value between them and one above
  all bounds. Mebibytes of 4 bytes, a mature window of 3 hours and 2 mature samples
  let roundings, floors and maturity change within those bounds.
- `Installer`: one failed call or interruption, in any command of any sequence; the number of
  commands is not bounded.
- `Review`: the file names of two containers collide (of workload `api` in namespace `shop-web` and
  `web-api` in `shop`), one workload is a DaemonSet, one has no replicas
  set; usage can shrink everything or trade memory for CPU. The trade pays at the price that
  OpenCost has for its workload and costs at the default; other workloads have
  OpenCost's blended price. Adding a workload costs exactly the budget. Two events let a write
  fail and a second command, or another author's change, follow it. Commands, branches and
  merges are not bounded. Prices, noise floor and budget are scaled to amounts of a few units.
- `Sweep`: two changes let a pod be replaced between two lists; sweeps follow each
  other without bound, so that each begins in any cluster that can be reached.

Deadlock is checked in every run; a scan that has returned stutters explicitly.

Fairness.

- `Collector`: the kubelet restarts a dead process and `Run` ticks forever, so
  `Step(o)` is weakly fair. A workload that runs is sampled with a
  result again and again however often metrics-server has nothing for it: strong
  fairness of `Observe(o, w)`. Failures of calls are limited, except about `Flaky`.
- `Publishing`: `Retire(o)`: a rolling update ends; and `Step(Newest)`, of the instance that it leaves, as
  above. Nothing is assumed of the others.
- `ScanEngine`: the Go scheduler runs every goroutine that can run, and each call returns,
  if only with an error (the requests carry a context).
- `Installer`: a command goes on, establishing and deleting come to their end,
  and the user repeats a command that failed (`Again`), which is what the
  documentation of `init` advises.

## 4. Findings

- `inflation`: `Rehydrate` gives every container the sample count of the whole profile
  (`collector.go:330`), `buildProfile` adds them up (`collector.go:395`). With *n*
  containers every restart multiplies the count by *n*, against
  `usageprofile_types.go:60`; the count feeds the confidence of recommendations.
- `mirror`: `recommendations` (`collector.go:249`) builds its usage statistics without the
  window, so that data maturity is zero: what is published keeps the immature
  memory headroom and the least confidence for ever, against "mirroring what a scan would
  compute" (`collector.go:235`).
- `replicas`: `memMaxQuery` does not aggregate over pods and `mergeResults` keeps the series that
  comes last for each container label (`prometheus.go:186`), so with several replicas a
  request is sized by the peak of an arbitrary one, against `prometheus.go:90`.
- `guardrail`: `containerFromMap` drops the error of `NestedStringMap` (`manifest.go:99`): one
  quantity written as a number (`cpu: 2`, which Kubernetes accepts) and the container costs
  nothing in `kubetidy cost`, so that a change above `--fail-over` passes (`cost.go:34`).

Met on the way, and not runs:

- With a container added to a workload that the operator has recorded, a scan covers
  less than without the operator until the next tick (`fallback.go:37`, `scan.go:139`); a
  profile with some containers hides the others from metrics-server.
- A number on the progress line can be followed by a smaller one (`scan.go:74`): counting and reporting are two steps.
- `docs/design/operator.md:155` speaks of leader election; there is none in `main.go` or `run.go`.
  A rolling update overlaps two instances, each of which writes whole statuses from its own
  memory (`store.go:89`, `:95`): with two instances `HistoryKept` fails in `Collector`.
- A proposal to have no CPU limit is left out of the patch (`patch.go:83`), so that a strategic
  merge keeps the limit there is, even below the new request.
- `uninstall --keep-crds` deletes the operator's namespace (`installer.go:261`), where the one
  `ClusterUsageSummary` is kept (`assets/operator.yaml:9`), against `installer.go:221`; `OthersKept`
  speaks of the other records.
- A patch file holds neither kind nor name, so the `kubectl patch -f` of the pull
  request's body (`gitops.go:152`) cannot find its object. Files of earlier commands stay in the directory,
  and names of two containers can collide (`gitops.go:100`): `SavingsAreReal` and
  `CompleteWhenAnnounced` except both.
- A DaemonSet is a pod on each node in a scan and one pod in `cost`; a workload of zero
  replicas is billed as one in both.
- `cost` uses the default prices where `pr` may use OpenCost's, or those of its flags (`cost.go:51`,
  `scan.go:239`). A change set that saves at the prices of `pr` may therefore be an increase for `cost`, and be
  refused by the guardrail: one container trades memory for CPU, or one workload shrinks and another
  grows. `SavingsAreReal` compares the two only where the prices agree; where
  they differ it promises that a change set whose requests only fall is no increase.
- The regular expression for a workload's pods matches those of any workload whose name begins with
  its own (`prometheus.go:283`). A Prometheus that answers with no series is taken for
  one that works (`prometheus.go:70`).
- The operator provider turns every error into "no data" (`usage/operator.go:44`), so a
  scan that cannot read profiles falls back without a warning.
- `Recommendation`s of deleted workloads stay: `recommend.go:35` leaves them to the caller, which does nothing.
- The summary's gains count shrinking containers only, a `Recommendation` nets them.
- A sweep lists pods before claims and workloads before namespaces, so what is created in
  between together with its user is reported as unused.

## 5. Proofs

`CollectorProofs` proves, for any sets of instances, workloads and containers and
any bounds (the assumptions are those `Collector` states of its constants):

- `TypeCorrect`: `Spec => []TypeOK`. The type invariant carries that a `Save` is
  under way exactly in its phases, which makes it inductive.
- `WindowCorrect`: `Spec => []WindowCoversHistory`. Inductive is `WindowInv`: the
  window must hold of drafts not yet written too, and no slot or profile may be stamped with a
  time to come; otherwise a restart could move the start of the window past
  the histories it restores.
- `HistoryCorrect`: with one instance, `Spec => HistoryKept`, an action property. Inductive
  is `AheadInv`: what is stored of a synced workload is in memory, a draft is the
  memory it was built from, an absent profile is empty, and a fresh resource
  version is that of an existing object. With two instances TLC finds the action
  property violated, so the assumption is needed.
- `CountCorrect`: with one container per workload, `Spec => []SampleCountSound`.
  The run `inflation` shows that the assumption is needed.

`StepKinds` splits a step into those that leave memory, profiles and drafts alone and the six
that do not; each invariant is then proved for those six.
- `Implements`: with one instance, `Spec` implements `DurableHistory` under the mapping
  of `CollectorRefinement`. Besides the invariants above a step needs two facts: nothing is
  in memory before the profiles are read back (`MemoryEmpty`), without which a
  rehydration could overwrite what was observed; and a draft is the memory at the
  moment it is written (`DraftIsHistory`), because a tick does not observe while it
  saves. `PhaseStep` and `StepKinds` reduce the actions to those that move the abstract state.

`SizingProofs` proves, for every policy, bucket layout, mebibyte, half-life and history,
clocks that step back included:

- `PeakCovered` and `SnapshotCautious`. Inductive is `PeakInv`: the histogram's maximum
  bounds what it has seen and the snapshot's maximum what was checkpointed, which a
  restart exchanges. The rest is arithmetic: `Unclamped`, that the request before
  clamping is no less than the peak and the floor.
- `TypeCorrect`, `WeightsStayBounded` (`WeightsAreBounded`) and `PercentilesTrue`
  (`PercentilesAreTrue`). Inductive is `HistInv`, in which `Represents` says of the histogram
  and of the snapshot alike that each bucket's weight is the count of its observations (an
  observation at time t counts 2^t) scaled by the reference time: without the reference in the
  snapshot, or with a rebase that scaled buckets and total differently, it could not be
  kept. `RebaseIsExact` shows that a rebase divides without a remainder, `DecayIsScaled` that
  late and early observations weigh by the same scale, `WeightsAddUp` that the buckets up
  to one weigh what their observations count; a common factor then cancels out of the
  comparison of shares (`SharesCompare`), and least bucket and least bound agree (`LeastBound`).
- `TrustIsEarned` (`HistoryEarnsTrust`), an action property. `MaturityGrows` shows that maturity is
  monotone in window and samples, `ConfidenceGrows` and `RequestFalls` what follows of
  confidence and, through headroom and both roundings, of the memory request. `KeptInv`, that a
  snapshot holds no more observations than the histogram, excludes that a restart adds one.

`ScanProofs` proves, for any number of workloads and workers, all clusters and sites:

- `TypeCorrect` and `PoolLimit` (`WorkerLimit`). Inductive is `PoolInv`: the tokens in the
  channel are as many as the goroutines running, the WaitGroup counts those not gone, and no
  goroutine runs whose turn has not come. The rest are lemmas about cardinalities of such sets.
- `ProgressComplete`: also from `PoolInv`, in which the counter is the number of workloads
  that have counted, and what they got from it are the numbers up to it.
- `Sequential` (`ResultIsSequential`) and `CoverageNeverLost`: inductive is `SlotInv`, that a slot is
  empty or holds one analysis of its own workload, and the result is the union of the slots.
- `PeakCovered` (`PeakOfOnePodCovered`) and `SavingsHaveTheirSign` (`ShrinkingSaves`): facts about
  every analysis that `Evidence`, `Rightsizer` and `Pricing` allow, for any readings and any OpenCost answer.
  That rates are never negative, and that rounding them up keeps the order of two costs, is
  part of the second.
- `HeadlineIsHonest` (`HonestHeadline`): `HeadlineInv` says what `Return` leaves; that the random
  order of a map does not show needs that its winner beats every other tier (`DominantLeads`), and the waste that
  a sum over workloads of sums over their findings is the sum over all of them (`SumOfFamily`).

`PublishingProofs` proves `TypeCorrect`, and `StatusCorrect`: `Spec => StatusFollowsSpec` for
any number of overlapping instances. Inductive is `PubInv`, in which `Knows(o)` says that who is
past its Get with a fresh version has in its hands an object that exists and, before the status, has
its own spec; a write makes the versions of all others stale, so that it disturbs nobody's.
`ScoresRankWell`, `AdvicePays` and `TargetsLeadAll` add `AdviceInv`: what a tick has in its
hands and what a status was computed from is one of `Advices`, with a workload of its own. The rest
is about any advice: sums of costs, how their roundings compare (`QuotientCompares`), and that the places in a
strict order are a bijection with the numbers below its size (`PlacesOfOrder`).

`SweepProofs` proves `TypeCorrect`, `FindingsHold`, `NamespacesIdle` and `NothingMissed`, for all
universes, scopes and numbers of changes. Inductive is `SweepInv`, whose part `Moments` says that the cluster is one of
`past` and each list was true at one of its moments; each property is then a fact about `Detect`. `NamespacesIdle`
says that what runs in a namespace that is found was not there all along: had it been, the list of its
kind would hold it, at whatever moment that was made.

`InstallerProofs` proves `TypeCorrect` and, for all sets of commands and any number of
failures and interruptions:

- `Installed`: `Spec => []CompleteIsInstalled`. Inductive is `OnTheWay`: while an install runs
  nothing is going away, each of its objects is there or still to be applied, and each
  CRD is established or still waited for. `InstallCovers` shows from the order of the
  calls that it holds when the install begins. `Errand`: the calls left are calls of the command.
- `CRDsFound`: `Spec => []OperatorFindsCRDs`. Inductive is `CRDsFirst`, which relates the
  calls left to what commands before have left: an operator that is there has all CRDs; in an
  install each missing CRD is waited for before the operator is applied, in an
  uninstall the operator goes before the first CRD does.
- `OthersAreKept`: `Spec => OthersKept`, an action property; `CRDsStay` says that CRDs to be
  kept are not on their way out.

`ReviewProofs` proves, for all repositories, usages, changes and budgets, from
`ReviewInvariant`: `Spec => []ReviewInv`:

- `TypeCorrect`, `Complete` (`CompleteWhenAnnounced`) and `HeadlineIsReal` (`SavingsAreReal`). `ReviewInv`
  says in parts what each place holds: of a running command, that what it has not yet to write
  is in the directory and nothing is announced (`Pending`); of an announcement, that
  it is a change set of some scan whose files the directory holds (`Announced`); of a branch with
  a change set, that its head is main with nothing but those containers patched
  (`UnderReview`). The headline then is a sum over containers of the differences that the merge makes,
  at whatever prices the scan found for each workload. What `cost` finds is the same sum at
  `Rate`: equal where the prices agree, and where requests only fall no term of it is an increase.
- `BudgetIsKept`: if all quantities in manifests are strings (`QuantitiesAreStrings`),
  `Spec => BudgetHolds`. The hypothesis is needed: the run `guardrail` violates `BudgetHolds`
  with one quantity that is a number. `StringsInv` keeps it through merges, since patches write strings.

`Arithmetic` has what these proofs share. Induction with an operator parameter is
out of the provers' reach, so it is stated over sets: `NumberInduction` and `SetInduction` are about the
set of the numbers, or of the subsets of a finite set, of which something is true, and rest on
the well-foundedness of the natural numbers. `SumExists` and `SumIsUnique` then give a
meaning to the community modules' folds, from which the laws of sums follow. The provers know
no laws of powers: `PowerDoubles` takes them from the number of subsets of 1..n.

Assumptions. Most only type the constants. The others, and why the code justifies them:

- `NoneIsNoName`, `NoneIsNoSave`, `NoneIsNoTime`, `TruncatedIsNoPatch`: what stands for nothing, or for half a file, is
  none of the values it is told apart from.
- `BoundsGrow`: `histogram.New` multiplies each bound by a ratio above 1.
- `DefaultIsPolicy` and `SpecsAndPolicy`: the fields of `DefaultPolicy` are not negative.
- `ConfiguredIsPositive`: `pricing.DefaultConfig`, which only flags above zero override (`cli/scan.go:240`).
- `AdviceKeepsFloors`: a request is kept or set to at least a floor, so that what costs something goes on to.
- `PlacesDiffer`: the sort of `gitops.go` is stable, so ties stay in the order of the scan, in which no two containers
  have one place.
- `PricesAreTyped`: a price for each workload, never negative, which the providers see to (`ScanProofs`).
- `NeedsAreAmounts`, `MainsAreRepositories`, `ChangesAreManifests`: what usage and authors may ask for, as types.

Only model-checked: the liveness properties `EventuallyDurable`, `EverythingPublished`,
`Terminates` and `Converges`, since fairness needs ENABLED. Of the runs that pass, every other
invariant and action property is proved, and the refinement.

## 6. Not modelled

- The terminal interface, progress rendering and reports (`internal/cli/tui.go`,
  `progress.go`, `internal/report`) and the text of pull requests: layout of what the
  models compute.
- The API types and generated deep copies: their fields appear as records.
- CPU and memory limits in patches, the JSON around them, and the image or the texts of the
  installer's manifests.
- The three lists of discovery as three moments (`internal/kube`): the sweep has the same hazard with
  seven, and a scan that misses a new workload finds it the next time.
- The table of instance types in `internal/pricing`: nothing fills `NodeLabels`, so no call reaches it.
- The tick as one: the advice of `Publishing` is chosen from a set and not taken from what `Collector`
  holds. The two halves of a tick meet in the histograms only, and `Sizing` has the way from a
  history to what is published.
- Malformed profiles and snapshots, which only somebody editing the objects produces.
