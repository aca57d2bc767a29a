# Verification project for any-hub

any-hub is a caching reverse proxy for package registries (Docker, npm, Go,
PyPI, Composer, APT, APK). One process serves several hubs; a hub is a host
name, an upstream and a module that knows the conventions of its ecosystem.
Requests are served from a disk cache that mirrors the upstream's paths, are
revalidated against the upstream when the module's policy asks for it, and are
fetched and stored when the cache cannot answer.

This directory holds TLA+ models of the parts in which something can go wrong
that a test hardly reaches: the per-key locks of the cache store, the store's
system calls, the names of its files, the proxy handler's cycle of lookup,
revalidation, fetch and store with its in-memory ETags, the registry.k8s.io
manifest fallback, the composer module with its in-memory archive URLs, and the
way from a configuration file to routes, and from a request to a hub, a URL and
a file. `PROJECT.json` lists the runs, what each checks, which source lines every
definition stands for, the hazards and the findings.

Conventions: `M.tla` is a component, `MCM.tla` gives it the definitions a run
needs, `*.cfg` is a run, `M_proof.tla` holds the theorems about `M`. Operators
that start with a `(* Mutant: ... *)` comment are wrong variants of the operator
that follows them; exchanging the two must break the property named in
`PROJECT.json`.

## 1. The system

| Component | State | Operations |
|---|---|---|
| cache store (`internal/cache/fs_store.go`) | files below `<storage>/<hub>/`, `<body>.meta` files, a table of entry locks with reference counts | `Get` (stat, open, read metadata; no lock), `Put` (lock, temporary file, copy, rename, chtimes, metadata), `Remove` (lock, body, metadata) |
| strategy writer (`internal/cache/writer.go`) | none (strategy of the route) | `ShouldBypassValidation` (TTL), `SupportsValidation`, `Put` |
| proxy handler (`internal/proxy/handler.go`) | `etags`: locator to ETag or digest, in memory | `Handle`: look up, `isCacheFresh` (conditional HEAD), `serveCache`, `fetchAndStream`, `cacheAndStream`, one retry after 401/429, fallback for registry.k8s.io |
| forwarder (`internal/proxy/forwarder.go`) | handlers by module key, written at startup | pick a handler, turn a panic into a 500 |
| hooks and module registries (`internal/proxy/hooks`, `internal/hubmodule/registry.go`) | hooks and metadata by module key, written by `init` functions | register, look up, report missing hooks |
| modules (`internal/hubmodule/*`) | composer: upstream URL of every dist it has seen, in memory; the others none | normalise paths, resolve upstreams, rewrite bodies, cache policy |
| hub registry and router (`internal/server`) | routes by host name, built once | validate the configuration, route by Host, refuse unknown hosts |
| configuration (`internal/config`) | none | load, default, validate |
| diagnostics, logging, command line | none | read-only views, output, startup |

Interaction: the router hands a request to the forwarder, the forwarder to the
handler; the handler calls hooks (pure, but for composer's table), the store and
the upstream. Requests run in goroutines of their own. They share the store's
files and locks, the handler's `etags` and composer's table, and nothing else.
There are no queues and no background jobs.

What is hard:

* *Entry locks.* A lock object is found under `s.mu` and locked outside it,
  while its last user deletes it from the table.
* *Three reads, three writes.* `Get` reads body, time and effective path in
  three calls without a lock; `Put` writes them in three calls. The caller can
  fail or the process die between any two.
* *Two memories.* The handler believes an entry because of an ETag kept
  elsewhere. The ETag changes without the body (HEAD requests, failed fetches),
  the body without the ETag (interrupted or reordered `Put`), and a restart
  forgets one and not the other.
* *The upstream moves on.* Versions appear and disappear between the HEAD, the
  GET and the `Put` of one request, and requests overlap.
* *Time.* Freshness by Last-Modified, by the local clock where the header is
  missing, and by a TTL counted from the entry's modification time.
* *Names.* A locator becomes a file name; entries that are also directories,
  `.meta` files and the root entry share one name space. So do hubs whose names
  nest, and what a hub stored before its configuration was edited.
* *Several forms of one thing.* A host has many spellings, a path is looked at
  before and after its normalisation, a policy is asked about a locator and not
  about a path, and a TTL has three sources.

What makes the components correct: one writer per key and no leak in the lock
table; readers see whole bodies and, when no writer interferes, one entry; a
failed `Put` leaves the old entry; a hit that had to be revalidated is not older
than the request; a hit within the TTL was superseded less than the TTL ago;
only 200 answers to GETs are stored; a request reaches the hub its Host names,
and is answered with what this hub stored for its URL; what is served without
asking does not change or is younger than the TTL; what `--check-config` rejects
does not start, and what it accepts does. Where the code falls short of this,
the properties say by how much, and section 5 why.

## 2. The modules

```
KeyedMutex   <---implements---  EntryLock   <--- EntryLock_proof
     (used as the Lock action of)
BodyRegister <---implements---  FileStore   <--- MCFileStore,
                                  FileStore_proof <--- FileStoreRegister_proof
     (used, reduced to body and time, by)
                                ProxyHandler <--- ProxyHandler_proof
                                  <--- ProxyCache_proof
     (cycle of ProxyHandler, one aspect each)
                                ManifestFallback <--- MCManifestFallback,
                                  ManifestFallback_proof
                                ComposerHub <--- MCComposerHub, ComposerHub_proof
     (names of the files of FileStore, and who asks for them)
CachePolicy <-- HubRegistry <-- StoreLayout <-- Service <--- MCService, Service_proof
```

**KeyedMutex** says what the store promises its writers: per key at most one
goroutine between `lockEntry` and the unlock it returned, and whoever asked gets
in. State: who wants or holds which key.

**EntryLock** is `lockEntry` and the closure it returns, one action per
statement that another goroutine can see: take `s.mu` (`LockMap`), look the key
up or create a lock object (`Lookup`), `refs++` and release (`Ref`), lock the
object (`LockEntry`), unlock it (`UnlockEntry`), take `s.mu` again
(`LockMapAgain`), `refs--` with the deletion (`Unref`). Lock objects are
explicit: a key deleted and created again has another mutex, which is what
would go wrong if the counter did. `ImplementsKeyedMutex` is the refinement,
fairness included.

**BodyRegister** says what `cache.Store` promises about bodies: an atomic
register of whole bodies per key, in which a failing call may or may not have
taken effect and a crash loses calls but no bodies.

**FileStore** is `Get`, `Put` and `Remove` system call by system call. `disk[k]`
is the body file, its modification time and the metadata file; `temp` and
`mtemp` are the temporary files of a running `Put`; the verdict of a call is in
`out`. A body is a version that is whole or partial; its right modification time
is named after the version, `Now` is the time a rename leaves behind. The entry
lock is one action here (`Lock`), justified by `EntryLock`. `PutAbort` are the
failures before the rename, `PutBreak` those after it; the removal of the
temporary file, whose error the code ignores, may fail in addition to either
(`Faults(2)`). `hurt`, `quiet` and `before` are history for the properties.

**ProxyHandler** is `Handle` for one locator. The upstream is a counter of
versions, some of which are deletions; `appeared` is when a version was
published, `dated` its Last-Modified, which is that instant or earlier, and in
any order unless `Orderly`. `pc[r]` is where a request stands: `lookup` and
`open` (`Get` takes the time from the stat and the body from the open, so a `Put`
between them gives one entry's body with another's time), `reval` and `headSent`
(the HEAD and its five kinds of answer), `judge` (a 200: remember the ETag,
compare times), `drop` and `forget` (a 404), `serve`, `fetch` (with the retry
after 401/429), `put`, `rename`, `times`, `remember`. A version stands for its
ETag; the handler remembers tags without their quotes, and an upstream may or may
not recognise one, so a HEAD with the current tag is answered 304 or 200. The
validators a HEAD carries are the remembered ETag, else those the client sent
(`cond`), because the client's headers are copied into every upstream request.
Answers without Last-Modified get the local time, which is `now` when stored and
later than everything stored when compared. `Rewrites` says that the module has a
`RewriteResponse` hook, which turns a body that ends early into an empty one
(`cut`). The policy of the module (`RequireRevalidate`), its strategy (`TTL`,
`SupportsValidation`) and the habits of the upstream (`Tagged`, `Dated`) are
constants. `own` (the time of an entry is the one that the `Put` of its body gave
it), `first` and `how` are history. The request for a token is part of the
refused call that it follows; calls to fallback paths are in `ManifestFallback`.

**ManifestFallback** is the same cycle for the manifests of a registry.k8s.io
hub. A path is the sequence of its segments; `up` says which paths the upstream
has. `Fetch` meets a 404 and goes on to `Fallback` if `Eligible`; a refused call
is made again once in either (`Retry`). The cache is `body` and `meta`, the
effective path, which `Get` reads and `Put` writes one after the other, so a
request may pair a body with the path of another (`stirred`) or meet what an
interrupted `Put` left (`hurt`). `Revalidate` asks for the effective path, and
`Drop` removes the entry on a 404. Whether a 200 to the HEAD means fresh is left
open: that is the subject of `ProxyHandler`. `gone`, `hurt` and `stirred` are
history.

**ComposerHub** is a composer hub with its clients. `Listed[v]` are the
references and archive URLs in version `v` of the metadata; `known` is
`composerDists.items`. A client asks for metadata, or for an archive its copy of
the metadata lists, by a mirror URL (`Mirror`, resolved with `known`) or a
rewritten one (`Legacy`, which says itself where it leads). `Rewrite` teaches the
registry and is where the body is read as a whole; `Cut` is a body that ends
early there. `Restart` empties the registry and keeps the cache. `since` in a
body and `forgot` in an answer are history.

**CachePolicy** is what the `cachePolicy` hook of each module makes of a locator
and a method: pass it through, store and revalidate it, or store it and serve it
as it is. The tests on prefixes and suffixes of file names are the relation
`Looks`, which the MC module lists for the names it uses.

**HubRegistry** goes from a configuration file to routes: `Loaded` (defaults and
normalisation), `Valid` (every rule of `Validate`), `Registers` and `Registry`
(`NewHubRegistry`), with `NormalHost` for `normalizeHost` and `TTLHint` for the
choice among the TTLs. A file is a record, a host the sequence of its tokens:
names, numbers and the `Marks` `:`, `.`, `[`, `]`, which are neither
(`MarksType`).
`Tokens` is what names, hosts and paths consist of, a constant: any strings in
the runs, and in the proofs any set that has the tokens the code adds itself
(`Added` in `StoreLayout`).

**StoreLayout** is the way from a request to a URL and to a file, as functions:
`Normal` and `Links` (the hooks of docker, pypi and composer), `Url`
(`resolveUpstreamURL`), `Locator` (query, npm rewriting), `EntryPath`,
`MetaPath`, and what `Get`, `Put` and `Remove` do on a disk where the name or a
part of it is taken by another entry, by its metadata or by a directory. A `Put`
whose body ends early leaves the directories it has made (`BrokenPut`). `Answer`
is what the upstream answers by: URL, method and the client's headers, and the
domain its links lead to; of the method and the headers nothing is left in a
locator. Names are sequences of segments, and segments `.` and `..`, which
`filepath.Join` resolves, are left out. npm
rewriting looks for the query of a locator at the first `__qs` segment (`Core`),
even if that was part of the path. Other
modules than npm do not change a locator that is already clean.

**Service** is the process. `site` is a deployment, chosen at the start: the
files its configuration goes through, the requests it gets, the URLs whose
answers change. `Edit` changes the file, `Check` is `--check-config`, `Start`,
`StartRefused`, `StartFails` and `Stop` are `run` over a storage directory that
stays. `Serve` is one whole request: below `/-/` it is for the diagnostics
(`Diagnose`), without a route it is answered 404 (`Unmapped`), else `Handle` is
the handler, for any method: `Hit`, `Miss`, or `Drop` (the upstream answers 404
to the revalidation and the entry is removed), the last two with `Fetch`, whose
body is stored, passed on, or breaks off.
Requests come one after the other. `disk.files` maps an entry to the answer it
holds (see `Answer`), the hub that stored it as it
was configured then, whether that is still what the upstream says, and its age;
`last` is the last event and what came of it.

## 3. The runs

| Run | Question | Instance | Result |
|---|---|---|---|
| entry_lock | do the locks exclude, and nobody starves | 3 goroutines, 2 keys, 3 objects | 8,967 states, holds |
| file_store | coherence of entries, atomic bodies | 3 goroutines (symmetric), 1 key, 2 bodies (with and without effective path), 2 failures, 1 crash | 720,830 states, holds |
| proxy_storm | what revalidation and the TTL promise with everything going on, and what is stored | 2 requests, one of them perhaps a HEAD or conditional, 2 versions with any dates, TTL 1 of 2 instants, a rewriting hook, 1 restart, refusals, failures | 9,952,838 states, holds |
| proxy_head_stale | freshness with HEAD requests | 1 client, GET and HEAD, 2 versions | violated, see 5 |
| manifest_fallback | is the fallback taken, and an entry removed, only for cause | 2 requests (symmetric), a path and its fallback, 2 publications, refusals, 1 failing metadata write, 1 restart | 3,044,357 states, holds |
| composer_hub | are mirror URLs resolved and archives the right ones | 2 clients (symmetric), 2 versions of the metadata, 2 references whose URLs differ in the query only, 1 cut body, 1 restart | 729,925 states, holds |
| composer_cut | are only whole bodies cached | 1 client, 1 cut body | violated, see 5 |
| store_layout | do requests reach their hub, entries keep out of each other's way, and hubs serve their own, current, answers, whatever is edited | 12 deployments: a hub of each of 7 types with 4 to 8 requests (docker also at Docker Hub, the pypi hub with its domain edited; one list with two sets of headers), an npm and a go hub asked for odd paths, and 3 whose file is edited (TTLs and modes with a clock; names, domains, upstreams and types of two hubs; 56 files with every defect, and 15 spellings of a host) | 346,482 states, holds |
| check_config | is every file that the start refuses rejected by the check | 2 hubs whose domains name one host | violated, see 5 |
| layout_coexist | can a path and one below it be cached | 2 requests | violated, see 5 |
| upstream_path | is what is fetched below the Upstream | 1 apk hub, Upstream with a path | violated, see 5 |
| other_methods | do only reads get answers from the cache | GET and PUT of an npm document | violated, see 5 |

Bounds. Three goroutines are what it takes for one to delete a lock, one to
create the next and one to hold a pointer to the first; as many lock objects as
goroutines are never exhausted, since each goroutine uses one. Keys interact only
through the lock table, so `FileStore` needs one. Two failures and one crash
cover every interruption of a call, the failing removal after it and its repair
by the next; two bodies cover both shapes of an entry. Two overlapping requests
and two versions are what the races of the handler take, and one of the two is
enough to be a HEAD or conditional; two instants and a TTL of one tell "before
the TTL ends" from "at its end". The fallback path of one manifest is itself a
path clients ask for, so the two entries of `manifest_fallback` meet at the
upstream. In `composer_hub` the second version drops the reference of the first,
so that what the registry keeps matters. `store_layout` has one request for each
way in which names can meet (child, sibling, query, metadata name, below a
metadata name, root, short name, library name, other hub) and no bound on the
number of calls or of edits; ages go up to `MaxAge` = 2, one more than the TTL of
a module. Where a deployment has no clock, everything stored has an old
Last-Modified, so no TTL counts. Which resources change upstream is what the
modules' comments say (indexes and metadata do, packages and digests do not),
with one exception to keep in mind: Go's `/@v/<branch>.info` changes, and is
cached as if it did not. `MaxVer`, `MaxTime`, `MaxRestarts`, `MaxFaults`,
`MaxBreaks`, `MaxCuts` and `MaxCrashes` bound counters of the environment only.
Symmetry is used in runs without liveness properties. No run disables the
deadlock check.

Fairness is assumed in `EntryLock` and `KeyedMutex` only. A goroutine that can run
runs (`WF`). Waiting for a `sync.Mutex` is strongly fair: a waiter that starves
for a millisecond is handed the mutex. `UnlockEntry` is fair, that is, what a
writer does under the lock of a key ends; for `Put` this takes an upstream that
ends its body or breaks the connection, because the client of the handler bounds
the wait for headers only (`ResponseHeaderTimeout`, `http_client.go`). With a body
that stalls for ever, the writer and all who wait for its key wait for ever. That
is why `ProxyHandler` states no liveness property: that every request is answered
does not follow from the code. specs/001 (data-model.md:18) intends that bodies
may stream for longer than the timeout.

## 4. The proofs

`EntryLock_proof` (any sets of goroutines, keys and lock objects; goroutines
finite so that reference counts exist; `Nil` is not one of them):
`TypeCorrect`, `WritersExclusive` (`MutualExclusion`), `TableSound`
(`TableTracksUsers`), `PointersAlwaysCurrent` (`PointersCurrent`) and
`MutexPerKey`, that every step is one of `KeyedMutex` or none: the safety part of
`ImplementsKeyedMutex`. Exclusion alone is not inductive:
that a deleted lock has no user needs the counter, the counter needs the set of
users, and that needs to know who holds `s.mu` in which state. `Inv` says so in
named parts; each action has a lemma, and `TrackedNext` carries the counting
(the cardinality of the set of users changes by one) for all of them.

`ProxyHandler_proof` (any number of requests, versions, instants and restarts,
every combination of policy, strategy, headers and failures, Last-Modified dates
in any order): `TypeCorrect` and `RevalidationAlwaysSound` (`RevalidationSound`).
The property has three exceptions, each of which the code can get into: the
validator that was sent was another version's; a version since then has a date
that is not later; the entry has not the time of its own `Put`. The argument for
the rest: versions appear in order (`Clock`); an entry with its own time has the
date of its version (`EntryOK`), because whoever is between rename and chtimes
holds the lock and stores the body he fetched (`Locked`, `Storing`), and because
until its open a request with a time of its own sees the file it has stat'ed or
none (`Statted`); the answer to a HEAD describes a version that is not older than
the request (`Judging`). So "not after the entry's time" means an entry that is
not older than that version, or dates out of order, and a 304 for the entry's own
tag means that the entry is current. `Undisturbed` says once for all that a step
of one request does not disturb what another one knows, but for the rename that
takes its own time from whoever is between stat and open (`Overtaken`); `OneStep`
and `LocalStep` reduce every action to what it does to the request that takes it.
`FreshWithoutTags` delimits the finding about `FreshHit`: it holds with an
upstream that sends no tags and dates its versions in order and with clients that
send no validators, for entries with their own time, because nothing but `Nil` is
ever sent (`Untagged`).

`ProxyCache_proof` extends it: `CacheAlwaysHoldsAnswers` (`CacheHoldsAnswers`) and
`StalenessAlwaysBounded` (`StalenessBounded`). Each adds one part to the invariant
above. `Wholes`: bodies that are stored, or about to be, are those of resources,
whole ones or what the hook of a module left of one that ended early. `Times`: the
time of an entry that is its own, and the time a request is about to write, is one
at which that body was current, so a hit that was decided on within the TTL was
superseded less than the TTL before.

`FileStore_proof` (any sets of goroutines, keys, bodies and effective paths, any
number of failures and crashes; `Nil` is neither a body nor an outcome):
`TypeCorrect`, `AlwaysCoherentAtRest` (`CoherentAtRest`), `QuietGetsCoherent`
(`QuietGetCoherent`) and `TempsAlwaysRemoved` (`TempsRemoved`: what a `Put` leaves
behind is what it failed to remove, however many calls failed before). None is
inductive: that an entry at rest is coherent needs what its writer has made of it
after each system call (`WrittenOK`), that needs to know that whoever is inside a
section holds the lock of the key (`OpOK`), and that a quiet `Get` is coherent
needs that what it has read so far is what the disk still holds (`ReadOK`).
`OneStep`, `ReadStep` and `WriteStep` reduce an action to the goroutine that takes
it and the one entry it may touch.

`FileStoreRegister_proof`: `StoreImplementsRegister`, that `FileStore` implements
`BodyRegister`, the whole of it, for every value of the constants. A call begins
at `Begin`; `Observe` is the stat that misses or the open that succeeds;
`Effect` is the rename of the body, or its removal; `Succeed` is the last step on
the metadata; failures are `Fail`, returns are `Return`, a crash is a crash, and
every other system call is a stutter. It uses the invariant above where a body
that is renamed has to be whole. `RegisterNil` says that `Nil` is no call and no
answer of the register.

`ManifestFallback_proof` (any paths of manifests, any numbers of requests,
publications, failing writes and restarts): `TypeCorrect`,
`FallbackAlwaysJustified` (`FallbackJustified`), `NotFoundAlwaysJustified`
(`NotFoundJustified`) and `OnlyGoneRemoved` (`RemovedOnlyIfGone`). `Informed`:
what the upstream does not have now is in the `gone` of every request under way.
`Reader` and `Writer`: the body and the effective path a request holds belong
together, unless a writer or a failed write came between (`stirred`, `hurt`), and
the metadata of an entry at rest name the path its body came from (`KeyOK`). So a
request that is told 404 for the path in its hands was told so for the entry.

`ComposerHub_proof` (any sets of clients, references and URLs, any versions of
the metadata with whatever they list, any number of restarts and cut bodies):
`TypeCorrect`, `MirrorsResolved` (`MirrorResolved`) and `ArchivesRight`
(`RightArchive`). Neither property is inductive. What is: every body in the
cache, in a request or with a client is empty or `Genuine`, that is, listed by a
version published so far for the reference or the path of its locator; metadata
that was rewritten in the present epoch has taught the registry all its
references (`Learned`), and the registry only grows within an epoch; a pending
request asks for something the metadata of its client lists (`Pending`). The
parts are operators of values, so the clients and entries that a step leaves
alone are carried over by monotonicity (`ClientLater`, `EntryLater`) and
`LocalStep` and `Answered` reduce every action to the client that takes it.
The sentinels `Nil`, `NotFound` and `Failed` are assumed not to be URLs.
`OnlyCutsEmpty` delimits the finding about `WholeBodies`: until a body ended early
nothing cached or under way is empty (`NoneEmpty`).

`Service_proof` (any deployments, files, requests, tokens and TTLs) has every
property of the run `store_layout`, two of them for the deployments that the
theorem describes. Assumed: files and requests are well-typed and `Added
\subseteq Tokens` (`ServiceType`), `Nil` is no configuration (`NilFresh`), and
the marks of a host are no numbers and have no case (`MarksType`). The invariant
(`Invariance`): a running process has the routes of a file of the deployment
(`Running`); what the last check said is so (`Verdict`); every entry lies where
the hub it was stored for puts the answer to one of the requests, and is current
unless that answer changes (`StoredIn`); files and directories form a tree
(`Tree`), also where a body broke off (`BrokenStored`). The theorems:

* `TypeCorrect` (`TypeOK`), from the above.
* `Separation` (`HubsApart`): two hubs whose directories both begin the name of a
  file have the same name or names that nest (`Beginnings`, about sequences).
* `Keeping` (`EntryKept`): what `PutEntry` and `RemoveEntry` do to the other
  entries on any disk.
* `Resources` (`OwnResource`): a hit is on an entry of the same hub with the same file
  name (`HitServes`), so the question is which requests have equal names. The
  query can be cut off again (`TakenApart`, `Cut`); npm rewriting can be undone
  (`NpmApart`); what is left to differ is what `normalizePath` and the name
  `root` mix up (`EntriesApart`, `EntriesShared`). The first proof attempt failed
  for a reason: paths with a `__qs` segment, and npm paths that end in `-`, share
  the entry of another URL. `Odd` is now part of `Share`, and one deployment of the
  run asks for such paths.
* `Routing` (`RoutedRight`): `NormalHost` of a well-formed host is the host it
  names (`NormalNamed`, from `NormalOfName` and `NormalOfAddress`), but for an
  address in brackets without a port.
* `Accepted` (`CheckedStarts`): where `Registers` fails, two hubs have one
  `NormalHost` or one has none (`Unregistered`).
* `Unasked` (`UnaskedCurrent`, which leaves open whether the TTL of the module or
  the global one counts where the hub has none), for deployments in which no
  answer that changes has an entry that a policy serves unasked (`PoliciesFit`).
  That is an assumption about the ecosystems, not about the code: `MCService`
  checks that every deployment of the run fits.
* `Coexistence` (`NpmCoexist`), for deployments without a hub inside the
  directory of another, a path with a segment the code adds, a path below a
  tarball, or one below the metadata file of an entry (`NpmTidy`). Nine of the
  twelve deployments of the run are tidy, which `MCService` checks; the property
  holds in the other three too, and would not in every one: an npm path below a
  tarball's makes either fail. The directories are those of entries that were
  stored (`Grown`, `GrownBroken`), and the name of one entry is a directory of
  another only if the two are a path without and with a query (`NpmBelow`,
  `Nested`).
* `Storing` delimits the finding about `EntriesCoexist`: no write fails in a
  deployment in which no entry is below another or below the metadata of another
  (`Flat`: five of the twelve, which `MCService` checks, and `ClockSite`).
  `Grown` again: every directory is above an entry.

Only model-checked: the fairness of `ImplementsKeyedMutex`, because liveness and
fairness are out of the prover's reach, and `NpmCoexist` in deployments that are
not tidy.

## 5. Findings

* `proxy_head_stale`: the ETag in a 200 answer to the revalidation HEAD is
  remembered at once, before and whether or not the body follows. After a HEAD
  request from a client (also: after a fetch that fails, or for a concurrent
  request) the next revalidation is a 304 for a body the cache does not have,
  and the old body is served as current, until the next publication or restart.
* `composer_cut`: a body that ends early while a module's hook reads it is
  replaced by an empty one; the client gets an empty 200, and the empty body is
  stored. Archives are not revalidated, so it stays until someone deletes the
  file. The same code serves every module with a `RewriteResponse` hook.
* `check_config`: `--check-config` does not build the routes, so a file with two
  domains that differ in case, port or final dot is accepted and then refused at
  the start; specs/001 (SC-001) says that every illegal file is stopped at the
  check. `CheckedStarts` says that hosts are the only such reason.
* `layout_coexist`: the `__content` files that `cache/doc.go` describes do not
  exist. Whichever of two paths is cached first, the one above or below it can
  no longer be stored, and is answered 502 as long as the storage lives, even
  after the first entry was removed (its directories stay).
* `upstream_path`: the path of a hub's Upstream is dropped. Two of the hubs of
  the example configuration have one, and fetch from the root of the server.
* `other_methods`: the hooks of the modules override the policy that excludes
  methods other than GET and HEAD. Once a path is cached, a PUT, POST or DELETE
  of it (publishing an npm package, say) is answered from the cache.

Two documents disagree with the code on points that properties of `store_layout`
are about, and on which it may be the document that is out of date: specs/002
(spec.md:63) wants a Host in abnormal case answered 404, while `normalizeHost`
folds case, so such a request is served (`RoutedRight`); `config.example.toml:9`
and the comment on `HubRoute.CacheTTL` say that the global TTL decides where a
hub has none, while nothing reads that field: the TTL that counts is
`CacheStrategy.TTLHint`, of the hub or of its module (`TTLHint`; `UnaskedCurrent`
allows either).

`RevalidationSound` is what remains true in the situation of the proxy finding,
`NpmCoexist` and `EntryKept` are what remains true of the layout.

What the models say of the code besides, as exceptions inside properties:

* A `Put` that fails in chtimes or in the metadata leaves the new body behind
  (`CoherentAtRest` excepts the keys that are `hurt`).
* With no ETag in memory (after a restart, or with an upstream that sends none)
  a client's own `If-None-Match` or `If-Modified-Since` goes out in the HEAD, and
  its 304 is taken for one about the cache (`RevalidationSound` excepts foreign
  validators; `FreshHit` fails with a conditional request and one restart).
* `Get` opens the file after its stat, without a lock. A `Put` that renames in
  between, or one that is seen between rename and chtimes or stops there, gives a
  body a later time than its own: an old body then counts as "not modified since",
  or as within the TTL (`own` in `RevalidationSound` and `StalenessBounded`).
* An upstream whose newer version has no later Last-Modified, a rollback say, is
  told from the cached one by its tag only (`RevalidationSound`). The tag goes out
  without its quotes.
* An empty body that a rewriting hook leaves (`composer_cut`) is an entry like any
  other (`cut` in `CacheHoldsAnswers`).
* A temporary file stays where the `os.Remove` after a failed `Put` fails as well
  (`TempsRemoved`).
* A locator has neither the method nor the headers of a request, though the
  headers of the client go upstream: who asks for a resource with other headers
  (`Accept`, say) is answered with what the first client got (`OwnResource` speaks
  of the URL and the links only).
* A pypi index asked for by the short name of the project is not rewritten but
  shares the entry of `/simple/<project>/`: whoever comes first decides for
  everybody where the links lead (`Share` in `OwnResource`). Composer archives whose
  URLs differ in the query share an entry, and so do `/` and `/root`.
* A path with a `__qs` segment shares the entry of the path before it with a query
  whose hash is the next segment, and at npm is cut there before it is rewritten;
  an npm path that ends in `-` shares the entry of the path with `package.json`
  behind it (`Odd` in `Share`). No client of a registry asks for such a path.
* A domain that is only a port is accepted and refused at the start as well
  (`Unroutable` in `CheckedStarts`).
* A domain that is an IPv6 address in brackets is reached without a port only
  (`BareAddress` in `RoutedRight`). An address without brackets loses its last
  group if that is a number, for it is taken for a port, so two such addresses may
  be one host (`WellFormed` in `RoutedRight` and `Unroutable`).
* A hub whose name continues that of another with a slash stores its entries
  among those of the other, and each serves the other's (`HubsApart`).
* `MaxMemoryCacheSize`, `MaxRetries` and `InitialBackoff` are validated and used
  nowhere.
* npm's own endpoints below `/-/` (search, ping, dist-tags) never reach the hub:
  the prefix belongs to the diagnostics.

## 6. Plan and what is not modelled

Every safety property of the passing runs is a theorem, and `FreshHit`,
`WholeBodies` and `EntriesCoexist`, which the code breaks, have one that says
where they hold; `CheckedStarts` says it of `AcceptedStarts`. Next would come the
two other findings (`BelowBase` for an Upstream without a path, `Forwarded` for
what keeps the base policy, the indexes of pypi), and tags in `FreshHit`: one
client, GETs only, no failures.

Not modelled in the modules above: in `ComposerHub` the rewriting of
packages.json, metadata that is not JSON (stored as it is), metadata that is
answered 404, and two composer hubs of one process, which share a registry keyed
by domain; in `HubRegistry` the parsing of TOML and of durations and the check
for a `Port` in a hub; in `Service` interleavings (`FileStore`, `ProxyHandler`
and `ManifestFallback` have them), effective paths, mirror URLs, whether a
revalidation that says "fresh" is right, segments `.` and `..` in names of hubs and
in paths, and bodies that are themselves metadata files.

Not planned: body rewriting (text processing), headers and content types,
logging, the token exchange beyond its success or failure, TLS and proxies, the
data plane of streaming (a body reaches the client or the request fails).
Temporary files that a crash leaves behind are forgotten by the model; nothing
in the code reads or removes them. Several processes on one storage directory
are not modelled: the locks are those of one process.
