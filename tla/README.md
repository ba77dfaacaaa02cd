# A verification of librofm-sync

`librofm-sync` copies the audiobooks a user owns on libro.fm into an audiobookshelf
(ABS) library. It is a one-shot command that cron starts again and again; it keeps no
state of its own, and decides what to do by comparing what libro.fm lists with what ABS
lists (`src/docs/03-architecture-decisions.md`, ADR-003). This directory holds TLA+
models of it, the TLC configurations that check them and the TLAPS proofs about them.

Everything is translated from the code under `src/`. ABS itself, libro.fm and the user
are other parties; they are modelled from how the code uses them and marked external in
`PROJECT.json`.

To check: `tlc -config MCClean.cfg MCSeparation` (and so on, see *Runs*), and `tlapm` on
the modules whose names end in `Proofs`.

## The system

| component | code | state | operations |
|---|---|---|---|
| Reconciler | `internal/reconcile/reconcile.go` | per run: listing, index, position, `Summary` | `Run`, `syncOne`, `patchMetadata`, `setCover`, `selectLibrary`, `listAllItems` |
| Classifier | `internal/reconcile/classify.go` | `absIndex` (two maps), built once per run | `indexABS`, `classify`, `titleVariants`, `fuzzKey` |
| Metadata payload | `internal/reconcile/payload.go` | none | `buildMetadataPayload` |
| Upload | `internal/abs/upload.go` | a pipe and a writer goroutine per upload | `UploadItem` |
| Scan trigger | `internal/abs/scan.go` | none | `TriggerScan` |
| Discovery | `internal/abs/discover.go` | the remaining poll budget | `Discover`, `searchOnce`, `titleMatches`, `buildBackoffs` |
| ABS client | `internal/abs/client.go` | an HTTP client | bearer header, logging |
| Generated client | `internal/abs/gen.go` | none | requests, `Parse...Response`, `UnmarshalJSON` |
| Download formats | `internal/format/*.go` | the files in the staging directory | `DownloadM4B`, `DownloadMP3`, `WriteTags`, `SafeFileName` |
| libro.fm client | `internal/librofm/client.go`, `types.go` | the bearer token | `Login`, `Library`, `M4BURL`, `MP3Manifest`, `Download` |
| Token cache | `internal/librofm/token_cache.go` | one file | `Load`, `Save`, `Clear` |
| Command line | `cmd/librofm-sync/main.go` | none | `sync`, the probes, signals, exit status |
| ABS (external) | `docs/02-audiobookshelf-api.md` | folders, items, scan queue | upload, scan, search, list, PATCH, cover |

**How they interact.** A run logs in, lists the ABS library page by page, lists the
libro.fm library, and builds the index. It then classifies each book against that one
listing. *Present and synced* (an item has its ISBN): nothing. *Present without
metadata* (title and first author match): PATCH and cover. *Not present*: download into
a staging directory, upload, ask for a scan, poll the search until the new item shows,
PATCH, cover. A book that fails is counted and the loop goes on; the exit status says
whether any failed.

The parties share the ABS library: the run, its scanner, the user, and any other run
that cron has started in the meantime. They are not synchronised at all.

**What is hard.**

* The work on one book spans six remote calls; each may fail before or after its effect,
  and the next run sees only what ABS shows.
* The listing is as old as the run, which may last hours.
* An upload becomes an item only after a scan, so its id has to be guessed by searching
  for a title.
* ABS shows a book under other names than libro.fm: the folder name, or the title
  embedded in the file. The ISBN is on the item only after the PATCH.
* Runs overlap, are interrupted (the loop then fails every remaining book) and are
  killed; under `--work-dir` they also share the directories they stage in.
* Both libraries are listed page by page while they change.
* An authentication proxy may answer in the place of ABS, with status 200.
* An upload is streamed from a goroutine through a pipe; an error on one side must end
  the other.

**What makes each component correct.**

* Reconciler: every book counted exactly once; nothing mutated on a dry run or for a
  book already synced; exit status 0 means every book considered is in the library under
  its ISBN; a half-done book is completed by a later run, without another download; once
  everything is there, runs do nothing.
* Classifier and Discovery: a book is never taken for another one, and is recognised in
  the forms in which ABS may show it.
* Payload: a PATCH leaves the item saying what libro.fm says.
* Upload: ABS never receives a complete but shortened upload, and `UploadItem` returns
  whatever happens to the goroutine.
* Poll schedule: it uses the budget to the second and polls once more at its end.
* Listings: what was there from beginning to end is listed, and the listing ends.
* Clients: nothing that is not an answer of the service passes for one.
* Token cache: an expired token is replaced; a reader sees an old or a new token, never
  part of one.
* Formats: tracks stay in order; names are valid path components.

## Modules

| module | models | extends |
|---|---|---|
| `Titles` | names, `titleVariants`, `fuzzKey`, `SafeFileName`, `titleMatches` | community modules |
| `Audiobookshelf` | the ABS library, its scanner and its user (external), the folder an upload names | `Titles` |
| `Reconcile` | the runs, composed with `Audiobookshelf`; its properties | `Audiobookshelf` |
| `Mirror` | abstract: what the user is promised | |
| `Separation` | the condition on a catalog under which the promises hold, and the inductive invariant | `Reconcile` |
| `Session` | `Login` and the token cache that runs share | |
| `Shapes` | what the two clients decode: every `UnmarshalJSON` of `gen.go`, the types of `librofm` | |
| `Paging` | `listAllItems` and `Client.Library` page by page, on shelves that change | `Shapes` |
| `Calls` | one invocation of any subcommand, call by call, for every kind of answer; the poll schedule | `Shapes` |
| `Transfer` | `DownloadM4B`, `DownloadMP3`, tags, the staging directory, the streamed upload | community modules |
| `ReconcileProofs`, `SeparationProofs`, `SessionProofs`, `PagingProofs`, `CallsProofs`, `TransferProofs`, `UploadProofs` | theorems and proofs | the modules they are about |
| `MCReconcile`, `MCSeparation`, `MCSession`, `MCPaging`, `MCCalls`, `MCTransfer` | catalogs and constants for TLC | |

`Reconcile` takes as single calls what the last four take apart: a listing (`Paging`),
an answer (`Calls`), a download and an upload (`Transfer`). What it assumes of them is
what they are shown to guarantee: a listing holds what was there (`NothingMissed`), a
call that succeeds was answered by the service (`ChangesAreDue`, `HonestExit`), and an
accepted upload is the whole book (`UploadIsWhole`). Two things it assumes are not
guaranteed: that no proxy answers the PATCH, and that the items page has its `results`
(see *Findings*).

### Titles

A name is a sequence of words and punctuation marks, `<<"Mistborn", ":", "The",
"Empire">>`; a `":"` stands for the code's separator `": "`. This keeps what every
comparison depends on - which part precedes a separator, which marks `SafeFileName`
drops, where it cuts - and leaves out letter case and white space, which both sides of
each comparison normalise alike. `Illegal` and `Marks` are representatives of the code's
character classes. `/` inside a name, and authors after the first one, are left out.

### Audiobookshelf

| variable | meaning |
|---|---|
| `items` | indexed items: id, folder, title, author, series, ISBN, cover; `holds` is a history field, the recordings whose files lie in the folder |
| `landed` | books whose uploaded files the scanner has not indexed |
| `toScan` | those an explicit scan will visit |
| `nextId` | ids are never reused |
| `removed` | recordings the user has deleted |

`Receive`, `AcceptScan` and `Replace` are the effects of the program's requests,
`ScanFolder` is the scanner, `UserAdds` and `UserDeletes` are the user. A new item takes
its title from the folder or from the embedded tag: which of the two ABS prefers is a
server setting, so both are possible. `WatcherOn` says whether ABS indexes of its own
accord; with it off, only the explicit scan makes an upload visible, which is the case
the scan trigger was written for.

### Reconcile

`run[r]` is the state of process `r`: the phase (which call comes next), the listing it
took at its start, the position in the libro.fm list, the number of polls, the item to
be patched, and the `Summary`. One step is one remote call and the code up to the next
call:

| action | code |
|---|---|
| `StartRun` | `main.go` `runSync` up to `reconcile.Run` |
| `ListItems`, `FetchLibrary` | `Run` up to the loop; any error ends the run |
| `NextBook` = `SkipBook`, `RepairBook`, `SyncBook` | the loop body's three classes, dry or not |
| `DownloadM4B`, `DownloadMP3` | `syncOne`, the fall-back on `ErrNoM4B` |
| `UploadItem`, `TriggerScan`, `Discover` | the rest of `syncOne` |
| `patchMetadata`, `setCover` | the tail shared by sync and repair |
| `Finish` | the end of `Run`; `failed > 0` is exit status 1 |
| `Interrupt`, `Kill` | SIGINT/SIGTERM (the context is done, later calls fail) and SIGKILL or a crash |
| `Purchase`, `User`, `Server` | the environment |

Each call is `Answered` or `Fails`; a failing upload, scan request or PATCH may have had
its effect. A failure fails the book (`Count(r, "failed")`), except for the scan and the
cover, which are only logged, and for the listings, which end the run. `listing` is any
order of the items, and `Discover` may take any hit that matches, because both orders
are the server's. `Discover`'s schedule is a number of polls, `MaxPolls`.

### Mirror

The abstract specification has three variables: how many books are owned, which are
mirrored, which recordings the user deleted. Books appear one by one, only owned ones;
one goes only in a step in which the user deletes it. `Reconcile` implements it under
`mirrored <- {n : Mirrored(n)}`, where a book is mirrored when an item holds its
recording and carries its ISBN. Property `KeepsPromise`.

### Separation

The program recognises books by title and author, so it can work only when those tell
books apart; it does not check that. `SeparatedCatalog` states exactly what is needed:
`DistinctISBNs`, `DistinctFolders` and `DistinctLooks` (no form in which ABS may show one
recording is taken for another book). The violation runs show catalogs with ordinary
titles where it fails, and what then goes wrong.

That a book is recognised in all its own forms is not assumed, as a colon or question
mark in the title is enough to break it. `AlwaysRecognised(n)` says of which books it
holds, and `NoRedownload` makes of it what it can: an item that carries an ISBN is never
fetched again, and one without only if some form of its book goes unrecognised.
`PlainNames(n)` is a condition on the names of one book that suffices. The runs
`overlap` and `settles` have a book of each kind.

### Session

Apart from the other modules: for `Reconcile` a login that fails is a call that fails.
`pc[p]` is the next file operation or request of process `p`: `Load`, `Login` (the
POST), `CreateTemp`, `WriteString` and `Rename` of `TokenCache.Save`, and `Call` for the
requests that use the token. A token is a number, `file` and `temp[p]` are the contents
of the cache file and of `p`'s temporary file; `Partial` stands for anything a writer
has left that is not a whole token. Any step may fail; `Save` then removes the temporary
file and the run goes on with its token. `Revoke` and `Kill` come at any time.

### Shapes

A JSON value is a record of its kind and its members or elements. There is one operator
per type, true of the values that its `UnmarshalJSON` (`gen.go`) or the reflection of
`encoding/json` (`librofm/types.go`) accepts: a missing member and `null` always pass,
unknown members are kept aside, and one member of another type fails the whole document,
however deep it lies and although nobody reads it. The raw ISBN of a libro.fm book
passes in every form.

### Paging

`shelf` is what the server has, a sequence; `page`, `all` and `phase` are the variables
of the loop. `GetPage` cuts one page out of the shelf as it stands now and ends the loop
as the code does: `LastItems` on a short page or when the total is reached, `LastBooks`
at `total_pages`. `OddPage` is a page that does not decode by `Shapes`, `PageFails` any
other error. `Arrive` and `Remove` change the shelf anywhere, before or behind the page
being read, because neither listing asks for an order. Both loops are in one module,
told apart by the variable `api`.

### Calls

`pc` is the next call of the invocation. `Answers(c)` are the outcomes of a call: a
document by the service, a refusal, a page by a proxy, or nothing, with or without the
effect. `JSON200`, `WithJSON200`, `WithStatus`, `Uploaded` and `GetJSON` are the five
ways in which the code judges an answer, and each action uses the one its caller uses;
the upload and the libro.fm client take any status 2xx (`Is2xx`). What the handlers then
read out of a document is data: whether a page shows items (`ShowsItems`) or names the
book (`HasBook`), whether a library has a folder, whether a search has a hit. An array
that is missing counts as empty, as in Go. `listed` and `owned` are what the two
listings have said: an items page without items leaves `listed = "nothing"`, whatever
`item` is. `seen` and `proxied` are history variables, the calls that the service itself
and a proxy have answered. The library is one book, `item` its state in ABS; `Sleep` and
`Search` walk the schedule of `buildBackoffs` as it is made, `slept` and `delay` being
its `sum` and `next`. Names, listings of several books and overlapping runs are
`Reconcile`'s.

### Transfer

A process is a slot of cron and runs again after it ends or is killed. `disk` is the
staging directory of each home, `writer` the program counter of `UploadItem`'s goroutine
together with its `firstErr`, `pipe` what the reading end comes to (`eof` or `error`),
`conn` the request.

| action | code |
|---|---|
| `Begin`, `Fail`, `RemoveAll` | `syncOne` around the downloaders |
| `CreateM4B`, `FillM4B` | `DownloadM4B`; a file is empty or half there between the two |
| `SkipEntry`, `CreateEntry`, `FillEntry` | `downloadAndExtractZipPart`, `extractZipEntry` |
| `List`, `WriteTags` | the rest of `DownloadMP3`: `listMP3s`, `sortedTracks`, `buildTags`, `WriteTags` |
| `UploadItem`, `WriteFields` ... `CloseWithError` | `UploadItem` and its goroutine |
| `Accept`, `BodyFails`, `Refuse` | the three ways the request ends |

`setup` says how the user runs the command: with a temporary directory, with a
`--work-dir` and one run at a time, or with one that overlapping runs share. A temporary
directory is new for every run; `lost` says that a killed run has left one behind, which
nobody finds again. What lies in a `--work-dir` is found by the next run. A file that
another run truncates or removes is seen as it is when it is read. A file removed after
it was opened can still be filled; nobody sees it.

## Runs

| run | question | properties |
|---|---|---|
| `clean` (MCClean) | do the promises hold on separable books, with faults, purchases, a copy added by hand, a deletion? | `SeparationInv`, `IsbnTellsTruth`, `ExitZeroIsHonest`, `NoRedownload`, `KeepsPromise` |
| `overlap` (MCOverlap) | do they hold when two runs overlap? | `IsbnTellsTruth`, `ExitZeroIsHonest`, `NoRedownload`, `DiscoversItsUpload`, `MutationsJustified`, `KeepsPromise` |
| `settles` (MCSettles) | is every partial failure recovered by later runs, and do they come to rest? | `Settles`, `Quiesces` |
| `wild` (MCWild) | does the bookkeeping hold on any catalog? | `TypeOK`, `Accounting`, `WithinLimit`, `MutationsJustified` |
| `volumes_quiesce` (MCVolumesQuiesce) | two volumes with one main title | violates `Quiesces` |
| `same_title` (MCSameTitle) | two books called the same | violates `DiscoversItsUpload` |
| `session` (MCSession) | is `Save` atomic for overlapping runs, failures and kills? | `TypeOK`, `CacheIsWhole`, `CacheIsKept` |
| `revoked` (MCRevoked) | a cached token is revoked | violates `ReauthAfter401` |
| `paging` (MCPaging) | what can a listing miss or repeat while the library changes? | `NothingMissed`, `ShiftsAccountFor`, `Ends` |
| `calls` (MCCalls) | what do odd, lost and foreign answers lead to? is the poll budget used up? | `HonestExit`, `ChangesAreDue`, `FoundInTime`, `Terminates` |
| `transfer` (MCTransfer) | is every accepted upload the whole book, after failures, kills and leftovers? | `UploadIsWhole`, `EndMeansAll`, `StagingCleared`, `UploadReturns` |
| `shared_dir` (MCSharedDir) | runs overlap in one `--work-dir` | violates `UploadIsWhole` |

**The properties.** `IsbnTellsTruth`: an item's ISBN is that of a recording in its
folder. `ExitZeroIsHonest`: exit status 0 means every considered book is mirrored, or
deleted by the user. `NoRedownload`: a run does not fetch what its listing held, however
the earlier attempt failed, if the item has an ISBN or the book is recognised in every
form. `DiscoversItsUpload`: the item found by its title after an
upload is the uploaded one. `MutationsJustified`: the library changes only for a book
that was not listed as synced, and never in a dry run. `Accounting`: the counters add up
to the books handled. `WithinLimit`: `--limit` is not exceeded by one. `Settles` and
`Quiesces`: convergence and idempotence. `CacheIsWhole`, `CacheIsKept`: the cache file
has no token or the whole of one, and never becomes empty again. `NothingMissed`: as
long as nothing is removed, a finished listing has everything that was there at its
start. `ShiftsAccountFor`: each removal hides at most one entry that stays, each arrival
doubles at most one. `Ends`: a listing ends. `ChangesAreDue`: ABS is changed only by a
real sync that ABS and libro.fm themselves have answered, for a book libro.fm named, and
an upload is of what is not there or followed an items page without items.
`HonestExit`: status 0 means the book is there with its ISBN, unless a proxy answered
the PATCH. `FoundInTime`: `Discover` gives up only after a poll at
the end of the budget. `Terminates`: every invocation ends. `UploadIsWhole`: an accepted
upload is the M4B, or all tracks, complete, numbered, in order, and under the chapter
title where the manifest has the track. `EndMeansAll`: the body ends regularly only if
everything is in it. `StagingCleared`: a finished run leaves nothing in its own
directory, and in a `--work-dir` nothing of a killed run either. `UploadReturns`: `UploadItem` and its goroutine end
without help from a timeout. `SeparationInv`: everything a run remembers of an item
stays true however stale it is.

**Bounds, and why they are enough.** Two books (three in `wild`): a book can be taken
for one other, and the limit, the second book's failure and the purchase during a run
need no third. Two runs in `overlap`: the runs do not communicate but through the
library, and two are enough for one to act on what the other has overtaken. The two
books of the clean catalog differ in every branch the code has: M4B or MP3, with or
without series, author and cover, with an embedded tag and a separator in the title, which is a colon in
`overlap` and `settles`. One
fault per behaviour in `clean` and `wild`: the code keeps nothing across books, so one
interrupted book shows what the next run finds. `settles` has two, the second of which
can hit the recovery, and leaves out manual copies and deletions; `overlap` has none, as
two runs are disturbance enough. `MaxPolls` 1 or 2 has both an answer after which the
code polls again and the last one. `MaxRemoved` 1 lets the user delete an item between
the listing and the PATCH. `MaxName` is short enough for `SafeFileName` to be total and
long enough not to make two titles of these catalogs equal. In `session` three processes
and three tokens let two of them save while the third reads.

In `paging` pages of two and shelves of up to five make an empty shelf, a full last
page, a short one and several pages, with two arrivals and a removal at any place and an
entry that does not decode. In `calls` the budgets 0 (the default, 300 s), 1, 6 and 45
cover a single delay, a trimmed last one and the cap; an upload shows at once, at the
end of a budget, one second later or never in time. Each call has a document that
decodes, and one that says little or does not; a proxy may answer any call, and the
refusals include a 202, which two of the five ways to judge an answer accept. In `transfer` two archives whose file
names interleave, a file that is no MP3 and fewer chapter titles than files make order
and positions matter; two processes are one to leave things behind or interfere, and one
to find them. The theorems below do without these bounds.

**Fairness.** `settles` checks `FairSpec`. Weak fairness of `StartRun`: cron starts the
command for ever (ADR-004). Weak fairness of a run's step: every call has a timeout and
the code has no loop that waits without a bound. Weak fairness of the scanner: ABS
indexes what it has been made to notice. There is no fairness for faults, interrupts,
kills, purchases or the user, and their number is bounded, as `Settles` speaks of what
happens once they stop. The watcher is off in this run, so that the mutant without the
scan request violates `Settles`.

`paging`: weak fairness of asking for the next page; nobody has to change the shelf.
`calls`: weak fairness of the invocation's step, as both clients end any call after 60
s; signals are not fair. `transfer`: the goroutine is scheduled, a request whose body
has come to its end is answered or fails, and a deferred `RemoveAll` is carried out.
`Refuse`, which stands for refusals, dropped connections and the timeout, is not fair,
so that `UploadReturns` rests on `firstErr` reaching the pipe and not on the timeout.

**Where a run may stop.** Deadlock is not checked in `paging` and `calls`, where the
listing and the invocation come to their end.

**Mutants.** Every property of a passing run has a mutant in `PROJECT.json`: an
operator, marked `\* mutant`, that changes the definition after it as a plausible bug
would, and under which the property is violated in that very run.

## Findings

1. **Volumes** (`volumes_quiesce`). `titleVariants` cuts subtitles, and `classify`
   accepts a fuzzy match with an item that already carries another ISBN. Of "Mistborn:
   Empire" and "Mistborn: Ascension" the second is never downloaded; its metadata
   overwrites the first's, and the next run turns that around, for ever.
   `classify.go:54-55` says the fuzzy match is for items without ISBN.
2. **Same title** (`same_title`). `Discover` takes any hit with the title; the
   documentation wants the path or title and author compared.
3. **No new login after a 401** (`revoked`). A refused token stays in the cache, so
   every later run fails too; the comment on `ErrUnauthorized` and the protocol notes
   want a new login and a retry.
4. **Overlapping runs in one `--work-dir`** (`shared_dir`). The second run truncates the
   file that the first is streaming; the body ends regularly and ABS accepts a torn
   book. The implementation plan (`docs/04-implementation-plan.md:244`) wants a lock
   against overlapping runs, which the code does not take. With the default, a temporary
   directory for each run, overlapping is harmless: `transfer` shows it for the files,
   and `overlap` for the library, as long as the books are separable.

Five more promises of the texts are stated as properties that the code breaks, each with
a configuration under which TLC shows how (`tlc -config <cfg> <module>`; they are not
among the runs):

| property | configuration | the text | what happens |
|---|---|---|---|
| `RepairsInPlace` | MCColon on `MCReconcile` | ADR-005, `docs/03-architecture-decisions.md:96` "re-PATCH, no re-download", `:103` "Avoids re-downloading huge M4B files just because a PATCH failed" | The folder is named by `SafeFileName`, which drops the colon by which a later run would recognise the main title: when the scan is late or the PATCH fails, "Mistborn: Empire" is downloaded and uploaded again (`reconcile.go:207`). |
| `SweptAtStartup` | MCNoSweep on `MCTransfer` | `docs/04-implementation-plan.md:241` "plus startup sweep" | Each run makes a new temporary directory and removes it by a deferred call (`reconcile.go:100-105`): what a killed run staged stays for good. In a `--work-dir`, leftovers of the same archives are overwritten (`UploadIsWhole`), those of an archive published anew under other names would be uploaded with it. |
| `PartsAreNamed` | MCUntitled on `MCTransfer` | `id3.go:96-97` "otherwise we fall back to "<Book Title> - Part <n>"" | A file beyond the end of the manifest's list gets the bare title of the book. `UploadIsWhole` asks nothing of the titles of such files. |
| `ZeroMeansSynced` | MCProxiedPatch on `MCCalls` | `main.go:206` "Exit code 0 = no per-book failures" | `patchMetadata` looks at the status only (`reconcile.go:261`): a login page of status 200 counts as success. In the place of listings it is noticed, as `JSON200` is required there. |
| `UploadsAreNew` | MCBlankPage on `MCCalls` | `api/audiobookshelf.openapi.yaml:369` "required: [results, ...]"; ADR-005 uploads "if no ABS item" | The decoder misses no member (`gen.go:1260`): an items page without `results` passes for an empty library, and what is there is uploaded again. |

Other consequences that follow from the models, without a property of their own:

* **No series.** `SafeFileName("")` is "untitled", so ABS gets a series "untitled", and
  the PATCH leaves an empty series out.
* **No retry within a run.** One failed call fails the book until the next run; ADR-004
  (`docs/03-architecture-decisions.md:79`) wants transient errors retried with backoff.
* **Proxy and downloads.** A page of status 200 is saved as the M4B. In the place of an
  archive it is noticed.
* **One odd item.** An item that does not decode, in a member nobody reads, ends every
  run at the listing.
* **Deletions while listing.** A deletion moves an item over a page border; the run
  takes its book for missing and uploads it again (`ShiftsAccountFor` bounds this by one
  book for each deletion).
* **A book without ISBN and `--work-dir`.** Its staging directory is the work dir
  itself, which the deferred `RemoveAll` removes with all it holds
  (`reconcile.go:194-195`).

## Proofs

Assumptions on the constants are the named ASSUMEs of the modules: `SessionAssumption`,
`MaxNameAssumption`, `CatalogAssumption`, `ManualAssumption`, `ServerAssumption`,
`ReconcileAssumption` (their types) and, for `SeparationProofs`, `SeparatedCatalog`;
`PageSizePositive`, `StartsAreShelves`, `StartsListOnce`; `BudgetsAreSeconds`, `ScheduleIsPositive`,
`RefusalsAreStatuses`, `IndexTimesAreSeconds`; `SetupsAreSetups`, `EntriesAreEntries`,
`TracksAreTracks`. TLC evaluates each of them in the runs. Nothing else is assumed: any
catalog, any number of runs, faults, polls and deletions.

`ReconcileProofs`, for every catalog:

* `Invariance`: `Spec => []IInv`. `IInv` is `TypeOK` with the position of each run tied
  to its phase (a run at work on a book has `pos <= considered <= owned`, is not dry,
  and its listing does not show the book as synced) and the accounting. Neither `TypeOK`
  nor `Accounting` is inductive alone: `Book(r)` is defined only because `pos` is in the
  catalog.
* `TypeCorrect`, `AccountingHolds`, `MutationsAreJustified` follow.
* `LimitInvariance`: `Spec => []LimitInv`: with a limit, every run considers at most so
  many books, what has landed is one of them, and every ISBN on an item is that of one of
  them. `WithinLimit` itself is not inductive, as it does not say where an ISBN may come
  from: a PATCH writes the ISBN of the book at `pos`, to whatever item it takes for it.
  `LimitHolds` follows if no book past the limit has the ISBN of one within it
  (`LimitApart`). Where one has, a copy of the later book added by hand may be taken for
  the earlier and be given the ISBN of both, so the hypothesis cannot be dropped.

`SeparationProofs`, for every separated catalog:

* `SeparationInvariance`: `Spec => []SeparationInv`. Each item belongs to one recording
  and shows a look of it, ids are unique and below `nextId`, and what a run has listed
  or targeted *still* belongs to that recording. The strengthening is needed because
  `IsbnTellsTruth` alone says nothing of stale listings: a repair goes to an id read
  hours ago. The argument: only `ScanFolder` and `UserAdds` create items, with a new id;
  a `Replace` keeps the id and, on a separated catalog, the recording (the relation
  `Kept` between two states, lemmas `GrowKeeps`, `ReplaceKeeps`, `DeleteKeeps`);
  classification and discovery pick an item with a look of the book, which by
  `DistinctLooks` is the book's.
* `IsbnIsTrue`, `ExitZeroHolds`, `NothingTwice` follow from it; the last needs that a
  listed look is found in the fuzzy index (lemma `Least`: of the positions with a key
  one is first). It is proved book by book, without the assumption that titles are
  recognised; `PlainIsRecognised` names books for which it says most: the names pass
  `SafeFileName` unchanged, one author, tagged with the title or a longer form of it,
  and no copy added by hand.
* `DiscoveryIsRight`: the item found after an upload lies in the uploaded folder, if a
  copy the user adds by hand lies where the program would put it (`CopiesInPlace`).
  Otherwise a copy added since the listing, with another folder, may be found first; it
  still is the same recording (`SeparationInv`).
* `PromiseKept`: `Spec => KeepsPromise`, by mapping each action to `Deliver`,
  `Purchase`, `Withdraw` or a stutter.

`SessionProofs`, for any number of processes:

* `SaveInvariance`: `Spec => []SaveInv`: types, `CacheIsWhole`, and for every writer
  that it has an issued token and that what it is about to rename is the whole of it.
  `CacheIsWhole` alone is not inductive: `Rename` copies the temporary file.
* `SessionTypeCorrect`, `CacheAlwaysWhole`, `CacheAlwaysKept` follow.

`PagingProofs`, for every page size, shelf and number of arrivals and removals:

* `IInv` is the types, `FullPages` (a listing that goes on has read whole pages, so
  `Offset` is the length of `all`) and `NothingSkipped`: unless something was removed,
  what was on the first shelf is either listed or still lies behind the offset.
  `NothingMissed` alone speaks of finished listings only. An arrival moves things
  backwards, away from what has been read, which is why the second part survives it.
* `NothingIsMissed` follows, since a last page leaves nothing behind it.
* `ShiftsAreAccountedFor` rests on `ShiftInv`, which counts while the listing goes on:
  what stays, has been passed and is not listed (`Hidden`) is at most as much as was
  removed, and the entries listed twice (`Repeats`) together with those listed that lie
  ahead once more (`Again`) are at most as many as arrived. Only this sum is inductive: a
  page turns members of `Again` into `Repeats`, an arrival before the offset pushes one
  thing back over it, and a removal pulls one over it unseen, possibly a member of
  `Again`. The shelf lists a thing once (`StartsListOnce`; ids are unique on both
  services).

`CallsProofs`, for every set of documents, refusals, proxied calls, budgets and delays:

* `IInv` gives the order of the calls: at each `pc` which calls the service has
  answered, what of `item` is known, and that between two polls less than the budget has
  been slept, at most all of it after one. `ChangesAreDue` is about a step and needs all
  that went before it.
* `EveryChangeIsDue`, `FoundWithinTheBudget` follow, and `ExitIsHonest`, for which the
  invariant has that the item is synced once the cover is asked for, or the PATCH has
  been proxied. Nothing is assumed of the documents: a page without books or items is
  among them.

`TransferProofs`, for every number of processes, archive and track list:

* `IInv` ties the goroutine to what is written: the names in `sent` are the first ones
  of `files`, all of them once the loop has ended without an error, and the pipe says
  `eof` only then. `TheEndIsTheEnd` follows, in all setups.
* `SInv` adds, for setups in which overlapping runs share no directory, what lies on the
  disk at each phase: no other process is at work in the home, and every entry passed is
  whole under its name. A half-written leftover is in the way of the proof until
  `CreateEntry` truncates it, so the invariant speaks of the entries passed only.
  `NoUploadIsTorn` and `StagingIsCleared` follow.

`UploadProofs`, on top of `TransferProofs`:

* `TheUploadIsWhole`: `Spec => []UploadIsWhole`, under two hypotheses. `NotShared`:
  overlapping runs share no `--work-dir`; `shared_dir` shows what happens if they do.
  `InOrder`: the MP3s of the archives are the tracks 1 to n and their names sort in that
  order, and the manifest numbers its tracks from 1, in any order it likes. The code
  takes this from libro.fm without a check: it sorts the file names and gives the n-th
  the n-th title. `MCTransfer` assumes it by name (`FilesInOrder`), so TLC evaluates it.
* `UInv` adds to `SInv` what each file is: an entry passed is unpacked and not tagged
  (`Plain`); what is listed tells the story (`Story`: the k-th name is track k, as many
  as there are); the files before the tagger's position carry their final tags, the
  others none; and what is sent is, part by part, what is staged (`SentRight`).
* That listing and sorting put track n at the n-th place is one fact (`InPlace`): a
  strictly increasing map of `1 .. n` onto itself is the identity, by the least place
  where it is not. `SortedInPlace` and `ListsTheStory` apply it to the chapters and to
  the file names. The sort of the chapters is the function whose result is in order
  (`InNumberOrder`), not a fold, so that no induction over data is needed.

**Only model-checked:** the liveness properties `Settles`, `Quiesces`, `Ends`,
`Terminates` and `UploadReturns` (liveness under fairness is out of the prover's reach),
and the violations. Every invariant and action property of a passing run is stated by a
theorem, under the hypotheses named above. What a fold or a recursion computes for every
input cannot be proved either, so there is no such definition in a module with theorems,
and none declares a RECURSIVE operator.

## What is not modelled, and why

* Letter case, white space, co-authors, `/` in names: see *Titles*.
* Metadata no decision depends on (narrators, genres, publisher, description).
* What ABS keeps of an upload that breaks off. The repository says it needs cleaning by
  hand (`docs/04-implementation-plan.md:242`). `Transfer` takes a server that judges a
  body by its end; one that answers at the closing boundary, which the goroutine writes
  also after an error and before it closes the pipe, would see a complete but shortened
  upload.
* The early return of `UploadItem` when `applyAuth` fails, which would leave the
  goroutine waiting: the editor it calls returns no error.
* In `Reconcile` a listing is one call; the search has no result limit; no two libraries
  have one name.
* Two audio files of one name in two archives (`EntriesAreEntries` allows it, the run
  does not try it: the second overwrites the first), and the file name of an M4B, of
  which there is one.
* The cover inside the ID3 tag, cut at 8 MiB without notice, and the other tag fields.
* Which downloads are too large for the 60 s timeout; any call may fail by it.
* A power failure that loses data already written to the token file.
* `gen.go`: the encoding of requests (URLs, query, `MarshalJSON` of
  `UpdateMediaRequest`), which has no state and no failure that depends on data; the
  accessors `Get` and `Set` and the `MarshalJSON` of types that are only read, which
  nobody calls.
* `AudiobookDetails`, `TokenCache.Clear` and a Login with `force`, which no subcommand
  calls; flag parsing beyond its failure; logging; `version`; the scripts and CI.

## Order of the work

By importance: what decides about the user's data comes first. `Titles`,
`Audiobookshelf`, `Reconcile`, `Mirror` and `Separation` are the core; then `Session`,
what runs share outside ABS; then the parts `Reconcile` takes as single calls, in the
order of the harm they can do: `Transfer`, `Calls`, `Paging`, and `Shapes` for the last
two. The proofs came in the same order, each once TLC had found its inductive invariant
to hold on a run. What remains is to take apart what `Reconcile` assumes of a listing
while things are removed from it, and to show `Calls` an implementation of one run of
`Reconcile`.
