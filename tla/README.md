# CloudMux: TLA+ models and proofs

CloudMux is a Go library with one interface (`pkg/cloudprovider`) to the APIs
of some twenty public and private clouds (`pkg/multicloud/<provider>`), and
command line tools on top of it (`cmd/`). Nearly all of it is one REST call per
operation and the conversion of the answer. This directory models the parts
that are more than that: those with goroutines, channels and locks, those that
share caches, those that make several calls of which any may fail or in between
which the cloud changes, and those whose loops have to end.

Everything here is written from the Go source. `PROJECT.json` maps every
definition to the lines it models.

    cd tla
    tlc -config MCBalancer.cfg MCBalancer     # one run
    tlapm UploadProofs.tla                    # the proofs of one module

## 1. Inventory

### Components with a state machine of their own

| Component | State | Operations | Talks to |
|---|---|---|---|
| `azure/concurrent` load balancer (`balancer.go`, `worker.go`, `pool.go`, `request.go`) | a heap of workers with `Pending` and `Index` under one lock; a bounded channel and a goroutine per worker; a dispatcher and a listener goroutine; `remainingWorkers` | `Init`, `Run`, `dispatch`, `completed`, `closeWorkersRequestChannel`, `TearDownWorkers`, `Worker.Run`, `tryStealWork` | its client over the channels of requests, errors and the end; the `Work` and `ShouldRetry` of each request |
| `azure/progress` tracker (`status.go`) | a buffered channel of byte counts, their sum, one `Record` that is sent by pointer; a receiver and a sender goroutine | `Run`, `ReportBytesProcessedCount`, `Close` | workers that report, a consumer that calls the caller's callback |
| `azure/upload.go` | the stream of ranges, `err`, `allWorkSucceeded`; goroutines for reading, errors and display | `Upload`, `GetDataWithRanges`, `readAndPrintProgress`, `DetectEmptyRanges` | the balancer and the tracker; disk and page blob |
| `cloudprovider/objectstore.go` in parts | plan of the parts, offset, the bucket's multipart upload | `UploadObject`, `CopyObject` | the bucket of a provider (three kinds: as in S3, Azure, Google), every call of which may fail |
| `cloudprovider/objectstore.go` listings | marker, what has been listed | `GetPagedObjects`, `GetAllObjects`, `DeletePrefix` | `ICloudBucket`, which other clients change meanwhile |
| `cloudprovider/objectstore.go` CORS | the rules in the bucket | `SetBucketCORS`, `DeleteBucketCORS` | read, compute, write back, while others do the same |
| `cloudprovider/waitstatus.go`, `retry.go`, `resourcetags.go` | clock, count of the tries | all `Wait...` functions, `RetryOnError`, `RetryUntil`, `SetTags` | a resource whose status changes |
| machines of aliyun, aws, huawei, qcloud (`instance.go`) | the status of the last refresh | `StartVM`, `StopVM`, `DeleteVM` | the functions above, the API, other clients |
| `azure/azure.go` requests | the location of an asynchronous operation | `_jsonRequest` | `cloudprovider.Wait`, the API |
| system disks of aws, azure, google (`instance.go`) | machine, disks, a second machine, its interface | `ReplaceSystemDisk`, `RebuildRoot` | five to ten calls of the API, and those that undo them |
| `fetchRegions` of `aws/aws.go` and `huawei/huawei.go` | package variables (`sync.Map`) with list and time; a slice that clients share | `fetchRegions`, `getECSClient` | all clients of an account |
| `cloudprovider/dnszone.go` and the zones of aliyun, qcloud, aws | the records, and what was seen of them | `CompareDnsRecordSet`, `SyncDnsRecordSets` | callers that try again, other clients |
| `azure/upload.go` detection | list of ranges, bit map | `DetectEmptyRanges`, `LocateNonEmptyRangeIndices` | two unbuffered channels |
| `cloudprovider/securitygroup.go` | none (pure) | `CompareRules` | a library outside the repository |
| `remotefile`, `esxi/logger.go`, `huawei/obs/log.go` | a cache under a lock; log channels | load, log, rotate | files and servers |

The other components (`PROJECT.json` lists all of them, with the reason) are
declarations, default implementations, or one request per operation.

### What is hard here, and what correctness means

* **Balancer.** Two goroutines sift one heap; three read it without the lock
  (the poll of `dispatch`, the walk of `closeWorkersRequestChannel`, the scan of
  `tryStealWork`) and can meet a `Swap` that is half done. `dispatch` sends to a
  bounded channel with the lock held. Requests move between queues, owners and
  thieves while the channel is closed and the workers are torn down. Correct
  means: loads are exact, the least loaded worker is taken, nobody blocks with
  the lock, no request is lost or run twice, the end is announced once
  everything has ended and not before.
* **Tracker.** `Close` races the ticker; the record is overwritten while it is
  read. Correct means: no byte is lost or counted twice, the callback never goes
  back, the goroutines end.
* **Upload.** Three components end in an order that only the channels impose.
  Correct means: it returns whatever fails, nobody reports to a closed tracker,
  nil means that the disk was written.
* **Object store in parts.** Arithmetic at the limits of the bucket; any call
  may fail, with or without effect, the cleaning up too; and what a call does to
  the destination differs from bucket to bucket. Correct means: an object that
  appears has all bytes in their places and stays, nil means that it is there, no
  upload is left over, the parts are ones the bucket takes.
* **Listings.** Pages that contain nothing but folders, or one skipped object;
  other clients between two pages. Correct means: paging ends, and misses
  nothing that was there all the time.

* **Waiting and machines.** Between looking and acting the machine changes, by
  itself or by another hand; calls take time and fail. Correct means: nil is
  true, a timeout is not reported for what was reached in time, a machine takes a
  request once, a refusal is explained, every call returns.
* **Caches of regions.** Every load and store of several clients interleaves.
  Correct means: how old a list can be is bounded, nobody panics, a client's
  regions use this client.
* **Reconciliation** (DNS records, CORS rules, system disks). Several calls make
  one change. Correct means: nil says that the configuration is there, a failure
  halfway loses nothing that cannot be put right, a caller that tries again
  succeeds, an update is lost to overlapping calls only.

`PROJECT.json` has the list of hazards, each with its line, and the properties
that would catch it going wrong. Hazards that no model here can say more about
than the code shows at a glance are left to this list: the error listener of
`Upload` never ends (upload.go:94), and neither does the dispatcher of a
balancer that was torn down (balancer.go:125); a remaining time is divided by
an average of 0 (status.go:114); `getClient` reads a map without the lock under
which it is written, which ends the process if it happens (azure.go:158);
`UploadFile` leaves the page blob behind after an error (storageaccount.go:624);
aws deletes no record that has changed since it was seen, and says nothing
(aws/dnsrecordset.go:284; `Delete` of `DnsSync` has it); records may be sent, and
the callback called, after `Close` (status.go:122).

## 2. Modules

| Module | Models | Uses |
|---|---|---|
| `Pool` | `pool.go` and what `container/heap` does with it | |
| `Balancer` | `balancer.go`, `worker.go`, `request.go` | extends `Pool` |
| `Lists` | sorted lists, parts of a list, sums | |
| `Progress` | `status.go`, `readAndPrintProgress` | extends `Lists` |
| `Upload` | `Upload`, `GetDataWithRanges` | composes `Balancer` and `Progress` |
| `Multipart` | `UploadObject`, `CopyObject` | |
| `Listing` | `GetPagedObjects`, `GetAllObjects`, `DeletePrefix` | extends `Lists` |
| `TaskPool` | what the balancer promises: an abstract specification | |
| `BalancerRefinement` | the mapping of `Balancer` to `TaskPool` | extends `Balancer`, instantiates `TaskPool` |
| `EmptyRanges` | `DetectEmptyRanges`, `LocateNonEmptyRangeIndices` | |
| `Waiting` | `waitstatus.go`, `retry.go`, `resourcetags.go` | |
| `VMPower` | `StartVM`, `StopVM`, `DeleteVM` of four providers | extends `Waiting` |
| `AzureRequest` | `_jsonRequest` | extends `Waiting` |
| `RegionCache`, `AwsRegions`, `HuaweiRegions` | `fetchRegions`, `getECSClient` | the last two extend the first |
| `DnsSync` | `CompareDnsRecordSet`, `SyncDnsRecordSets` | |
| `Cors` | `SetBucketCORS`, `DeleteBucketCORS` | extends `Lists` |
| `RootDisk` | `ReplaceSystemDisk`, `RebuildRoot` | |
| `ListsProofs` | lemmas about `Lists`: ranks, sorted lists, chosen parts, sums | extends `Lists` |
| `UploadProofs` | theorems about `Pool`, `Balancer`, `BalancerRefinement` and `Upload` | extends `Upload`, `BalancerRefinement` and `ListsProofs` |
| `MultipartProofs`, `ListingProofs` | theorems about `Multipart` and `Listing` | extend the module they are about |
| `ProgressProofs`, `WaitingProofs`, `RegionsProofs`, `ReconcileProofs` | theorems about the components that `MCProgress`, `MCWaiting`, `MCRegions` and `MCReconcile` bring together | extend these modules |
| `MCBalancer`, `MCUpload`, `MCMultipart`, `MCListing` | the values of the constants for TLC | extend the module they check |
| `MCProgress` | detection, then reports | composes `EmptyRanges` and `Progress` |
| `MCWaiting`, `MCRegions`, `MCReconcile` | one run for several functions: `Init` chooses which is called | extend `VMPower` and `AzureRequest`; `AwsRegions` and `HuaweiRegions`; `DnsSync`, `Cors` and `RootDisk` |

Operators whose comment begins with "Mutant:" are altered copies of the
operator that follows them. Nothing uses them; `PROJECT.json` says which
property must fail when the altered copy takes the place of the original.

### Pool and Balancer

`slots` is `Pool.Workers`, `index` and `pending` are `Worker.Index` and
`Worker.Pending`, `lock` is who holds the mutex. `heap.Fix` is not one step: each
comparison of `down` and `up` is a step, and `Swap` is two (`SwapBegin` stores
the child's worker in the parent's place, `SwapEnd` the parent's in the child's
and both `Index`). Between them the goroutines without the lock run and see one
worker twice and another not at all. `Parent`, `MinChild`, `FixDown` and `FixUp`
are what `container/heap` does, from Go's library. `NewWorker` never sets
`Index`, so all of them start with 0: `PoolInit` says so.

Every goroutine has a program counter: `dPc` (dispatcher), `lPc` (listener) and
`wPc[w]` (worker `w`). A communication over an unbuffered channel is one step of
both sides; the workers' queues are bounded sequences with a flag `closed`.

| Code | Actions |
|---|---|
| `Balancer.Run`, the dispatcher goroutine | `SendRequest`, `CloseRequests`, `RecvClosed` |
| `dispatch` | `PollLoad`, `PollRead` (the two reads of the unlocked poll), `DispatchLock`, `DispatchFix`, `DispatchSend` |
| `closeWorkersRequestChannel` | `CloseNext` (one worker, a second close panics), `CloseDone` |
| `Balancer.Run`, the listener goroutine, and `completed` | `RequestHandled`, `CompletedLock`, `CompletedFix`, `WorkerFinished`, `AllWorkersFinished` |
| `Worker.Run` | `TakeOwn`, `StartSteal`, `StartWork`, `WorkSucceeds`, `WorkRetries`, `WorkFails`, `ReportError`, `Quit` |
| `tryStealWork` | `StealLoad`, `StealRecv`, `StealDrained`, `StealNothing` |
| `TearDownWorkers` | `TearDownWorkers` |

A worker that finds both its queue and the tear-down ready may take either, as
`select` does. After a panic no step is possible.

### TaskPool

A task is unsent, waiting, running, resolved (`ok`, `failed`) or dropped. At most
`Parallel` run at a time, each is run again at most `Retries` times, only
cancelling drops tasks, and none is started after it; `Announce` needs that
nothing runs and, unless cancelled, nothing waits. `BalancerRefinement` maps a
request that was sent to the state of its place: in the dispatcher's hand, in a
queue or in the hand of a worker between two rounds it is waiting; one that is
nowhere has been dropped. Where the request moves between these places, where
the heap is sifted, and where a thief takes it, `TaskPool` stutters. The panic of
finding 1 is `Crash`, after which nothing is promised.

### Progress, EmptyRanges and Upload

The percentage and the remaining time are computed from byte counts; the model
keeps the byte counts (`percent`, `recordBytes`), and the fact that a pointer to
one record is sent: `Callback` reads the record when it runs, not what it was
when it was sent. Ticks come at any time. Blocks are known by their numbers,
from 1; `Bytes` is the sum of the lengths of some of them.

`EmptyRanges` has both goroutines of the detection: `ReadDisk` (a read may fail),
`CloseIndexChan`, and on the other side `RecvIndex`, `RecvIndexClosed`,
`RecvLocateError`, and the loop `Compact` that moves ranges to the front of the
list it reads. Every set of zero ranges is a possible disk. `GetDiskType` is the
test at the top: only a fixed disk is searched, the list of any other disk is
returned as it is, with its empty ranges.

`Upload` conjoins the actions of the two. The `Work` of a request is two steps:
`WriteRange(w)` puts the block into the blob (`stored`), and returns nil (`w` is
then in `reporting`) or an answer that is lost; `BlockWritten(w)` is
`WorkSucceeds(w)` of the balancer with `Report` of the tracker. A work fails, or
is tried again, with or without its block in the blob. `ErrorRecv(w)` is
`ReportError(w)` with the receive of the error listener, and `ErrorSet`, the store of
`allWorkSucceeded`, is a step of its own. Each read of the disk may fail.

### Multipart

`Plan` is the arithmetic up to the choice between one shot, parts and refusal;
then one action per call of the bucket. A part is the range of the source's
bytes that it holds (`from`, `len`) and the place that the bucket is told
(`at`). Every call may return an error, and those that change the bucket may
have taken effect when they do. `CopyObject` advances `offset` only on the way
to an error (objectstore.go:661-664): `CopyPart` leaves it alone.

The calls do different things in different buckets (`kind`):

* `"azure"` (azure/storageaccount.go:1019-1148): `NewMultipartUpload` replaces the
  destination with an empty blob and takes a lease on it (`Created`);
  `CompleteMultipartUpload` puts the list of the blocks and then releases the
  lease, and may fail between the two (`CompletedInPart`); `AbortMultipartUpload`
  releases the lease and deletes the destination, finished or not (`Deleted`).
* `"google"` (google/bucket.go:229-236, 397-412): a part is sent with the place of
  its bytes, taken from `offset`, and `CompleteMultipartUpload` only looks for an
  object with the key, which may be the old one. That the service puts the bytes
  where `Content-Range` says and makes the object when it has the last one is
  external (`PartArrives`).
* `"s3"`: an upload with an identifier, parts with numbers, an object when it is
  completed: the contract of the other providers' buckets, which pass the calls
  on to their services (those of ucloud and remotefile do not support them).

So an upload to Azure that fails may leave an empty destination or none where
there was an object before, and `CopyObject` in parts to Google sends every part
with the place 0, never writes the object, and returns nil if there was one
before (`CopyLost`). `AllOrNothing` and `FinishedStays` say so.

### Listing

A key is a number, in the order of the strings; `Folder` gives the common prefix
of a key up to the delimiter. `ListObjects` is the contract on which the code
relies: the first entries after the marker, whether there are more, and a marker
for the next page if there is a delimiter, without one only in some buckets
(`givesMarker`). The services and most of the clients behind it are external. One
implementation in the repository is known not to keep this contract: Azure's, which
lists all containers of an account one after the other, skips a container whose name is
smaller than the marker although the marker lies in it (azure/storageaccount.go:882-896),
so that a second page begins with the next container. What is checked and proved of
`Listing` is about the functions in objectstore.go and does not apply to that bucket. `Others` are the other clients. `kept` and `old` are history:
what has been there, and what nobody has put, since the function was called.

### Waiting, VMPower, AzureRequest

Time is counted in ticks. `pc` leads from the test of the loop (`LoopTest`) to the
call (`Answer`, which tells the status at that moment, or fails), the comparison
(`Handle`) and the sleep (`Pause`, `Wake`); `Tick` advances the clock until the
sleep ends or the call is due. `Change` is the cloud or another client. `since`
and `had` are history: since when the status is what it is, and which ones
there have been.

`VMPower` puts `Begin` in front (what the function does with the status of the
last refresh), `RegionStatus` (the second look, not in aws) and `RegionSend` (the
request), and the waiting that each provider chooses after it. The cloud takes a
request or refuses it; what it makes of the machine may show at once or later
(`Take`, `pending`, `Show`; the cloud itself goes by `Real`), and its answer may be
lost. Below the region's functions a request is sent again after a pause
(`SendsAgain`, `Resend`): by aliyun and qcloud up to three times, also when the
answer was lost (aliyun/aliyun.go:168, qcloud/qcloud.go:326), by huawei only when
there are too many requests, which have then no effect
(huawei/client/modules/manager_base.go:245). A refusal that such a layer tries
again, like that of a machine in operation, is one that fails without effect; the
retries of the aws SDK are outside the repository. The pauses are those of aliyun
and qcloud in units; the one after the last try, and huawei's fixed one, are not
timed, and the retries of reads are within the time of the call. `Settle` lets the
machine finish what it has begun; `Meddle` is somebody else. qcloud's prepaid
machines are deleted twice, with a wait in between whose result nobody uses.
In `AzureRequest` the status is that of the operation, seen through the header
that the answer names (`Azure-Asyncoperation`: a status; `Location`: an empty body
until the resource is there), and each answer may carry a `Retry-After`.

### RegionCache, AwsRegions, HuaweiRegions

A list is the time at which the cloud gave it. aws keeps it and its time in two
maps: `LoadCacheAt`, `TestCache`, `StoreResult`, `StoreCacheAt`, `LoadResult` are
five steps, and two clients' steps mix. huawei keeps one entry, but the list in
it is a slice: `memory[s]` is the backing array, which clients without a project
use in place, and into which `SetClient` and `GetECSClient` write, element by
element; clients with a project have a `copy`.

### DnsSync, Cors, RootDisk

`DnsSync` knows a record by what `String()` tells, with TTL and status as what
`Equals` compares. `CompareDnsRecordSet` computes what is to be deleted, added
and updated from what was `seen`; then there is one action per call (`Delete`,
`Add`, `Disable`, `Update`, `UpdateRecord`), each of which fails, with or without
effect, or is refused. What an update writes is what was seen (dnszone.go:680).

`Cors` has several callers; `GetCORSRules`, then `Write`. `Updated` and `Left` are
the computation in between; ids are positions, and negative ones are numbers
to `Atoi`. The loops of the code that append what they do not skip are `Chosen`:
the elements at some positions, in their order.

`RootDisk` has one action per call that changes something. `Try` is a call: done,
failed with or without effect, or refused, with what the code does after success
and after failure; deferred calls are calls at the end, in Go's order. A disk
that a machine has cannot be deleted, nor taken by another machine. aws and
azure make a second machine for the sake of its disk; aws deletes it in any case
(with its disk, unless that was detached), azure before it exchanges the disks.
google's undo, `GoogleAttachOld`, is always refused: it passes a link to
`AttachDisk`, which looks for a disk with that Id.

## 3. Runs

| Run | Bounds | What it shows |
|---|---|---|
| `balancer` | 2 workers, queues of 2, 1 retry, 4 requests | `LoadExact`, `FinishedMeansResolved`, `LeastLoaded`, `ImplementsTaskPool` |
| `liveness` | 2 workers, queues of 1, 3 requests | `NeverBlocksHoldingLock`, `EventuallyFinishes`, `EventuallyResolved` |
| `progress` | a fixed disk or another, 4 ranges of 1 to 4 bytes, any of them empty, a buffer of 2 | `BytesConserved`, `ExactlyData`, `CallbackMonotone`, `TrackerStops`, `DetectionEnds` |
| `upload` | 2 workers, queues of 1, 3 ranges of 1, 2 and 3 bytes | `NoReportAfterClose`, `WrittenBytesCounted`, `NilMissesAtMostOne`, `UploadReturns` |
| `multipart` | three kinds of buckets, with and without an object before, sizes 0 to 36, blocks -1, 0 and 3 to 6 bytes, at most 4 parts of at most 8 | `AllOrNothing`, `NoUploadLeft`, `PartsWithinLimits`, `FinishedStays` |
| `listing` | 5 keys (the directory, two objects, two in a folder), pages of 1 to 3, 2 changes by others | `PagesMissNothing`, `DeletedWhenNil`, `PagingEnds` |
| `waiting` | interval 2, delay 3, calls of at most 1 tick, `Retry-After` 1, timeouts 0, 1 and 5, 0 or 2 tries, 3 changes by others | `KeptIsSeen`, `EndsInTime`, `NilIsTrue`, `RefusedByOthers`, `SentOnce`, `AzureEndIsSeen`, `EventuallyReturns` |
| `regions` | 3 clients, one with a project; lists expire after 1 (aws) and 3 (huawei) ticks, 2 slices, the clock up to 3 | `OwnRegions`, `FreshEnough`, `PanicOnlyAtFirst` |
| `reconcile` | 2 records with 2 TTLs, 1 failure, 1 change by others; 2 callers with up to 2 rules or ids out of -1, 0, 1 and 9, up to 2 rules in the bucket; 3 failures of disk calls | `SyncedWhenNil`, `EventuallySynced`, `OnlyOverlapsLose`, `ChangesWhatIsNamed`, `NoDiskLost`, `OneFailureLeaves` |
| `close_once`, `upload_result`, `listing_all` | as above, smaller | the findings of section 5 |

The type invariants are not listed with the runs: they document the variables,
those of `Balancer`, `Upload`, `Progress` and `Multipart` are proved (for `Cors` see
`CorsTypes` in the proofs), and the others say nothing that a wrong line of code
would break first.

**Why the bounds are enough.** Two workers with queues of one are both busy with
two requests (a request counts for `Pending` until it has been handled), and the
third makes the dispatcher poll; with queues of two the loads differ, so that
the heap is sifted in both directions, and the fourth request is dispatched while
they go up and down; stealing takes two workers. With two workers the heap has a
root and a leaf, so that a torn swap is visible; the choice of the smaller child
and a sift over two levels need four: `LeastLoaded` is proved for every number.
For `Multipart` the sizes reach below one block, to an exact multiple of a block,
to the limit of the count, of the size, and beyond 4 parts of 8 bytes (refused).
Each is tried with every kind of bucket, and with an object at the destination
and without. For `Listing` pages of one contain nothing but the folder or the skipped
directory. In `waiting` a timeout of 5 is two laps and a half, so that a status
can come and go between two looks, and three changes take a machine from one
status through two others. In `regions` the clock passes the expiry of both
caches. In `reconcile` one failure and one change by others are both possible in
one sync, before, between and after its calls; for disks three failures let a
call, the call that undoes it, and the one after that fail.

`MaxChanges`, `MaxListed`, `NumRequests`, `MaxFailures`, `MaxMeddles`, `MaxFails`,
`MaxOld`, `MaxGiven`, `MaxTime`, `MaxSlices` and the sets of sizes are bounds of the
models, not of the code. Deadlock is not checked: all of these functions end,
and the error listener and the dispatcher of a torn-down balancer wait for ever.

**Fairness.** Weak fairness of each goroutine: a goroutine that can go on does.
This includes that the `Work` of a request, the reads of the disk and the calls
of the bucket return (with success or failure; in `Listing` weak fairness is on
the calls that succeed, so that failing is never needed to end). `Done`, the
receive of `doneChan` in a `select` that the ticker keeps interrupting, has
strong fairness: `select` chooses at random between what is ready, and there is
half a second between two ticks. Clients are not obliged to do anything.
In `waiting` the goroutine runs, time passes (a sleeper wakes on time, a call
returns within `CallTime`), the effect of a request shows in the end, and a
machine settles what it has begun: without the last DeleteVM of aliyun, which repeats its request for as long as the machine is
initializing, would not return. In `reconcile` the caller whose sync has failed
tries again (the caller is outside the repository: this is an assumption on it,
and `EventuallySynced` says what it then can rely on); the failures and the changes by others are finite. `Multipart`, `regions`, `Cors` and
`RootDisk` have no liveness property and no fairness.

**Composition.** `Upload` takes the tracker's receiver, on which the workers'
reports depend; its sender and consumer only read the sum, nothing in `Upload`
waits for them, and `progress` checks them with reporters that report in any
order.

## 4. Proofs

All of these hold for every number of workers, size of the queues, number of
retries, requests, ranges, clients, records and keys, for every size of an object
and of a page, every interval, timeout and duration of a call, and for any number
of failing calls and of changes by others. The theorems are about the same
specification that the run checks; none of them uses its fairness.

| Theorem | Says of every behaviour |
|---|---|
| `UploadProofs!TypeCorrect` | `[]TypeOK` |
| `UploadProofs!LockIsHeld` | `[]LockHeld` |
| `UploadProofs!PendingIsLoad` | `[]LoadExact` |
| `UploadProofs!TakesLeastLoaded` | `[]LeastLoaded` |
| `UploadProofs!NeverBlocks` | `[]NeverBlocksHoldingLock` |
| `UploadProofs!EndMeansResolved` | `[]FinishedMeansResolved` |
| `UploadProofs!BalancerImplementsTaskPool` | `ImplementsTaskPool` |
| `UploadProofs!UploadTypeCorrect` | `[]UploadTypeOK` |
| `UploadProofs!UploadUsesATaskPool` | `ImplementsTaskPool`, of `UploadSpec` |
| `UploadProofs!WrittenIsCountedOnce` | `[]WrittenBytesCounted` |
| `UploadProofs!ClosedAfterTheWorkers` | `[]NoReportAfterClose` |
| `UploadProofs!NilMissesOneBlock` | `[]NilMissesAtMostOne` |
| `ProgressProofs!CallbackOnlyGrows` | `CallbackMonotone` |
| `ProgressProofs!BytesAreConserved` | `[]BytesConserved` |
| `ProgressProofs!DetectsExactlyData` | `[]ExactlyData` |
| `MultipartProofs!MultipartTypeCorrect` | `[]MultipartTypeOK` |
| `MultipartProofs!NothingInBetween` | `[]AllOrNothing` |
| `MultipartProofs!PartsFit` | `[]PartsWithinLimits` |
| `MultipartProofs!UploadIsClosed` | `[]NoUploadLeft` |
| `MultipartProofs!FinishedObjectsStay` | `FinishedStays` |
| `ListingProofs!PagingMissesNothing` | `[]PagesMissNothing` |
| `ListingProofs!NilMeansDeleted` | `[]DeletedWhenNil` |
| `WaitingProofs!NilIsAlwaysTrue` | `[]NilIsTrue` |
| `WaitingProofs!WaitsEndInTime` | `[]EndsInTime` |
| `WaitingProofs!WaitsSeeWhatIsKept` | `[]KeptIsSeen` |
| `WaitingProofs!RequestsSeeTheEnd` | `[]AzureEndIsSeen` |
| `WaitingProofs!MachinesAreAskedOnce` | `[]SentOnce` |
| `WaitingProofs!RefusalsAreByOthers` | `[]RefusedByOthers` |
| `RegionsProofs!ListsAreFresh` | `FreshEnough` |
| `RegionsProofs!PanicsOnlyAtFirst` | `PanicOnlyAtFirst` |
| `RegionsProofs!RegionsAreOwn` | `[]OwnRegions` |
| `ReconcileProofs!NoDiskIsLost` | `[]NoDiskLost` |
| `ReconcileProofs!OneFailureLeavesOnly` | `[]OneFailureLeaves` |
| `ReconcileProofs!NilMeansSynced` | `[]SyncedWhenNil` |
| `ReconcileProofs!CorsChangesWhatIsNamed` | `ChangesWhatIsNamed` |
| `ReconcileProofs!OverlapsAreTheOnlyLoss` | `[]OnlyOverlapsLose` |

Each inductive invariant was checked with TLC on the instance of the run before
it was proved.

**The heap** (`PoolInv`). `Logical` is the heap as if the swap in progress were
complete; it is a permutation of the workers. Between two calls of `Fix` every
element is at least its parent (`HeapIdle`). While `Fix` sifts down, the order
may fail only between the sifted element and its children, and where it began
also between it and its parent (`HeapDown`); while it sifts up, only between it
and its parent (`HeapUp`). In both phases its children are at least its parent
(`Bridged`), so that a swap repairs one pair without spoiling another.
`IndexRight` cannot say that `Index` is the position of every worker, since
`NewWorker` leaves it at 0. It says so of the root and of the workers whose
`Pending` is positive, which is enough: `dispatch` fixes the root, `completed` is
called for a worker with a load, and `LoadExact` gives it a positive `Pending`. So the heap needs the loads, and the
loads need the lock (`LockHeld`): the three are one induction (`DispatchInv`).

**The poll without the lock** (`Capacity`). `dispatch` checks that the root has
room, then takes the lock, and by then another worker may be at the root. That
is harmless, since only the dispatcher itself ever raises a `Pending`: the least
load can only have fallen. With `LoadExact` the queue of the worker at the root
then has a free place, and the send under the lock does not block.

`DispatchInv` speaks of the time until the queues are closed. After that
workers steal, and `Pending` is no longer the load (worker.go says so); nothing
is dispatched any more.

**Where a request is** (`UploadProofs!TaskInv`). Until the workers are torn down,
a request that was sent and is not resolved is in exactly one place: the
dispatcher's hand, one position of one queue, or the hand of one worker. A
queue of a worker that has left its loop is empty and closed, so that nothing is
left in a queue that nobody serves; with the count of the workers that have
returned this gives `FinishedMeansResolved`. The refinement needs the same
invariant: a step moves at most one request, and where a request is determines
what `TaskPool` sees of it (`Placement`). So a steal, a retry and a dispatch are
each a step of `TaskPool` or none.

**Upload** (`UploadProofs!UploadInv`). Each step of `Upload` is one of the balancer
or leaves it alone, so that everything proved of `Balancer` holds inside of it
(`BalancerInUpload`). `EndInv` ties the places of `Upload` to those of the
listener: the tracker is closed when the balancer has announced the end, hence
when all workers have returned. `SentInv` says that without an error of the disk
all ranges are sent and nobody is torn down, `FailedInv` that a failed block is in
the hand of a worker that has not reported it, or is the one that the error
listener is about to record; at the end no worker holds any. The refinement is
inherited in the same way: a step of `Upload` is one of `TaskPool` or none.

**The bytes** (`ProgressProofs!Counted`, `UploadProofs!CountInv`, `BlobInv`). A report adds the length of
a block to what waits in the channel and to what was reported, the receiver moves
it to the sum. In `Upload` what was reported is what was written: `TaskInv` gives that
the request in the hand of a worker that runs it is not resolved, so that no block
is counted a second time after a retry or a steal, and a step that fails a block
takes none of the written ones away. `BlobInv` says that a worker between its write
and its report still runs that work, and that its block is in the blob: no step of
another goroutine takes the request from it (`ReporterFrame`). The sums are a recursive function, of which
the provers know only that it is one that satisfies its equation, if there is any.
`SumsExist` and `SumsAgree` show by a least counterexample that there is exactly
one; then the sum of a list, of its tail, and of a list with one more element or
one element changed follow from a witness (`SumTail`, `SumAppend`, `SumExcept`), and
the sum over a set of blocks from them (`SumOver`). The assumption is that blocks are
numbered from 1.

**Tracker and detection** (`ProgressProofs`). `Behind` orders the three copies of the
sum, callback, record and count, and every step keeps the order although the
record is overwritten between the send and the read. `Compacting` says that the
loop writes behind the place at which it reads: the front of the list is the data
among the ranges that it has passed, and the rest is unchanged. `Located` gives
that the bits are those of the ranges with data up to the index that was read.

**The parts** (`MultipartProofs!Inv`). `PlanFits` is the arithmetic: rounding up
the count, and in the other case the size, leaves a last part of at least one
byte and at most the size of the others. `PartsInv` says that the parts sent so
far follow each other from byte 0, `LoopInv` that they end at `i` parts of the
planned size, so that the last one closes the gap, and that `offset` goes with the
stream in `UploadObject` and stays 0 in `CopyObject`, so that Google's bucket makes
the object with the last part of the one and never in the other. `LateInv` says of Azure that a finished object meets an abort only after a
completion that failed. The assumption
`MultipartAssumption` requires of a block that it has at least
`MaxPartCount - 1` bytes. It is needed: with at most 10 parts, blocks of 2 bytes
and an object of 21, there would be 10 parts of 3 bytes, of which the last would
have to have -6. Real buckets take at most 10000 parts, and blocks are of
several megabytes; no caller in the repository comes near the limit.

**The listings** (`ListingProofs!ListingInv`). What has been listed ends at the marker,
and every object that stays and lies up to the marker has been shown
(`PagedInv`): neither half is inductive without the other. A page is a first part
of what lies after the marker, and the marker that it gives is its last entry,
also when this is a common prefix or the skipped directory (`PageFacts`); without
that the pages would overlap or leave a gap. For `DeletePrefix` the last request of
`GetAllObjects` begins at the start and was not truncated, so that it has listed
the whole bucket (`AllStep`), however often the first page was repeated before;
what is left of the first objects is then among those still to be deleted
(`DeleteInv`). `Sorted` is defined by what it returns, and `SortedFacts` of `ListsProofs` proves that
there is such a list of every finite set. The assumption is that keys are
positive numbers, finitely many, and that a folder is not a key and comes before
the keys in it.

**Waiting** (`WaitingProofs!WaitingInv`). `Truth`: an answer is a status that the resource
has had since the call, and nil is returned upon nothing else. `WaitClock` and
`RetryClock` bound the time at each place of the loop; the pauses of retries add
up to a triangular number (`Tri`). `Seen` is the one that is not obvious: as long
as the loop goes on, an end that the last answer does not show was reached after
the call for it, so no longer than one lap ago. `Starts`, `Stops` and `Deletes` say
in which status the machine really is (`Real`) between the second look and the
request, if nobody meddles: once a request was taken the machine is in a status
that takes no second one of this kind, whatever the look has shown and however
often the request is sent again.

**The caches of regions** (`RegionsProofs`). `Clocks`: a call lasts at most one request.
For aws, `AwsInv` says that every time in the cache, and every time that some
client has loaded from it, is that of a list at least as new, although list and
time are stored one after the other and by several clients: the list is always
stored first. `Safe` is the condition from which a client can no longer panic, and
it is stable. For huawei, `Slices` says which slices exist, and `OwnInv` that, as
long as nobody has overlapped, two clients never hold the same slice and that
what a client has written into its own is not written by others.

**The disks** (`ReconcileProofs!RootInv`, `LeftInv`). `NoDiskLost` is not inductive: that
the old disk may be deleted, and the new one attached, depends on where the
function is. `DisksInv` adds that no two machines have the same disk (so that
deleting the second machine does not take the first one's), `StepInv` what there is
before each call. `OneFailureLeaves` needs more: what there is before each call as
long as nothing has failed, and what the calls that undo still have to do
(`AwsLeft`, `AzureLeft`, `GoogleLeft`).

**The DNS records** (`ReconcileProofs!SyncInv`). While a sync runs and nobody has
touched the zone, the records that are there are those wanted without what is
still to be added, and those still to be deleted; each has the attributes that
`SyncedWhenNil` promises, but for the one that is being disabled. A failed try does
not break this, for the next one starts from what it then sees.

**The CORS rules** (`ReconcileProofs!CorsTypes`, `AddedInv`). `UpdatedFacts` and `LeftFacts` say
what the two functions compute: at a position that is named the last rule that is
given for it, the other rules where they are, the new ones behind, and after a
deletion each rule that is left in the place that its rank among them gives
(`ChosenFacts`, `SortedRank`). With the fact that only a write brings a nil
(`NilIsAWrite`) this is `ChangesWhatIsNamed`. `OnlyOverlapsLose` is not inductive: a
rule is safe from a later call only if its position is taken for a new one, hence
only as long as the bucket is small. `AddedInv` adds that it has at most `MaxOld` rules and
`MaxGiven` more for each call that has ended, and that whoever is about to write has
read what is there, for otherwise a write has disturbed him. The assumption is
that there are finitely many callers.

**Only model-checked.**

* Liveness under fairness (`EventuallyFinishes`, `EventuallyResolved`, `TrackerStops`,
  `DetectionEnds`, `UploadReturns`, `PagingEnds`, `EventuallyReturns`,
  `EventuallySynced`): out of the prover's reach.

So every invariant and every action property of the runs is proved, and so is
the refinement; only what must eventually happen is left to TLC. The three
runs that find a violation are counterexamples, which TLC gives and a proof cannot.

## 5. Findings

Where the runs contradict what a comment or a message in the code says:

1. `close_once` (balancer.go:115): `closeWorkersRequestChannel` walks the heap
   without the lock while `completed` may be half-way through a `Swap`. It can
   meet one worker twice, and the second close of its channel panics.
2. `upload_result` (upload.go:146): `Upload` can return nil although a block
   failed: the listener has received the error, and `allWorkSucceeded` is read
   before it is stored. `NilMissesAtMostOne` shows that only one can be missed.
3. `listing_all` (objectstore.go:447): in `GetAllObjects` the marker is
   shadowed in the loop. With more than 1000 objects the first page is requested
   for ever. `DeletePrefix` uses it.
What the models contain although no comment, test or document contradicts it,
and what the properties therefore allow, each as an exception that they name:

* `CopyObject` tells the bucket offset 0 for every part (objectstore.go:661), which
  only Google's bucket looks at: it never has the last byte, and nil is returned
  if the key existed before (`CopyLost` of `AllOrNothing`).
* Azure's `CompleteMultipartUpload` can write the object and fail to release the
  lease; the abort that follows deletes the object (azure/storageaccount.go:1108,
  1142): `FinishedStays`. A failed upload to Azure loses the old object:
  `AllOrNothing`.
* aws starts a machine again whose start does not show yet (`SentOnce`), and in
  aliyun, huawei and qcloud a request that was taken, and whose effect does not
  show yet or whose answer was lost and which is sent again, is refused
  (`RefusedByOthers`).
* A worker may return although a peer's queue holds work (worker.go:124). No
  request is lost by that: `ImplementsTaskPool`.
* huawei asks for the regions again as long as the list has not expired, and
  uses it once it has (huawei.go:416): `Refetch`. The turned condition is plainly
  not what was meant, but no comment, test or document says so, and no property
  is made of it. It hides that clients share the slice. `OwnRegions` holds as long as nobody overlaps and
  nothing has expired; with the condition the right way round it would fail for
  any two clients of one user, so that the two belong together.
* aws's `fetchRegions` can panic, only before the first list and its time are both
  stored (aws.go:200): `PanicOnlyAtFirst`.
* An update of a DNS record writes what was seen, not what is wanted
  (dnszone.go:680), and a record that could not be disabled stays in force:
  `SyncedWhenNil` says that found records keep their TTL and status.
* A CORS rule with a negative position is dropped (objectstore.go:770):
  `ChangesWhatIsNamed`.
* `SetTags` returns nil when the tags did not show (resourcetags.go:47), and
  huawei's `StartVM` and `StopVM` believe the last refresh (instance.go:572):
  `NilIsTrue`.
* A machine of aws or google stays without a system disk when a call fails after
  the old one was detached; google's attempt to attach it again cannot succeed
  (google/instance.go:936). The disk itself is never lost: `OneFailureLeaves`,
  `NoDiskLost`.

## 6. Not modelled, and why

* Logging, formatting of errors, ACLs, storage classes, metadata: no property
  depends on them.
* `Pool.Push`, `Pool.Pop`, `WorkersCurrentLoad`, `ReaderWithProgress`: called by
  nobody.
* Percentages, throughput and remaining time: floating-point functions of the
  byte counts.
* The race of plain loads and stores is modelled as interleaving: a reader
  without the lock sees the memory between two stores of a `Swap`. Values that
  are older than that, which Go's memory model allows, are not considered.
* The source of a copy does not change while it is copied.
* DNS records with more than one value or with a description, and the TTLs that
  dnspod changes: one more call, and a conversion. `DeleteVM` of aws, which ends
  in a waiter of the SDK.
* `CompareRules` (securitygroup.go): it sorts, and leaves the decision to the
  library `secrules`, which is not in the repository.
* The cache of clients, the subscriptions and the pagination of `azure.go`.
* The providers' other operations, which are by far most of the 317000 lines: one
  REST call each, and the conversion of JSON. A model of such an operation is the
  call itself, and would have no property that is not its definition; so the map
  covers a small share of the lines, and most of those where several steps, several
  actors or a failure halfway matter.
* apsara, hcs and hcso are in large parts copies of aliyun and huawei; what holds
  of the originals was not checked against the copies.

## 7. Plan

Done: `Pool`, `Balancer`, `TaskPool` with the refinement, `Progress`, `EmptyRanges`,
`Upload`, `Multipart`, `Listing`, `Waiting`, `VMPower`, `AzureRequest`, the caches of
regions, `DnsSync`, `Cors`, `RootDisk`, and the proofs above, which cover all safety
properties of the runs.

Next to prove: what the liveness properties rest on, as far as it is safety, such
as a measure that every step of a wait or of a page makes smaller.

Next to model: the cache of `remotefile`, the channels of the `esxi` logger, the
pagination of `azure.go`, a source that changes while it is copied, and the copies
of `VMPower` in other providers.
