# TLA+ models of the reqrypt tunnel manager (`src/src/tunnel.c`)

This directory holds TLA+ models of the tunnel manager core and the TLC
configurations that check them. Each definition is translated from
`tunnel.c`. `PROJECT.json` maps each definition to the lines it models. It
also lists the runs, the mutants, the findings and the hazards.

## 1. Inventory

### Components and their state

| component | code | state | operations |
|---|---|---|---|
| Tunnel record | `struct tunnel_s`, `tunnel_create`, `tunnel_free` | url, state (CLOSED, OPENING, OPEN, DEAD, CLOSING, DELETING), age (uint8), weight (double), reconnect flag, driver handle, id (uint16, from a static counter) | create, free (defers to the activate thread when OPENING) |
| Tunnel sets | `tunnel_set_*` | `tunnels_cache`, `tunnels_active`: arrays of pointers | insert, replace, delete, lookup by URL |
| Persistence | `tunnel_file_read`, `tunnel_file_write` | the files `TUNNELS_FILENAME`, `.bak` and `.tmp` | read at start-up (falls back to `.bak`); write = rename primary to `.bak`, write `.tmp`, rename `.tmp` to primary |
| Activate manager | `tunnel_activate_manager` | its loop position | rounds that mark up to `MAX_INIT_OPEN - |active| + 1` CLOSED tunnels OPENING and start activate threads |
| Activate task | `tunnel_activate`, `tunnel_try_activate` | per thread: retries, result | up to `MAX_RETRIES` unlocked open attempts, then a locked switch on the state, then a file write |
| Reconnect controller | `tunnel_reconnect_manager`, `tunnel_reconnect` | the reconnect flag of each record | poll active tunnels for timeouts; open a new record and replace the old one, or deactivate on failure |
| Selector | `tunnel_get` | weights, a static 1024-slot history `(hash32, id)` | weighted pick by hash, punishment of the last tunnel on a retransmission, reward |
| Forwarding | `tunnel_packets` | none of its own | select, check the MTU, write the packets to the driver |
| Admin | `tunnel_add`, `tunnel_delete`, `tunnel_ready`, `tunnel_*_html` | none of their own | add/re-open, delete/deactivate, queries |

The transport driver (`cktp_*`), the HTTP server, logging, the RNG and the
clock are external. Driver results (open succeeds, timeout, MTU) are
nondeterministic choices in the models.

### How the components interact

There is one mutex, `tunnels_lock`. It protects both sets, every record's
fields, the RNG and the selector's history. Many threads share it:

- the activate manager;
- the reconnect manager;
- one activate thread per activation;
- one reconnect thread per reconnection;
- the packet path (`tunnel_packets`);
- the administrative callers.

Driver calls and sleeps run without the lock. The states OPENING, CLOSING and
DELETING carry the hand-over between a thread that released the lock and one
that changes the record meanwhile. Every `tunnel_file_write` takes the lock
again after its caller released it.

### What is hard

- **Interleavings.** `tunnel_try_activate` reads the record's state without
  the lock. Delete and reconnect can change the record between two steps of
  another thread. A reconnect thread uses its new record after unlocking.
- **Ownership of memory.** Freeing is deferred through DELETING, and
  `tunnel_free` has three behaviours. Any path that frees too early, or never
  frees, is a use-after-free or a leak.
- **Stale guards.** The reconnect flag lives on a record, but records get
  re-created. The manager reads `tunnels_active.length` without the lock. The
  reconnect failure path uses a freed URL string.
- **Numeric edges.**
  - `size_t` underflow of the manager's `max`;
  - the 16-bit id counter wraps, and it is incremented without the lock;
  - `pick` is divided by `UINT32_MAX` rather than 2^32;
  - `char` holds the value of `getc`.
- **I/O failure and crashes** during the three-file write protocol. Two
  early returns leave the lock held: the fopen failure in
  `tunnel_file_write` and the MTU-0 return in `tunnel_packets`.

### Properties that make each component correct

- **Sets.** URLs are unique in each set. The active set is inside the cache.
  No set holds a freed pointer.
- **Lifecycle.**
  - `panic()` is unreachable.
  - No record is driven by two threads.
  - No record is used after it is freed, and none is leaked.
  - Every activation ends.
  - The manager keeps going until MAX_INIT_OPEN tunnels are active.
- **Reconnect.**
  - At most one reconnection per URL runs at a time.
  - A success leaves an OPEN tunnel in both sets.
  - A failure deactivates exactly that URL.
- **Persistence.** The file is current once the threads are done. After a
  crash at any point, a read gives the old or the new contents. A partial
  write never loses tunnels. Together: the three files implement one atomic
  file.
- **Selector.** The chosen index is in bounds. Weights stay in
  [0.005, 1]. A retransmission moves off the tunnel that carried the packet.
  Ids are unique.
- **Forwarding.** Every return path releases the lock.

## 2. Plan

Modules, in order of importance:

1. **`Tunnels`** (done). The lifecycle of records and sets under every
   interleaving of add, delete, the activate manager, activate threads, the
   reconnect manager, reconnect threads and file writes. `MCTunnels`
   instantiates it.
2. **`Selector`** (done, section 4). `tunnel_get` as a pure operator with the history
   as state. Weights are fixed point (unit 1/2000, so the 0.005 floor is 10).
   Hashes use a reduced width W: the code's W is 32, and the edge
   `weight_hash = 2^W - 1` exists at every width. The walk is
   checked against a reference definition of the weighted pick over all
   bounded inputs. It adds ids, with the unlocked `id++` of `tunnel_create` as two steps.
3. **Forwarding** (done, inside `Selector`). `tunnel_packets` with an
   explicit lock, to check that every return path releases the lock.
4. **`Persistence`** (done, section 5). Three files (primary, `.bak`,
   `.tmp`) and each file-system call of `tunnel_file_write` as an action, with
   crashes between calls, failed fopen, a rename whose source is missing, and the `WINDOWS` build as
   a constant. It refines the abstract specification `AtomicFile`
   through `INSTANCE ... WITH`; the refinement mapping is the file a read
   would load. Still open: torn writes, and `tunnel_file_read` at line
   granularity with `char` signedness as a constant (hazards 352 and 281).
5. **Composition** (done through refinement, section 5). `Tunnels` uses
   the one-step snapshot `file`; `Persistence` shows that the real protocol
   implements that atomic file, so the two are not model-checked together.
6. **`TunnelSet`** (done, section 4). The abstract promise of the active
   array, which the selector model refines.

## 3. The `Tunnels` module

### State

| variable | code |
|---|---|
| `rec[r]` | the `struct tunnel_s` fields (`url`, `state`, `age`, `reconnect`, `drv` = handle non-NULL), plus `mem` ∈ {unalloc, live, freed} for the heap |
| `cache`, `active` | `tunnels_cache`, `tunnels_active` as sequences of pointers |
| `pc[r]`, `owner[r]`, `retries[r]`, `result[r]` | the thread (activate or reconnect) driving record `r`, and its locals |
| `logging` | records a reconnect thread will read after unlocking (line 847) |
| `mgr` | the activate manager: scanning, checking after its sleep, or ended |
| `admin`, `writes` | file writes owed by the admin caller and by finished activate threads |
| `file` | the cache file as the sequence of `<<url, age>>` it lists |
| `clash` | ghost: a thread was started on a record another thread drives |
| `lock` | `tunnels_lock` between locked regions: free, or leaked by a `tunnel_file_write` that returned holding it |

### Actions

Each action is one locked region of the code, or one unlocked step:

- `AddUrl`, `DeleteUrl`: the locked parts of `tunnel_add` and
  `tunnel_delete`;
- `AdminWrite`, `TaskWrite`: the `tunnel_file_write` calls that follow them.
  Both are `WriteFile`: the file becomes the cache in one step, or, when
  the constant `FopenFails` allows it, `fopen` of `.tmp` fails and the
  function returns at line 342 with the lock held (`lock = "leaked"`).
  Every locked region (and the stagger lock on entry to
  `tunnel_try_activate`) is guarded by `lock = "free"`;
- `ManagerScan`, `ManagerCheck`: a round of the activate manager, and its
  unlocked loop condition;
- `TryLoop`, `TryOpen`: the while condition and one open attempt of
  `tunnel_try_activate`;
- `ActivateFinish`: the switch of `tunnel_activate`;
- `ReconnectPoll`: one poll of the reconnect manager that finds a timeout;
- `ReconnectSucceed`, `ReconnectFail`, `ReconnectLog`: the two branches and
  the log line of `tunnel_reconnect`.

Two reductions are sound:

- A poll that finds two timeouts equals two polls with nothing in between.
- The first lines of `tunnel_reconnect` touch only its private new record,
  so they are taken in the poll.

UB and implementation detail:

- Tunnel URLs are not modelled as strings. The reconnect failure path reads
  a freed string (`free(url)` at 814, used at 858). That read is a
  nondeterministic key: the URL itself, another URL, or garbage that matches
  nothing.
- The weight and id fields belong to the selector model.

### Runs

| run | cfg | expect | what it shows |
|---|---|---|---|
| lifecycle | `MCTunnels.cfg` | pass | `TypeOK`, `PanicFree`, `NoDanglingSetEntry`, `ActiveInCache`, `UniqueUrls` and `NoDoubleActivation` hold under every interleaving |
| activation_terminates | `MCTunnels_live.cfg` | pass | every activate and reconnect thread finishes, unless a failed `fopen` in `tunnel_file_write` has leaked `tunnels_lock` (the run lets it fail, and has no deadlock check, since after a leak the process really stops) |
| active_all_open | `MCTunnels_activeopen.cfg` | violation | the XXX comment's conjecture is false: reconnected tunnels stay OPENING in the active set |
| leak | `MCTunnels_leak.cfg` | violation | reconnect threads leave DELETING records nobody frees |
| single_reconnect | `MCTunnels_reconnect.cfg` | violation | delete, delete, add, timeout: two reconnections of one URL |
| reconnect_failure | `MCTunnels_failure.cfg` | violation | the freed URL string makes the failure path deactivate nothing, or the wrong tunnel |

### Bounds and why they are enough

- **URLs.** Two URLs, both in the cache file read at start-up
  (`MCTunnels.cfg`); the spare records let `tunnel_add` re-create a deleted
  URL's record and reconnections create theirs, and the failure path's stale key can name another tunnel.
  Each violation run uses the smallest configuration that shows it.
  `SingleReconnect` needs one URL and four records: the first record, its
  re-creation and two reconnect records.
- **Records.** A pool of three records (`MCRecs`); creation is disabled once
  all are allocated. Three records allow a record, its re-creation or a
  reconnect record, and one more.
- **Constants of the code.**
  - `MaxInitOpen = 1` (8 in the code): the manager's `max` is then 2, so
    both the "found max" exit and the sleep-and-check path are taken.
  - `MaxRetries = 2` (3): enough for the retry path and for the last attempt.
  - `InitAge = 1` (16): enough for the age to reach the saturation at 0.
  - `SizeMod = 2^20` (2^64): any modulus larger than the number of tunnels
    behaves the same.
- **`FopenFails`** is TRUE only in `activation_terminates`. After a leak
  only unlocked open attempts run, which change no state or set, so the
  safety runs leave it out; the leak itself is `lock_leak` in section 5.
- **`MaxWrites = 1`** bounds the file writes owed by finished activate
  threads. It only delays `ActivateFinish`; the write that frees the slot is
  always enabled.

### Fairness

Threads are preemptive, so every thread's steps are weakly fair:

- the activate and reconnect threads;
- the pending file writes;
- the activate manager.

`ActivateFinish` is strongly fair, because only the model's `MaxWrites`
bound can disable it. The administrative caller and driver timeouts are the
environment, so they get no fairness. No fairness can get a thread past a
leaked lock, so `ActivationTerminates` has the leak as its escape:
`pc[r] = "loop" ~> (pc[r] = "idle" \/ lock = "leaked")`.

Three more violations were seen while modelling and are not kept as runs:

- the activate manager exits right after a round that picked max CLOSED
  tunnels, before any of them opened;
- a reconnection replaces a cached record and no file write follows;
- the log at line 847 reads a record that `tunnel_delete` has freed
  (`NoUseAfterFree`).

`PROJECT.json` records them as hazards with a note.

## 4. The `Selector` module

`Selector.tla` models `tunnel_packets` and `tunnel_get` (lines 557-677), and
the operations that change what they see. `MCSelector` instantiates it.

### State

| variable | code |
|---|---|
| `rec[r]` | the heap status of a `tunnel_t` (`unalloc`, `live`, `deleting`, `freed`), its `id` and its `weight` |
| `slots`, `len` | the `tunnels_active` array (`tunnels[]`, `length`), including the slot just past the length |
| `nextId` | the static `id` counter of `tunnel_create` |
| `rt[n]` | the reconnect thread creating record `n`: the id it loaded, and the tunnel it replaces |
| `hist` | the static `tunnel_history` table |
| `lock` | `tunnels_lock`, `free` or `leaked` |
| `sends` | packets forwarded (bound `MaxSends`) |
| `ub`, `last` | ghosts: whether a chosen pointer was not a live record; the previous step's forward |

### Actions

The set operations are translated directly:

- `SetInsert` writes `tunnels[length++]`.
- `SetDelete` shifts the tail left without clearing the old last slot.
- `tunnel_set_replace` overwrites the slot in place.

The actions are the locked regions that call them, plus the two halves of
the unlocked `id++`:

- `AddCreate` (`tunnel_add`'s `tunnel_create`, under the lock);
- `ReconnectStart` (the manager's poll, and the thread's `malloc` and load
  of `id`), then `ReconnectIdStore` (the store of `id` and `id + 1`);
- `ReconnectSucceed` and `ReconnectFail`. A success replaces the old
  tunnel in place; with no old tunnel left, the new record, still OPENING,
  is only marked DELETING (`mem = "deleting"`). A failure deletes by the
  freed url string, so it removes the old tunnel, another active one, or
  none; with none the new record is likewise left DELETING. The reconnect
  flag is modelled as "no running thread targets the tunnel", which allows
  more reconnections than the code, whose flag stays set after a failure;
- `Activate` (`tunnel_activate` inserting an opened tunnel);
- `Deactivate` and `DeleteCached` (the two branches of `tunnel_delete`);
- `Forward(h, rep)` (a whole `tunnel_packets` with `tunnel_get`) and
  `ForwardNoTunnel`.

### Abstractions of data

Here the lifecycle states of the records are abstracted to what the array
and the heap see. They are modelled in `Tunnels`.

- **Releasing a replaced record** (`Release`) either frees it or leaves it
  allocated and unreachable. The second case is an OPENING record going
  DELETING.
- **Weights** are fixed point: 2000 stands for 1.0 and 10 for 0.005. The
  updates are `w*3 div 4` and `w + w*3 div 20`, so their rounding differs
  slightly from the code's doubles. No property depends on weight values
  beyond their order.
- **Hashes.** The folded hash is `HashBits` wide instead of 32 bits, and the
  packet hash is twice that. `UINT32_MAX` becomes `2^HashBits - 1`, so the
  edge `weight_hash = UINT32_MAX` exists at every width.
- **The pick** `(wh / UINT32_MAX) * total` is compared exactly: both sides
  are multiplied by `UINT32_MAX`.
- **Undefined behaviour.** A chosen pointer that is junk or freed memory is
  UB. It sets `ub`, and the id it writes into the history is any id.

### Runs

| run | cfg | expect | what it shows |
|---|---|---|---|
| selector | `MCSelector.cfg` | pass | `TypeOK`, `SelectionAgreesWithReference` (the walk equals the reference "first cumulative weight above the pick" and stays in the array for every weight hash below `UINT32_MAX`), `FlowStable` (consecutive first transmissions of a flow use one tunnel), `ActiveSetRefined` (the active array implements `TunnelSet`) |
| wild_pointer | `MCSelector_wild.cfg` | violation | `weight_hash = UINT32_MAX` walks past the array and uses its junk slot |
| unique_ids | `MCSelector_ids.cfg` | violation | the reconnect thread's unlocked `id++` races with `tunnel_add` and two tunnels share an id |

While modelling, `RetransmitMovesOff` showed the same out-of-bounds read
with a different outcome. After a deactivation the slot past the end holds
the old last tunnel, which is still live. A retransmission that walks past
the end is then resent on the tunnel that carried it. The `wild_pointer`
finding records both outcomes; the second is not kept as a run.

### The active array as a tunnel set

`TunnelSet` is the abstract promise of `tunnel_set_s`. It is a sequence of
distinct tunnels with three operations: `Insert` appends a tunnel not yet
present, `Delete` removes an entry and keeps the order of the rest, and
`Replace` puts a tunnel not yet present in an entry's place. The order
matters because the walk of `tunnel_get` depends on it.
`ActiveSetRefined` instantiates it with `set <- [i \in 1..len |-> slots[i]]`.
So every step of the selector model keeps the first `len` slots distinct
and changes them only by one of those operations. The slot past the end
(the stale copy) is outside the mapping, as it is outside the set.

### Bounds

- **Records.** Two in the passing run; the array's allocated size is one
  more. The violation runs have three, so that a deactivation can leave a
  stale copy past the end of a two-tunnel array.
- **Ids.** Four: more than the creations the pool allows, so no wrap.
- **Hashes.** `HashBits = 2`, so 16 packet hashes.
- **Sends.** Four forwarded packets in the passing run: a packet, its
  retransmission that punishes its tunnel, then a flow's two consecutive
  first transmissions after a reward has raised the punished weight again
  (TLC reaches that case: weight 1500 rewarded to 1725, then the pair with
  two active tunnels). Two in the violation runs.
- **Passing run.** One history slot and repeats up to 1.
- **Symmetry.** Records are interchangeable heap cells, so the runs use
  symmetry over `Recs`.
- **MTU.** `MtuZero` is FALSE in every run. With TRUE, the return at line
  576 leaves the lock held, and TLC finds `lock = "leaked"` after one packet.
  Whether the driver ever reports an MTU of 0 is outside this repository, so
  no run is kept for it (hazard 576).

## 5. The `Persistence` module

`Persistence.tla` models `tunnel_file_write` (lines 326-367) and
`tunnel_file_read` (237-320) with the process crashing and starting again.
`AtomicFile.tla` is what the file promises. `MCPersistence` instantiates
the detailed module.

### State and actions

| variable | code |
|---|---|
| `disk[f]` | the files `TUNNELS_FILENAME` ("file"), `.bak` and `.tmp`: absent, or the set of URLs the parser recovers |
| `cache` | the URLs of `tunnels_cache` records with a non-zero age, the ones a write prints |
| `alive` | the process runs; a crash clears `cache` and the lock |
| `lock` | `tunnels_lock`: free, held by the writer, or leaked by the fopen failure return |
| `pc` | the next file-system call of `tunnel_file_write` |

Each file-system call is one action, so a crash can fall between any two:

- `WriteBegin`: take the lock; in the WINDOWS build, `remove(.bak)`.
- `WriteBackup`: `rename(file, .bak)`, which fails when the file is absent.
- `WriteOpen`: `fopen(.tmp, "w")`; on failure, return with the lock held.
- `WritePrint`: the lines and `fclose`.
- `WriteRemove`: `remove(file)` in the WINDOWS build, nothing otherwise.
- `WriteReplace`: `rename(.tmp, file)` and the unlock.

`FileRead` is start-up: it loads the file if it exists, else the backup,
else nothing. `CacheChange` is the locked region of `tunnel_add`,
`tunnel_delete` or `tunnel_activate` that changes the cache. `Crash` stops
the process.

### Refinement

`AtomicFile` has `mem`, `durable` and `up`, and four actions: `Start` loads
`durable`, `Change`, `Save` (`durable := mem`) and `Crash`. The mapping is
`mem <- cache`, `up <- alive` and `durable <- Readable`, the file
`tunnel_file_read` would load now. `AtomicFileRefined` is the abstract
`Spec` checked as a `PROPERTY`. So every step of the protocol either leaves
the loadable contents alone or replaces them by the cache in one step.

### Runs

| run | cfg | expect | what it shows |
|---|---|---|---|
| persistence | `MCPersistence.cfg` | pass | `TypeOK`, `AtomicFileRefined`: in the POSIX build, crashes at any point and failed fopen or a `rename(file, .bak)` with no file never make start-up load anything but the cache of the last completed write |
| lock_leak | `MCPersistence_lock.cfg` | violation | `WriteReleasesLock` under `FairSpec`: after a failed `fopen` of `.tmp` the lock stays held forever |
| persistence_windows | `MCPersistence_windows.cfg` | violation | the WINDOWS build removes `.bak` even when the file is missing, as it is after a crash between the renames; a crash in the next write then leaves no file |

### Fairness

`FairSpec` makes each step of `tunnel_file_write` after the lock is taken
weakly fair: the writer is an ordinary preemptive thread, and once it holds
the lock nothing else can disable its next step. Start-up, cache changes and
crashes are the environment and get no fairness. With it the only way for a
taken lock to stay taken is the `fopen` failure return.

### Bounds

- **URLs.** Three (two for `lock_leak`). Every subset is a possible cache or file.
- **Cache changes.** `MaxChanges = 2` per run of the process. Writes and
  crashes are unbounded; the state space is finite without bounds on them.
- **Initial files.** No files, or a cache file with any contents: a fresh
  installation or a previous run.

### Abstractions

- A file is the set of URLs its lines list. The order and the ages are left
  out, since the refinement is about which file is loaded, not about its
  format.
- Writes are whole. An `fprintf` or `fclose` failure goes unchecked at line
  352 and would commit a torn file; that case, and the `char` comparison with
  `EOF` at line 281 it makes reachable, are hazards without a run.
- `fopen` of an existing file succeeds on reading.

### Composition with `Tunnels`

`Tunnels` keeps the cache file as one snapshot `file`, a sequence of
`<<url, age>>`, that a write replaces at once. Its URLs of non-zero age are
`durable` of `AtomicFile`, and `Persistence` shows that the
real write protocol refines `AtomicFile` in the POSIX build. So the
one-step write of `Tunnels` is sound there, for what the file holds. Its
other effect, the lock, is kept in `Tunnels` itself: `WriteFile` may leak
it as line 342 does. In the WINDOWS build the one-step write is not sound:
see `persistence_windows`.

## 6. Not modelled (yet)

- **The wrap of `max` in the manager's round (hazard 446)**: a copy of the
  lifecycle model with `MaxInitOpen = 1` and three URLs reaches it in 17
  steps. Three `tunnel_add` activations make the array longer than
  `MAX_INIT_OPEN + 1` before the round. `max` then wraps, and the round marks
  every CLOSED tunnel OPENING. The same `+ 1` makes the code open
  `MAX_INIT_OPEN + 1` tunnels where spec test 8.1 expects exactly
  `MAX_INIT_OPEN`. Both would be further violation runs, and no run is kept.
- **Torn writes and the line parser of `tunnel_file_read`**: section 5.
- **`tunnel_ready` and the HTML pages**: they only read under the lock.
- **Allocation failure**: `error()` aborts the process.
- **The URL syntax check in `tunnel_add`**: it is a pure early return.
