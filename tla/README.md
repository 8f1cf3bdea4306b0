# A verification development of the SOUL framework

TLA+ models of `soul-framework` (`src/src/soul_framework`, Python, asyncio and
SQLite or PostgreSQL), the TLC runs that check them on small instances, and TLAPS
proofs of the properties that matter most for every value of the constants.
`PROJECT.json` maps every definition to the lines it translates, and lists the
runs, the mutants, the hazards, the findings and the theorems.

## The system

| part | state | operations | what makes it correct |
|---|---|---|---|
| integrity guard (`integrity.py`) | memories table, signed checkpoint file, external monotonic witness | verified reads, `mutate_and_publish`, `seal_and_publish` | nothing unsigned, rolled back or old is ever served; the witnessed checkpoints are one chain |
| soul (`soul.py`) | backend, memory store, managers | create, boot, snapshot, close | no handle stranded; the store goes before the backend; a clean close can be opened again |
| memory store (`memory/store.py`) and vector index (`memory/vector_index.py`) | memories table, private index of each session, two-file sidecar shared by sessions | open, `store`, `update`, `invalidate`, close | the sidecar never pretends to cover rows it omits; a session finds its own memories |
| SQLite backend (`backend/sqlite.py`) | one connection of all tasks of a process | `execute`, `fetchone`, `fetchval`, `fetchall`, close | no transaction is left open; what has returned is committed |
| identity, instincts (`identity/`, `instincts/`) | a row each | set and drift OCEAN traits; create, activate, delete | an activation that returned counts; confidence follows the count |
| PostgreSQL backend (`backend/postgres.py`, `postgres_schema.py`) | schema and its migration receipt, pool, memories with two forms of their vector | initialize, migrate, validate, close; insert, update, search | who serves has its own contract; both forms agree; an untouched match is found once |
| embedding migration (`embedding_migration.py`) | source, candidate database, checkpoint file | plan, copy, batch, pause, resume, verify, roll back | no row skipped wherever a run dies; completed means complete |
| sleep gate (`consolidation/sleep_gate.py`) | columns of the memories table | REPLAY, FORGET, PRUNE, CONSOLIDATE | recent memories survive; no group of duplicates vanishes |
| connectome (`graph/connectome.py`) | edges in an external Neo4j | `build_similarity`, `build_entities`, `detect_conflicts` | a rebuild repairs what an earlier one left half done |
| procedural store (`procedures/store.py`, `trees/trie.py`) | procedures table, lazy trie | `store`, `search`, `invalidate_trie` | every procedure is found, by its prefix or its vector, and once |
| other trees (`trees/`) | a Fenwick tree, a splay cache, an R-tree, a Merkle tree | point updates and lookups | each answers as the array, map, set or list it stands for |
| rules, reflection, D-MEM gate | their tables | single statements, reads | |
| providers, scoring, CLI, installer | none worth a model | | |

How they interact: everything shares one database connection per `Soul` and
awaits it between steps, so other coroutines run between any two statements.
On SQLite a statement and its commit are themselves two awaits, and the commit
is of whatever the connection has open. Guarded operations and index work run in
worker threads (`asyncio.to_thread`). Other processes open the same database
file, its checkpoint and its sidecar. The memory store calls the guard for every
read and write when it has one; the sleep gate writes through the backend and
bypasses it (`RawWrite`).

## Modules

| module | models | abstract view |
|---|---|---|
| `VerifiedLog` | what the guard promises: one append-only log, fresh answers | |
| `IntegrityGuard` | the guard on any number of hosts that share a witness | implements `VerifiedLog` |
| `VectorSidecar` | sessions of the memory store and the sidecar | |
| `SoulLife` | the stages of a soul around `VectorSidecar`, which it extends | implements `VectorSidecar!Spec` |
| `SqliteBackend` | statements, commits and rollbacks of shared connections | |
| `AgentTables` | identity and instincts on `SqliteBackend`, which it extends | |
| `PostgresSchema` | backends of several processes that start and close on one schema | |
| `PostgresVectors` | memories with bytes and a pgvector value, and a search of two queries | |
| `EmbeddingMigration` | a migration beside an editing application and an operator | |
| `SleepGate` | one nightly run beside the agent | |
| `Connectome` | builds of the graph that overlap, fail and meet changed memories | |
| `ProceduralStore` | stores and searches of one event loop around the lazy trie | |
| `LruCache` | what the splay cache promises: a bounded map that gives up the coldest key | |
| `SplayCache` | the tree, rotation by rotation | implements `LruCache` (checked and proved) |
| `FenwickStats`, `SpatialIndex`, `MerkleSoul` | the other trees, operation by operation | checked against a reference in the module |
| `X_proofs` | theorems about `X`; `SoulLife_proofs` also about `VectorSidecar`, `Postgres_proofs` about `PostgresSchema` and `PostgresVectors`, `Jobs_proofs` about `SleepGate` and `Connectome`, `Trees_proofs` about `FenwickStats`, `MerkleSoul`, `SpatialIndex` and `SplayCache` | |
| `MCX` | instances of `X` for TLC; `MCStores`, `MCTrees` and `MCJobs` hold several modules | |

`IntegrityGuard`: every access to shared state is one action. `BeginRead`,
`BeginMutate` and `BeginSeal` start an operation (the latter two take the lock
of BEGIN IMMEDIATE); `ReadFile`, `ReadWitness`, `TakeSnapshot` are
`_verified_checkpoint`; `Serve` and `Execute` the caller's statement;
`ReadPrevious`, `Advance`, `WriteFile` are `_publish_snapshot`; `Commit` the
SQLite commit. `Leave` is the `finally` of each operation. `Crash` is a dead
process or any exception; `RawWrite` is a write around the guard, which SQLite's
lock keeps out of a mutation, and `RestoreFile` a restored backup of the checkpoint
file, which nothing keeps out: it may come between a caller's file replace and its
commit (the history `restored`). Hashes and signatures are perfect.

`VectorSidecar`: a row is its vector. `FetchRows`, `ReadMetadata`, `Checksum`,
`LoadBytes`, `Build` are `initialize_vector_index` and the native engines'
`load`; `LoadFails` is an engine that raises on bytes whose hash was right, and falls
back on the rebuild. `Store`, `Update`, `Invalidate` commit SQL and leave an index
update `pending`, which `Apply` makes later, as the await and the worker thread do;
operations of one session overlap, and updates of one memory may be applied in
either order. `UpdateFails` is an operation that raises or is cancelled after its
SQL: before its index update, between the update and `_index_dirty`, or while
an `add` runs in its thread. `GateInvalidates` is the session's sleep gate, which
invalidates rows by SQL alone. `Close`, `RebuildIndex`, `ReplaceBytes`,
`ReplaceMetadata` are `close` and `save`, and `CloseFails` any of them raising. A
session may `Crash` anywhere. The history `excused` holds, for each session, the
memories of which its index need not know the current vector. Simplified: an `add`
whose caller was cancelled ends before the session does anything else; two equal
updates under way are one; a close waits for the session's own operations (what
happens if it does not is a hazard no property covers, `memory/store.py:606`).

`SoulLife`: `Connect` and `Migrate` are `SqliteBackend.initialize`, `SchemaFails`
its failure outside of the `try` of `_create_impl`; `OpenIndex` and `Created` are
the body of the `try` and `CreateFails` its `except`; `Work` the operations of
the store; `CloseMemory`, `SaveIndex`, `CloseMemoryFails`, `CloseBackend` are
`close`. `ChangeUntold` is a row that changes without `_index_dirty` being set, by an
operation cut off or by the sleep gate. Each step of `VectorSidecar` belongs to one
stage. Three histories, `alone`, `untold` and `settled`, tell when a close was
undisturbed and had been told of every change.

`SqliteBackend` and `AgentTables`: a call is `Read` and `ReadCommit`, or `Write` and
`WriteCommit`, with an await in between. `Commit` publishes whatever the
connection has open, of whichever task; `Free` is SQLite's write lock. A task may be
cancelled at any await (`Cancel`; nothing rolls back), and a process may end
(`Restart`; SQLite rolls back). `update_ocean` and `activate` read, compute and
write absolute values. Of the five traits one is kept, in steps; confidence is in
units of 0.0001, the rounding of `activate`, for which `Curve` tabulates the growth.

`Connectome`: similarity is a fixed relation, a memory's category is what matters of
it, and every memory mentions one entity. `FetchRows` is the query of either build,
`Clear` its delete, `WriteEdge` one `run_write`, `Fail` any of them raising. A clear
takes every edge of the agent's memories, whatever its type and domain. The limit of
20 neighbors and the semantic conflicts of `detect_conflicts` are left out.

`EmbeddingMigration`: one action per file access of
`migrate_sqlite_embeddings` and `rollback_sqlite_migration`. The vector tables
are one table of rows 1..N; a database is the version of its non-embedding
data and of its old embeddings. `Abort` is a crash or a provider that fails.

`SleepGate`: each phase selects its rows and writes them back one await at a
time; `User` is the agent's `update` or `invalidate` in between. Scores are
levels chosen so that every comparison of the code is decided by them.

`PostgresSchema`: a contract is the DDL text with its checksum and dimension.
`Begin` takes the asyncio lock, `LockSchema` the advisory lock; from there to
`Commit` is `_migrate`, whose tables stay in `staged` as its transaction does.
`CheckTables`, `ValidateReceipt`, `ValidateContract` are `_validate_schema`, three
reads of their own. `Break` is an await that raises, `Kill` a dead process. A
schema is absent, partial, short of a column, drifted or whole; it starts as any.

`PostgresVectors`: a text stands for its embedding, which is zero (0) or has a
nearness. `Insert`, `Update`, `Invalidate` are single statements, so each is one
action; a search is `Search`, then `SearchVectors` and `SearchZeros`, or
`SearchUnsignalled` when the query is a zero vector. The HNSW index is approximate,
and its iterative scan (`postgres.py:799`) bounded by `ef_search` and
`hnsw.max_scan_tuples`: `SearchVectors` comes by any subset of the indexed vectors
(`reached`), and nothing is promised of a memory it passes by. The exact-text
fallback that `MemoryStore.search` appends is not modelled.

`ProceduralStore`: `CommitStore` and `IndexStore` are the two sides of the await
of `store`, and `StoreFails` a store that raises or is cancelled between its committed
INSERT and the trie (the history `dropped`); `FetchRows` and `LoadTrie` are the two
sides of the await of `_ensure_trie`. The trie is shared,
so a task that comes back fills or reads whichever is there. A query is the set
of descriptions it is a prefix of.

The trees are sequential, and every call is one action. `SplayCache` keeps the tree
itself, with the system's clock as a variable that may stand still or go back;
`SpatialIndex` keeps nodes with their boxes, whose coordinates are integers (the code
only compares, subtracts and multiplies them); `FenwickStats` the node array beside
the array it stands for; `MerkleSoul` the leaves, what was signed, and a proof got
earlier. Its hash is perfect: the hash of two hashes is their pair. Counters that
are only reported (`stats`, `_count`) are left out.

## What TLC checks

| run | bounds | shows |
|---|---|---|
| `guard_one_host` | 1 host, 2 callers, 2 contents, 2 checkpoints | publication lands on what was verified; a seal recovers, the lock returns; implements `VerifiedLog` |
| `guard_two_hosts` | 2 hosts, a caller each, 2 contents, 2 checkpoints | one chain, published and fresh answers, whoever wins the witness |
| `migration_run` | 5 rows in batches of 2, 2 edits, 1 runner | progress covered, completion complete, every run ends |
| `postgres_start` | 3 backends, 2 calls on one of them, 2 contracts | who serves has its own contract; migrations neither collide nor stop half way; pools do not leak; every call ends |
| `soul_sessions` | 2 sessions, 2 ids, 2 vectors, 3 writes, 2 under way in a session | the sidecar stays bound to its rows and loads exactly them; memories are found, whatever else overlaps, fails or is invalidated at night; the store has its backend; a clean close is usable |
| `stores` | 2 memories, 2 nearnesses, a limit of 1; 2 stores, 2 searches, 2 procedures, TopK 2 | both forms agree, an untouched match that the index's scan comes by is found exactly once; which procedures the trie may miss, and that the two tiers lose and repeat nothing |
| `jobs` | see below | the sleep gate, the agent's tables, the connectome, the trees |
| `migration_stranded`, `gate_survivor`, `soul_stranded`, `merkle_proof`, `merkle_root` | the smallest instance that shows it | a disagreement between the code and its own documentation (`findings`) |

`jobs` and `stores` are sums: modules that share no state are put side by side, the
first variable (`part`, `tree`) says which of them a behaviour is one of, and the
others keep still. TLC so explores exactly the union of what a run of each would
explore. Within `jobs`:

* the gate: 3 memories, every mixture of ranks and activations and every
  near-duplicate relation, 1 edit of the agent: the most important duplicate
  stands, replayed memories are not pruned;
* the tables: 3 tasks on 2 connections, 2 instincts, 3 operations of every kind:
  no transaction without an owner, activations count, confidence follows the count;
* the connectome: 3 memories in a chain of similarity and 2 domains, 2 builders,
  3 builds, 1 change: a build that nothing overlaps is exact whatever failed
  before, and contradictions take two builds that overlapped;
* the trees: Fenwick trees of up to 5 positions with values 0..2, splay caches of
  3 of 4 keys with 2 values and 2 times, R-trees of up to 5 of 5 boxes in nodes of 2
  searched in the middle and at the corners of the plane they lie in,
  Merkle trees of up to 4 categories with 2 data each.

Why the bounds are enough. Two callers, hosts or sessions make every pairwise
race; a third only repeats it, and the theorems cover any number. Two
checkpoints give a predecessor, a successor and an old file to restore. Five rows
in batches of two give a full first batch, a resumption in the middle and a short
last batch; two edits allow one during a run and one during its resumption. Three
writes are a memory stored and two operations on it, which overlap in one session
or are split between two while either has the file open; two under way are enough
to reach the index in the wrong order, and for one to be cut off beside the other.
Three memories are the shortest chain of near-duplicates that is not
transitive; four gave the same answer. Two tasks of one process and one of
another make the three ways a write is finished or undone: by its task, by
another, by a rollback. Three builds are a failed one, one that overlaps it and
one that is alone. Five entries in nodes of two split leaves and an inner node;
four keys in a cache of three evict from every shape of a tree of four; four
leaves make a Merkle tree of two full levels, and three one with an odd leaf. In
`postgres_start` one backend migrates, one migrates to another contract and one
validates. A limit of 1 with two memories makes a query overflow; a second
procedure of the same description displaces the first from the trie, and with
TopK 2 both tiers fill the answer. `MaxSeq`, `MaxWrites`, `MaxTasks`, `MaxEdits`,
`MaxOps`, `MaxIds`, `MaxBuilds`, `MaxChanges`, `MaxInserts` and `N` bound what would
otherwise not end. `OneAtATime` in `jobs` keeps a Merkle tree from having both a
signature and a proof under watch: neither changes the other, and each is seen with
every history of the leaves.

Symmetry: sessions, ids and vectors in `soul_sessions`, contents in
`guard_two_hosts`, tasks and types in `stores`, builders in `jobs`: no definition
names one. None is used in a run with a liveness property. Deadlock is checked in
every run but `jobs`: there the night ends, and operations and builds run out.

Fairness. `IntegrityGuard!FairSpec` asks each operation under way to take its
next step: it is straight-line code in a thread, and `Crash` remains possible
at any point. Nobody has to begin an operation, and nothing is asked of the
lock: BEGIN IMMEDIATE may wait. `EmbeddingMigration!FairSpec` asks the same of
a run under way. `PostgresSchema!FairSpec` asks strong fairness of a call that
has begun: asyncio.Lock and PostgreSQL's advisory locks queue their waiters and
wake them in order, so a lock that is released again and again is had in the
end. No liveness is claimed of the other modules.

Some properties hold for less than the module allows, and say so or their
configuration does. `CommitOverVerified`, `CommitAgrees` and `SealRecovers` are
about one database: with two hosts on one stream a mutation verified against
checkpoint n can be published as n + 2 over a seal of the other host, since
`_publish_snapshot` reads the witness again. `CommitAgrees` and `SealRecovers` leave
out a commit whose file a restore has replaced in the moment before it
(`restored`). `LoadedIsCanonical` speaks of a file that was not replaced between its
hash and its load (`vector_index.py:357`). `Findable` leaves out the memories that
are `excused` until a session builds its index again: those that other
sessions have written since it opened, or whose file they replaced under its load;
those of which two of its own operations have overlapped, since updates may
commit in one order and reach the index in the other (`memory/store.py:541`); those
whose operation was cut off after its SQL. `CleanCloseIsUsable` leaves out a session
that had rows change `untold` and then no operation that sets `_index_dirty`.
`TrieIsComplete` leaves out procedures stored during a load (`late`) or by a store cut
off before the trie (`dropped`), and `UntouchedIsFound` what the scan of the vector
index has passed by. `ActivationsCount` leaves out
instincts of which two activations have overlapped, `CleanBuildIsExact` builds that
another has, and `ProofsBind` proofs whose way up passes an odd last node.

## What the runs found

* `migration_stranded`: after a crash between copy and first checkpoint the
  candidate can be neither resumed nor started over.
* `gate_survivor`: the inner loop of CONSOLIDATE keeps comparing an entry it
  has invalidated, and invalidates memories in favour of it.
* `soul_stranded`: when a PRAGMA or the schema script raises, the connection that
  `initialize` has made stays open: the call is outside of the `try`
  (`soul.py:187`), and `initialize` does not close it either.
* `merkle_proof`: `get_proof` has no sibling for an odd last leaf, which
  `root_hash` pairs with itself; with three categories the proof of the last fails.
* `merkle_root`: a leaf's hash does not name its category, and an odd last hash
  counts twice, so that different states have one root.

More were met on the way; the hazards tell of them at their lines. Index updates of
one memory may be applied in the wrong order (`memory/store.py:541`). An operation cut
off between its SQL and its index update leaves its memory out of the index of a
session, or in it with its old vector, until the next build
(`memory/store.py:542`); neither it nor the sleep gate (`sleep_gate.py:178`, `246`)
sets `_index_dirty`, so that a clean close may leave a sidecar of older rows, which
the next opening sees by its fingerprint and builds anew. A running
migration writes its checkpoint over a rollback recorded meanwhile
(`embedding_migration.py:403`). PRUNE invalidates by id a memory made important
since its SELECT (`sleep_gate.py:174`). `or 0.5` turns a utility of 0.0 into 0.47
(`sleep_gate.py:141`). A procedure stored while the trie is being loaded is in
neither its rows nor the trie (`procedures/store.py:74`), and one whose `store` is cut
off after its INSERT is in no trie until the next load (`procedures/store.py:115`);
the semantic tier still finds both, and `TrieIsComplete` says that nothing else is
lost. A task cancelled
between a statement and its commit leaves a transaction open until the next call on
the connection (`sqlite.py:60`), and keeps other processes from writing. A build of
one domain clears the edges of all (`connectome.py:178`). A cap of 0.0 is taken for
none (`identity/manager.py:102`).

Nothing in the framework sets `last_activation` or `identity_defining`; the
model lets them have any value, as other tools on the database may give them.

## What is proved

All theorems hold for every value of the constants, from the named assumptions
on them alone. In each module `IInv` (or `SoulIInv`, `AgentIInv`, `GateIInv`,
`GraphIInv`, `VectorsIInv`) is the inductive invariant, checked by TLC before it was
proved; a lemma per action or group of actions shows that a step keeps it, and the
theorems follow by PTL.

* `IntegrityGuard_proofs`: type correctness, `LogIsChain`, `ServedWasPublished`,
  `NoStaleAnswer`, `OneWriter`, and that the guard implements `VerifiedLog`
  step by step. The safety properties say nothing of the callers' local
  variables, so `IInv` adds `CallOK`: what a caller has learnt at each step
  stays true while others move (its envelope is in the log and no older than
  its start, it holds the lock from its begin to its commit). `CommitOverVerified`
  and `CommitAgrees` assume one host (`SingleHost`) and that no checkpoint's number
  and content are taken for the missing predecessor (`GenesisAssumption`): `Holds`
  says what the holder of the lock knows of database, file and witness after each
  step of `_verified_checkpoint` and `_publish_snapshot` (of the file, only as long as
  no restore has come over it), and `OthersStay` that of one host's callers only the
  holder moves these three.
* `SoulLife_proofs`, first part: type correctness of `VectorSidecar` and `SidecarBound` for any number of
  sessions, concurrent writes and crashes. The metadata alone is bound (its
  checksum and its fingerprint come from the same rows), because a closing
  session publishes an index of the rows it fetched, however old. From the same
  invariant `LoadedIsCanonical`; and `Findable` for any number of operations that
  overlap and fail, with `OwnRows`: for every memory that is not excused, the rows
  a session has fetched, its index or the one update it has under way are the
  table's (`PendingCurrent`: that update brings the vector the row now has).
* `SoulLife_proofs`, second part: every behaviour of souls is one of `VectorSidecar`
  (`SoulImplementsSidecar`), which hands its theorems on (`SidecarBound`,
  `LoadedIsCanonical`, `Findable`); `StoreHasBackend` and
  `CleanCloseIsUsable`, assuming that no metadata is taken for a missing file
  (`MetadataAssumption`). `SoulIInv` adds which step of the store belongs to which
  stage (`Stages`), that a session alone is alone (`Solitude`), and what such a
  session, told of every change, knows of table and sidecar at each step (`Knows`).
* `AgentTables_proofs`: `OpenHasOwner` and `GrowthIsCount`, assuming
  `AgentAssumption` (the types of the constants, and that `Curve` is the growth of
  `activate`). `AgentIInv` adds that an open transaction only adds to the tables
  and is the only one (`Transactions`), and that a row once read is an earlier
  state of the same instinct (`RowKnown`): it may have been deleted since, but
  never becomes another one, since ids are not given again. `ActivationsCount` adds
  `Accounted`: an activation that has returned or waits for its commit is covered
  by a row, the rows on disk by those committed and the rows an open transaction
  sees by those written, so that whichever call commits, its own or another
  task's, what it publishes covers what it completes; a rollback leaves the rows
  on disk, which covered less than was ever written.
* `Jobs_proofs`, the sleep gate: type correctness, `LastOneStands` and `ReplayProtects`, for
  any memories, similarities and edits. `Group` is a closure (the smallest set that
  holds a memory and the near-duplicates of its members), so it needs no induction
  along chains. `Outranks` orders the memories totally, hence every nonempty
  set of them has one that nothing outranks (by the well-foundedness of the strict
  subset of a finite set); `Beaten` says that whatever a merge has invalidated is
  outranked by a near-duplicate of the same selection, so the one nothing outranks
  in a group is never a victim. `Spared` says that by the end of the replay every
  recent memory is boosted, and that forgetting and pruning select none.
* `Jobs_proofs`, the connectome: `CleanBuildIsExact` and `ContradictionIsTorn` for any
  memories, relations and builders. `GraphIInv` adds that, until two builds of
  similarities overlap, all that is and will be written has the types of one
  reading of the categories (`OneTyping`), and that a clean build is alone and has
  written what it has no longer to write (`CleanIsAlone`).
* `EmbeddingMigration_proofs`: type correctness, `ProgressCovered` and
  `CompletedIsComplete`, assuming `OneRunner`: nothing in the code keeps a
  second process out, and with two the properties fail. The invariant orders
  the ages of checkpoint, plan and source (`PlansAge`): a plan no younger than
  the checkpoint and no older than a source equal to it is the same plan. The
  action properties add what a run knows of `source_before` (`BeforeKnown`: its
  candidate was copied from it, or its plan is it; `CompletesOnItsSource`) and that
  it never stands over a completed checkpoint (`OpenWhileWorking`): nothing but a
  rollback replaces one (`CompletedStays`, which is proved and in no run).
* `ProceduralStore_proofs`: `TrieIsSound`, `TrieIsComplete` and `ResultsAreWhole`, for
  any stores, searches, descriptions and `TopK`. `IInv` adds that a procedure a
  load has not read is late (`LateIsLate`) and that the first tier hands on at most
  `TopK` matches of the right type (`TierOne`); a lemma gives every finite set of
  numbers its greatest element, since a load keeps the last row of a description,
  and another counts what the second tier adds.
* `Postgres_proofs`, first part: type correctness of `PostgresSchema`, `ReadyAgrees`, `NoCollision`,
  `OnePool` and `NoPartialMigration`, for any backends, calls and contracts.
  `IInv` adds who holds which lock at each step (`Exclusive`, `Serialised`) and
  that what a migration has read or checked is still so (`ReadHolds`,
  `CheckedHolds`, `ReadyHolds`): others may migrate after its commit, but only
  to the same receipt, since a receipt is never replaced.
* `Postgres_proofs`, second part: type correctness of `PostgresVectors`, `BothForms`,
  `UntouchedIsFound` and `NothingForeign`, for any memories, nearnesses and limit.
  `Halfway` says what a search knows between its two queries: an untouched memory
  with a vector has been found exactly once, or as many nearer ones have
  (`CrowdedOut`), or the scan has passed it by (`PassedBy`), and one without a vector
  not yet. The ranking of a query is a set of
  pairs, so the proofs count with finite sets what the limit cuts.

* `Trees_proofs`, the Fenwick tree: `SumsAreExact` for every capacity and any
  values. The inductive invariant is `NodesAreSums` (a node holds the sum of the
  stretch of positions that ends at its own and is as long as its lowest bit says),
  and it rests on how these stretches lie: apart or inside each other (`Nested`, by
  halving both positions). From it follow the loop of `update` (it visits the nodes
  whose stretch has the position in it), that of `prefix_sum` (its stretches lie end
  to end), and `from_array`, whose rounds complete each node before they push it on
  (`Gathered`). `find_kth` keeps the sum up to `hi` at `k` or more and that before
  `lo` below `k`; its rounds end because each makes the stretch shorter.
* `Trees_proofs`, the Merkle tree: type correctness, `IntegrityIsExact` and
  `ProofsBind` for any categories and data. Two rows of equal length have one next
  level only if they are equal, so two states over the same categories have one
  root only if they are equal; a proof whose way up passes no odd last node has a
  sibling for every level, so hashing up its category's data gives the root of the
  state that has this datum (`ProofOfReplaced`). `Positions` says that the
  categories' positions in the order of their names are 1 to their number.

* `Trees_proofs`, the splay cache: `ImplementsLruCache`, the refinement of `LruCache`,
  for any keys, values and clock readings and any `MaxSize` of at least 1 (a put into
  an empty cache never evicts, splay.py:106-109). `Tree(x, m)` says that `x` is a
  search tree of the map `m`; rotations keep the map (`RotatedRight`, `RotatedLeft`),
  so a splay does, and no key lies between the one it brings up and the one it was
  asked for (`Near`, `SplayExact`). Hence the root alone tells whether the key is
  there (`SplayFinds`), the two halves that `put` cuts are ordered around the new key
  (`SplitExact`), and the left subtree that `delete` and the eviction splay has room
  for the right one at its root (`UnlinkedExact`). The stack of `_evict_coldest` sees
  every node, so what it picks is coldest (`NodesExact`, `ColdestIsCold`). The
  invariant `SplayIInv` is that between calls the root is a tree of its entries, and
  `size` their number, at most `MaxSize`; with it each call is one of the map.

* `Trees_proofs`, the R-tree: `SearchIsExact` for any boxes and queries and any
  `MaxEntries` of at least 1. `Stores(x, h, S)` says that the node `x` of height `h`
  stores exactly the entries `S`: its children are of one height, their entries make
  up `S` and no two have one in common, and every box is around all entries under it
  (`Keeps` says so of a whole relation, since a recursive definition over nodes of
  unknown depth cannot be unfolded in a proof). Splitting keeps this because the sort
  only moves the children (`SortedIs`: the ranks are a permutation) and the two halves
  share what is stored (`FittedExact`); so an insertion puts one node or two in the
  place of one, at the same height and with the new entry (`ChildGrown`,
  `InsertedExact`). What a box leaves out of a search then cannot intersect the query,
  and what is searched lies in parts that do not overlap, so that nothing is found
  twice (`SearchExact`, `JoinedOnce`). The invariant `SpatialIInv` is that the tree
  stores all entries and has no more levels than there were insertions, beside the
  numbers that tell the entries apart.

The loops and descents of the trees are recursive functions, of which `Trees_proofs`
first shows that they exist and then what they compute: over numbers, or over the
subtrees of a tree, by the number of their nodes. The induction this takes is proved
there from the well-foundedness of the strict subset of `0..n`, and speaks of sets of
numbers instead of predicates.

Only model-checked: liveness (`SealRecovers`, `LockReleased`, `RunEnds`,
`CallsEnd`), which the prover cannot state; every other property of the passing
runs is proved for every value of the constants. The invariants that grew
with their proofs (`Accounted`, `GateIInv`, `NodesAreSums`, `VectorsIInv`, the order
and the size of `SplayIInv`) were checked by TLC as invariants of the runs'
instances before they were proved, and are not kept there: they are proved, and
imply what the runs check.

## Not modelled

Search ranking, scoring, query analysis and embeddings (floating-point formulas
without state), language model and embedding providers (HTTP), configuration,
command line and installer (parsing and packaging), rules and reflection (single
statements), the D-MEM gate (scores of one query's rows, no state), relationships
(single statements), the other four OCEAN traits (treated alike),
`set_memory_vector`, `set_procedure_vector` and the trie's `delete` (nothing calls
them), the procedures' counters (increments that commute), `nearest` of the R-tree
and the statistics of the trees (they only read).
