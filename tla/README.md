# A TLA+ verification of MTFSS, the multi-threaded file storage server

MTFSS (`src/`) is a TCP file server in C++17: an accept loop feeds a bounded
queue, a pool of workers serves one connection each, files are streamed to and
from per-user directories under per-file reader/writer locks, an in-memory index
answers questions about files, a background thread writes the log, and Ctrl+C
shuts everything down. A command-line client talks to it over a binary protocol.
This directory models server, protocol and client in TLA+, checks them with TLC
on small instances, and proves with TLAPS, for every size, every safety property
the runs check: of the lock table, the storage operations, the sessions, the
queue, the shutdown, the logger, the protocol and the client.

Paths below are relative to `src/src/server/` unless they say otherwise.

## 1. Inventory

| Part | State | Operations | Works with |
|---|---|---|---|
| `FileLockManager` (`file_manager.cpp`, 19-53) | table from path key to a counted `LockEntry` with a `shared_mutex` | `acquire_lock_ref`, `release_lock_ref` | called by `FileManager` on every worker |
| `FileManager` (`file_manager.cpp`) | none of its own; the directory `storage/` | `save_file`, `discard_data`, `get_file_size`, `stream_file_to_socket`, `list_files`, `delete_file`, `rename_file` | locks, disk, index, the client's socket |
| `MetadataManager` (`metadata_manager.cpp`) | `index_`: directory to file name to size and time | `add_file`, `remove_file`, `file_exists`, `get_file_size`, `list_directory`, `rebuild_from_disk` (`remove_directory` is never called) | called by `FileManager`; rebuilt by `main` |
| Sessions (`server.cpp`, `handle_client`) | `session_user`, `active_connections_` | LOGIN, UPLOAD, DOWNLOAD, LIST, DELETE, RENAME, QUIT | `FileManager`, the protocol |
| Start and stop (`server.cpp`, `main.cpp`) | `running_`, `listen_socket_`, `g_server` | `start`, `stop`, `ctrl_handler`, the destructors | the queue, the pool; main thread and Windows' handler thread |
| `TaskQueue` (`task_queue.cpp`) | `queue_`, `shutdown_`, two condition variables | `push`, `pop`, `shutdown` | accept loop, workers, whoever stops the pool |
| `ThreadPool` (`thread_pool.cpp`) | `workers_`, `stopped_` | `worker_loop`, `shutdown`, destructor | the queue; tasks are `handle_client` |
| `Logger` (`logger.cpp`) | `queue_`, `running_`, background thread | `log`, `process_queue`, destructor | every thread |
| Protocol (`src/src/common/protocol.cpp`) | none | header encoding in network byte order, send and receive of messages | sessions, client |
| Network (`src/src/common/network_utils.cpp`) | none | `send_all`, `recv_all` | everything that transfers |
| Client (`src/src/client/`) | socket, `username_`, the directory `downloads/` | login, upload, download, list, delete, rename, quit; a command line | the server |

What is hard, and what would make each part correct:

* **Lock table**: an entry must not be erased or replaced while a thread refers
  to it, although some return paths never give their reference back and the
  count has 32 bits. Correct: two threads never hold one file in conflict.
* **Storage**: the disk, the index and the locks change in separate steps, each
  of which may fail, and the process may die between any two. Correct: no file
  is touched while another thread writes it, downloads are whole uploads, index
  and disk agree whenever nobody is writing, and threads that lock two files do
  not deadlock.
* **Sessions**: every path must leave the connection at a message boundary, hold
  no lock while waiting for the client, and count and close the connection once.
* **Queue and pool**: notifications are sent outside the mutex. Correct: bounded,
  no lost wakeup, shutdown releases everybody.
* **Shutdown**: two threads tear the server down at once, while a third kind
  serves clients that may be silent. Correct: every accepted connection is
  closed, everything is joined, the process ends.
* **Protocol**: `send` and `recv` move any part of a buffer, lengths have 64 bits
  and another byte order on the wire. Correct: messages arrive whole, in order,
  and the bytes are those the documentation promises.
* **Client**: both ends keep their own idea of where a message begins and who is
  logged in, through errors on either side and any number of LOGINs; a connection
  may wait for a worker long after it was established. Correct: the ends agree,
  every command ends, and no partial file is left in `downloads/`.
* **Logger**: a flag changes without the mutex of its condition variable.
  Correct: what was queued is written and the destructor returns.

`PROJECT.json` lists these as hazards with their lines and properties.

## 2. Modules

| Module | Models | Extends |
|---|---|---|
| `FileLockManager` | the lock table; `LockSpec` is also the abstract specification of what callers may do with it | |
| `MetadataManager` | the index, a map of maps | |
| `FileManager` | storage operations, disk, faults, restart | `FileLockManager`, `MetadataManager` |
| `FileStore` | abstract: a store whose operations take effect at one instant | |
| `Session` | `handle_client` | `FileManager` |
| `Protocol` | header codec, messages, `send_all` and `recv_all` over a byte stream | |
| `MessageChannel` | abstract: a channel of messages | |
| `Client` | the client, its command line and its end of a connection | |
| `ClientServer` | clients and the sessions that serve them | `Session`, `Client` |
| `TaskQueue` | the bounded queue | |
| `ServerLifecycle` | accept loop, pool, Ctrl+C, destructors | `TaskQueue` |
| `Logger` | the asynchronous logger | |
| `FileManagerProofs` | proofs about the lock table, the storage operations and their locks | `FileManager` |
| `FileContentsProofs` | proofs about disk, index and transferred contents | `FileManagerProofs` |
| `FileStoreProofs` | the proof that the storage implements `FileStore` | `FileContentsProofs` |
| `SessionProofs` | proofs about sessions | `Session`, `FileContentsProofs` |
| `ClientServerProofs` | proofs about clients, connections and the sessions that serve them | `ClientServer`, `SessionProofs` |
| `ServerLifecycleProofs` | proofs about the queue, start and stop | `ServerLifecycle` |
| `ProtocolProofs` | proofs about the header codec and the byte stream | `Protocol` |
| `LoggerProofs` | proofs about the logger | `Logger` |
| `MC*` | bounds, symmetry and constant values for TLC | the module of that name |

The operators named "Bug variant" in a comment are plausible mistakes in the
operator that follows them. No specification uses them; `PROJECT.json` names,
for every checked property, one that TLC must catch in its place.

### FileLockManager

`locks_` and `ref_count` are the fields of the class; `lock_entry[t][k]` is the
`shared_ptr` on thread t's stack; `writer` and `readers` are the state of the
entries' mutexes. An entry is the identity of a heap object and can be
allocated again when nothing refers to it. The two table operations run under
`map_mutex_` and are one step each. `RefModulus` is 2^32 in the code.
`drop_lock_ref` is the end of a path that destroys the `shared_ptr` without
`release_lock_ref`; `leaked` counts these for the properties.

### FileManager

Each thread has a program counter and a frame with the arguments and locals of
its call. A step is one lock operation, one file-system call, one transferred
buffer or one call of the index. Files are identities (`FileOf` says which file
a path key names), contents are sequences of chunks, one per buffer. A name is a
path key; `ValidKeys` are the ones `is_valid_filename` accepts. `Unlock` and
`Release` are the explicit ways out of an operation, `Unwind` and `Drop` the
ones by destructors. `std::lock` is the try-and-back-off loop of the standard
library. The constant `Faults` selects what the environment may do: broken
connections, failing `create_directories`, `open`, `remove`, `rename` and
`write`, a crash and restart at any point, an exception while the index is
rebuilt. After a receive fails on a connection every later one fails too, so the
`discard_data` in `save_file`'s exception handler reads nothing.

Every call of the index is one step, since `MetadataManager` holds `mutex_` from
beginning to end. Its two-level map is modelled as it is, with the directory that
`remove_file` erases when its last file goes; a directory is given by its user,
and the parameter `normalize_path` says which key that user's directory has.

The scan at startup looks at regular files in the directories right under
`storage/` (`metadata_manager.cpp:114`), while LOGIN accepts a name with a
separator in it and `save_file` creates the directories for it. The constant
`Scanned` says which keys name files at that depth; `Visits` are the sets of files
a scan may index, all of those or, with the fault "scan", any part of them.

`unsynced` is a history variable: the files whose index entry the code does not
keep true (a write that the disk refused in part, remains that could not be
removed, a file the scan did not index, because an exception ended it or because
it does not look there). `DiskIndexed` excepts these files and no others; an
upload that succeeds puts any of them right, a restart those the scan finds.

**Refinement of `FileStore`.** `StoreSpec` maps the storage to `FileStore`, where
an operation is called, takes effect on the whole file at one instant, and
returns. An upload takes effect when the file is truncated, and the mapping shows
the abstract file with all its contents from then on: allowed, because until the
last chunk is written nobody else can look (the abstract state "writing" keeps
them out, as the file's mutex does). If it breaks off the file is gone. A
download takes effect with its last chunk, a deletion with `fs::remove`, a
renaming with `fs::rename`. A crash may leave the beginning of an upload under
way and nothing else. That every step of the implementation is a step of this
store is what the locks are for.

### Session

`stage` is the position in `handle_client`. A request picks any command and
names, the session's operation runs as steps of `FileManager`, and its result
decides the answer. `unread` is what an operation left of the request's payload
in the socket, `owed` what a download announced and did not send, `gone` that
receiving has failed, `status` what the response will say. `ReceiveThrows` is the exception of `payload.resize` for a
length that cannot be allocated, which `worker_loop` catches. Only one request
is in progress per connection; a client that sends ahead changes nothing the
server can observe before it receives.

### Protocol

One side sends a script of messages, the other receives them; `send_all` and
`recv_all` move any number of bytes per step and the connection may break between
any two. A byte has `Base` values and the header keeps its 32 bytes, its field
widths and the host's little-endian memory layout, so that `htonll` is the
macro's arithmetic on halves and not an assumption. Messages are sent with their
payload (`send_message`) or without it (`send_message_meta`). The history variable
`begins` remembers where on the wire each message was begun. `NetworkByteOrder`
compares every byte sent with the big-endian encoding of its message, from there
on. The stream is shown to implement `MessageChannel`: the receiver gets a prefix
of what was sent, and all of it if the connection stays up. "Sent" are the messages
begun: a sender whose `send` failed gives up, and what it had not begun was never
sent. `AsInt` is the cast of the remaining length to `int` in both loops: a call
asked for a negative number of bytes fails and one asked for none returns 0, which
the code takes for a closed connection. The transfer of a buffer whose length is
cast to such a number fails, while a length beyond 2^32 whose low half is a positive
`int` is transferred in parts. `IntModulus` is 2^32 in the code.

### Client and ClientServer

`cstate` is where the client is; the connection is a queue of tokens in each
direction, where a token is a header with its names, a unit of a file's contents,
the text of a response or a name. That whole messages arrive in order is what
`Protocol` shows. A connection that breaks delivers any part of what was sent
before and nothing sent after; a process that closes its end with unread data
resets the connection. `upload_file` announces the size it finds and sends what
it reads; with the fault "change" the two differ, and `changed` remembers it. A user
may log in under any name at any time; a file name is translated to a path key by
the directory of the session's user (`PathKey`).

`ClientServer` joins `Client` and `Session` by the connection: every step of a
session that reads or writes the socket takes or adds tokens, and the failures
that `Session` allows at any time need a cause, a broken connection or a closed
end. A connection that is established waits for `accept` and then in the task queue
(`Queued`): it carries requests before any session exists, a worker begins with it
when fewer than `PoolSize` are busy (`ServerBegins`), and after a stop it is either
still served or closed (`ServerRefuses`). In which order the queue hands connections
out is left to `ServerLifecycle`; here any free worker may take any of them.

Contents are all alike, so that a payload is its length; the sizes are chosen such
that no beginning of a file has the length of another one. Each client starts a new
process when its last session has ended. `misled` is a history variable: the clients
to whom a session has announced a length that the file it then opened did not have,
or that no version of a file has (`Misleads`). When a file has grown during an upload
the server takes file contents for a header, and a misled client may take file
contents for one; what the two do then is left open, since the properties except
these clients.

### TaskQueue

What happens under `mutex_` is one step. `notify_one` and `notify_all` come
after the mutex is released and are steps of their own; `notify_one` picks any
sleeper; sleepers may wake spuriously.

### ServerLifecycle

Main thread, handler thread and workers over `TaskQueue`. `closer[p]` follows
thread p through `ThreadPool::shutdown`; `outcome` is how the process ended:
"exit", "terminate" (`std::terminate` from the destructor of a joinable thread)
or "undefined" (an access to the destroyed pool). `handle_client` is reduced to
its loop. One Ctrl+C is modelled: while `running_` is false a second one has no
effect on the server. The model starts when `ctrl_handler` has been registered,
before the index is rebuilt and `start()` is called.

### Logger

`WaitTest` and `Block` are two steps with `mutex_` held, because the destructor
changes `running_` without it. The `while` condition reads `queue_` without the
mutex: while another thread is pushing, either value may be seen.

## 3. Runs

Run the tools in this directory: `tlc -config Sessions.cfg MCSession`.

| Run | Configuration | Checks | Shows |
|---|---|---|---|
| `storage_faults` | `StorageFaults` | `TypeOK`, `ExclusiveAccess`, `LocksFollowControl`, `LockInv`, `MutualExclusion`, `DiskIndexed`, `LockSpec`, `StoreSpec` | under every fault, crashes included: files are accessed exclusively, every exit gives back the locks it holds, reference counts are exact, files nobody is writing are indexed with their size (exceptions below), and the operations implement the lock protocol and the atomic store |
| `storage_live` | `StorageLive` | `IndexOnDisk`, `OpsComplete` | without faults the index lists only files that exist, and operations on the same files never wait for each other forever |
| `sessions` | `Sessions` | `SessionTypeOK`, `RequestsAligned`, `WaitsWithoutLocks`, `ActiveExact`, `NoTornDownload` | message boundaries, no lock held between requests, connections counted, a successful download is one whole upload |
| `lifecycle` | `Lifecycle` | `ServerTypeOK`, `QueueInv`, `NoLostWakeup`, `OneOwner`, `ExitDrained`, `ShutdownEnds`, `ConnectionsServed` | the queue is bounded and no wakeup is lost; each connection has one owner until closed; a normal exit is complete; if clients end their sessions, a Ctrl+C that finds the server running ends the process and every accepted connection is served or closed |
| `wire` | `Protocol` | `WireTypeOK`, `NetworkByteOrder`, `ChannelSpec` | however the stream is cut and wherever it breaks, the bytes are the big-endian headers and what they announce, and the receiver gets whole messages in order |
| `client` | `Client` (module `MCClientServer`) | `ClientTypeOK`, `FramesAligned`, `DownloadsWhole`, `CommandsEnd` | one client, with files the server cannot open, write or remove or did not find at its start, and files that change during an upload: client and session agree on message boundaries, `downloads/` holds whole files, every command ends |
| `clients` | `Clients` (module `MCClientServer`) | `FramesAligned`, `LoginAgreed`, `CommandsEnd` | two clients, two user names and one worker, with local files that cannot be created: after any LOGIN, also under another name, both ends have the same user, and a queued client's command ends when the worker comes to it |
| `logger` | `Logger` | `LoggerTypeOK`, `LogFlushed`, `WrittenOnce`, `EventuallyWritten` | queued messages are written, once, before the destructor returns |

Four runs find what the code does differently from what the repository's
`README.md` says of it; TLC's trace is the scenario:

| Run | Violated | Scenario |
|---|---|---|
| `stale_index` | `IndexOnDisk` | an upload over an existing file breaks off: the file is removed, its index entry stays (`file_manager.cpp:102`) |
| `session_framing` | `DownloadFramed` | an upload between reading the size and locking the file (`server.cpp:172`) |
| `lifecycle_terminate` | `ShutdownClean` | main destroys the pool while the handler is still joining it (`thread_pool.cpp:24`) |
| `logger_hang` | `DestructorReturns` | the notification falls between test and sleep (`logger.cpp:20`) |

What the passing properties have to allow for, because the code does it:

* A successful download never releases its lock reference
  (`file_manager.cpp:182`), nor do the exits by exception. `LockInv` counts these
  references in `leaked`, and exclusion is stated for as long as they cannot have
  made the 32-bit count wrap. The entry of such a file stays in the table.
* Lock and index use the path as the client spelled it, while Windows ignores
  letter case. The runs have one file per path key; with a `FileOf` that maps two
  keys to one file, `ExclusiveAccess` and `StoreSpec` fail.
* `DiskIndexed` excepts the files in `unsynced` (see `FileManager`), among them
  every file deeper than `storage/<dir>/<file>` after a restart
  (`metadata_manager.cpp:114`): a user named like `team/bob` can store files, and
  finds them neither listed nor downloadable once the server was restarted, until
  they are uploaded again. For the index this is what a scan that gives up does too,
  which `storage_faults` explores; `clients` starts with such a user.
  `FileStore` allows a refused write and remains that cannot be removed, and
  `NoTornDownload` is not claimed after a crash in the middle of an upload.
* `ChannelSpec` promises delivery while the connection stays up, and it does not
  stay up for a buffer whose length is cast to a negative `int` or to 0
  (`network_utils.cpp:13`, `:43`): names, and payloads sent in one piece. File
  contents are sent in buffers of 8 KB and are not affected.
* `FramesAligned`, `LoginAgreed` and `CommandsEnd` except a client whose file
  changed while it was uploaded (`client.cpp:153`): the header has the size found
  before. A file that shrank leaves both ends waiting for each other, one that grew
  puts contents where the next header should be.
* These three and `DownloadsWhole` except a client that was misled. The server
  announces the size in the index (`server.cpp:172`), and the file it then sends has
  another one when a write was refused unnoticed (`file_manager.cpp:106`), when
  remains stayed because `fs::remove` threw (`:102`), when another session changed
  the file in between, or when `rename_file` moved a file without an index entry and
  recorded 0. The client then waits for bytes that do not come, or has some left
  that it takes for its next response. One thing that looks like it is *no*
  exception: an entry whose file is gone, after an upload that broke off. Such a
  download gets its header and no file, the session ends, and the client sees it.
* `CommandsEnd` does not speak of a client while its connection waits and all workers
  are busy: a worker serves a connection until it ends, so a client behind as many
  idle ones as there are workers waits without limit.
* `DownloadsWhole` is checked and proved without the client's fault "remove": when
  the remains of a download cannot be removed they stay.
* `ShutdownEnds` and `ConnectionsServed` need clients that end their sessions: `join` waits for workers
  in `recv`, and one silent client keeps the process alive.
* Ctrl+C between the registration of `ctrl_handler` and `running_ = true` does
  nothing (`server.cpp:96`); `ShutdownEnds` speaks of one that finds it true.
* `ActiveExact` counts connections that an exception abandoned (`server.cpp:128`).

**Bounds.** Two threads suffice for every conflict of the storage operations (a
reader or writer against a writer; two renames in opposite order) and two files
for every order of locking. Three calls (`MaxCalls`) give two
operations that overlap and one before or after them that sets the scene; the
sessions make two, over files that exist from the start. Two chunks make an
upload that can be half done. All users of a key share the table's entry, so that
two keys never need more than two entries (`StorageLive`); the other runs have a
third one, which a table that forgot an entry in use would hand out. In the lifecycle, two
clients fill the queue of one and put `push` to sleep before a worker takes the
first. `RefModulus` is 16, out of reach of `MaxCalls` as 2^32 is; the
theorems cover every modulus. In `client`, four commands are a login and three
transfers, or a login and an upload that breaks, a new connection, and a login and
the download that follows; sizes of half a buffer and of one and a half make
transfers of one and of two rounds; the file that exists from the start gives an
upload that breaks off something to destroy and leaves its index entry. (Names that
`is_valid_filename` rejects and renamings to another name are in `sessions`.) In
`clients`, two clients and a `PoolSize` of one make one wait for the other, and both
names are open to both clients, so that two commands hold two LOGINs under different
ones; each name has a file, one of them where the scan does not look. In `wire`, `Base` 5 is the smallest in which
the status codes fit four bytes, and a length of 1000 fills more than four. `IntModulus`
66 makes the 32 bytes of a header a positive `int`, 40 bytes a negative one and 67
bytes one that is 1 at first and 0 after it; two scripts send payloads of these
lengths. The other scripts hold two messages, so that every kind of message follows another one, with
empty and non-empty names. Symmetry of threads and entries is used in the
runs that check only safety, in `storage_faults` also that of the two files, each
taken with its key.

**Fairness.** Threads that can run are scheduled (weak fairness of each thread's
steps). Strong fairness is assumed in three places: for `RenameSecond`, since
`std::lock` promises freedom from deadlock and not that its attempts end; for
threads that compete for the logger's mutex; and in `ServerPoliteSpec` for
clients leaving, without which a shutdown need not end. `wire`, `client` and
`clients` have weak fairness of each end, the latter two none for the user at the
prompt or for the connections that break. `StorageLive` also has clients that keep sending and reading:
`recv` and `send` have no timeout. Nothing relies on spurious wakeups.

**Deadlock** is checked in every run. The specifications stutter explicitly
where the bounds end a behaviour (`Quiescent`, `AllQuiet`, `AllLeft`, `Over`, `Ended`, `Gone`).

## 4. Proofs

Checked by `tlapm <module>.tla` for each of the proof modules. Every theorem
below holds for every value of the constants that satisfies the assumptions named
with it. The assumptions of the modules themselves are `LockAssumption` (finitely
many threads, a count that has a value), `StorageAssumption`,
`StoreAssumption`, `SessionAssumption`, `QueueAssumption`, `ServerAssumption` (at least one worker:
`main` asks for `DEFAULT_THREAD_POOL`), `LoggerAssumption`, `ClientAssumption`,
`TokenAssumption` (a header, a name and contents are not taken for one another) and
`ProtocolAssumption` (what callers put into a header fits its 32 or 64 bits, and
the payload has the length announced); TLC evaluates them on every run.

**Lock table** (`FileManagerProofs`, first part): `LockTypeCorrect`, `LockInvariant`,
`LockExclusion`. `LockSpec` implies always `LockTypeOK`, `LockInv` and
`MutualExclusion`. Exclusion alone is not inductive: the mutexes of two entries
say nothing about each other, so the proof must know that all users of a key have
the *same* entry. That follows from the count being exact (`CountExact`: the
number of threads with a reference plus the leaked ones, as long as that cannot
have wrapped): an entry is erased only when its last reference goes.
`EntriesDistinct` keeps a new entry from being one another key uses,
`HoldersReferTo` an entry from being allocated again while its mutex is held,
`MutexExclusive` is the promise of `std::shared_mutex`.

**Storage operations and locks** (`FileManagerProofs`).

* `StorageUsesLocks`: every step of `FileManager` is a step of `LockSpec`; with it
  the lock table's theorems hold of the operations that use it.
* `StorageInvariant`, `StorageTypeCorrect`, `LockDiscipline`: always `TypeOK` and
  `LocksFollowControl`, the invariant that makes the lock table usable. It says,
  for each place in each operation, which references and which locks the thread
  has there: none outside an operation, a shared lock on the download's file, an
  exclusive one on every file about to change.
* `StorageExclusion`: always `MutualExclusion`. `NoConcurrentWrite`: always
  `ExclusiveAccess`, under two hypotheses. `OneKeyPerFile`: different path keys
  name different files. It fails for names that differ only in letter case on
  Windows, and then the property fails too (section 3). `NoWrap`: as long as
  leaked references have not made a 32-bit count wrap.

**Contents** (`FileContentsProofs`).

* `DiskInvariant`, `IndexFollowsDisk`: always `DiskIndexed`, whatever faults and
  crashes occur, under the same hypotheses and with the exceptions that
  `DiskIndexed` names: files with a refused write, remains, and files the last scan
  did not index, those deeper than it looks included. "Files nobody writes agree with
  the index" says nothing of files being written, so it does not survive the
  end of a write. `DiskInv` adds how far each writer is: a file is settled, or
  some holder of its lock is in the middle of an update, and disk and index are
  `UpdatedSoFar` there. That at most one thread is in an update of a file, and that
  nobody else's step touches it, is `ExclusiveAccess`.
* `IndexListsDisk`: always `IndexOnDisk` if in addition connections do not break
  during uploads (`"net" \notin Faults`); the run `stale_index` shows that this is
  needed.
* `TransferInvariant`: with every fault, what is on the disk of an upload under way
  is a beginning of it, and as long as what has been received unless the disk
  refused a part; what a download has sent is a beginning of its file; there is no
  result before the way out (`TransferInv`). A download keeps its file by its
  shared lock.
* `DownloadIsOneUpload`: always `NoTornDownload`. `WholeInv` says in addition that
  every file is one upload, or still arriving. The hypothesis `UploadsEndWhole`
  excludes crashes, writes the disk refuses and remains that cannot be removed:
  each of them leaves the beginning of an upload on the disk, and a later download
  is whole and yet not an upload.

**The atomic store** (`FileStoreProofs`): `StorageImplementsStore`. Every behaviour
of `FileManager` is one of `FileStore` under the mapping of section 2 (`StoreSpec`),
with every fault and crash, under `OneKeyPerFile` and `[]NoWrap`. The proof goes
action by action: `SaveOpen` is `Write`, `SaveIndex` is `Written`, `SaveNetError` is
`BreakOff`, `StreamEnd` is `Read`, `DeleteRemove` is `Remove`, `RenameMove` is
`Move`, a path that finds a file missing or gets an error is `Reject`, `Restart` is
`Crash`, and all other steps leave the store as it is. What each one needs is that
its thread holds the file's mutex, so that nobody else is uploading it
(`HolderAlone`), that disk and frame are as `DiskInv` and `TransferInv` say, and for
`Restart` that what an upload has on the disk is a beginning of it.
`StoreAssumption` says that `None` is not an operation.

**Sessions** (`SessionProofs`): `SessionInvariant`, `SessionTypeCorrect`,
`HeadersAtBoundaries` (`RequestsAligned`), `WaitingHoldsNothing`
(`WaitsWithoutLocks`), `ConnectionsCounted` (`ActiveExact`). The invariant
`SessionInv` ties a worker's stage to where its operation is and to what is left
in the socket (`WorkerOK`). Since a session's steps are steps of the storage
operations or leave them alone, `ServerIndexFollowsDisk` and
`ServerDownloadsWhole` lift the theorems above to the whole server.

*Framing of downloads*: `DownloadInvariant`, `DownloadsFramed`, `OneWorkerFramed`.
`DownloadFramed` is false, as the run `session_framing` shows; these theorems say
what exactly stands between it and the code. They have two hypotheses about the
behaviour besides `[]NoWrap`. `[]Undisturbed`: from the look-up of a file's size to
the end of its download nobody uploads, deletes or renames that file.
`[]DownloadsSynced`: no download is of a file whose index entry the code has lost
track of (`unsynced`), after a refused write, remains or the scan. No fault is
excluded: where a file is in step with its index entry, refused writes, remains and
failing calls elsewhere do not matter. (`Session` follows one process of the server,
from any disk and any scan at its start.) A server with one worker meets
`Undisturbed` by itself, hence `OneWorkerFramed`; it still needs `DownloadsSynced`,
since a refused write breaks the framing with one worker too. The invariant
`DownloadInv` says that what the header announced is the size in the index, that it
is the length of the file as soon as the file is locked, and that an upload that
breaks off leaves an entry whose file is gone and not a shorter file.

**Client and session** (`ClientServerProofs`): `SystemInvariant`,
`ClientTypeCorrect` (`ClientTypeOK`), `EndsAgreeOnFrames` (`FramesAligned`),
`EndsAgreeOnLogin` (`LoginAgreed`), `DownloadsComplete` (`DownloadsWhole`), for any
number of clients, user names and workers, and with every fault of client and server
but the crash of a process, which for the other end is a connection that breaks.
They assume only `OneKeyPerFile` and `[]NoWrap`; what a wrong length does is in the
properties, which except the clients that were told one (`misled`).
`DownloadsComplete` adds that the client can remove a file it gave up
(`"remove" \notin ClientFaults`). Agreement at the prompt is not inductive. `SystemInv` describes the whole conversation (`Conversation`): for
each state of the client, which tokens are on their way in either direction and in
which place of `handle_client` the session can be then. The request is still on its
way (`Asked`), the session works on it and what is left of its payload is what
`unread` and the operation say (`Working`), the answer is on its way (`Answered`),
or the header of a download is, and its contents are split between the connection
and what `stream_file_to_socket` has still to send (`Announced`). That the file it
opens has the announced length is what "not misled" says at one instant; that it
keeps it while it is sent, whatever others do, follows from the invariants of the
storage: the download holds its file's lock. A connection that waits for a worker
has requests on their way and no session. A broken
connection weakens what is promised of the session and nothing of what the client
has; a client whose file changed is followed until the server meets contents where
a header should be. The proof goes step by step on both sides: each step of a
session changes only its own client's conversation (`SystemStep`), and steps of
other sessions change none.

**Queue** (`ServerLifecycleProofs`, first part): `QueueInvariant`, `QueueWakes`. For every finite set
of threads and every capacity, `QueueSpec` implies always `QueueInv` and
`NoLostWakeup`. "Somebody is awake" is not inductive, because one notified
consumer can take the task meant for another. The invariant counts: while a
consumer sleeps there are at least as many consumers awake or notifications on
the way as tasks (`EmptySleepers`), and dually for producers and free slots
(`FullSleepers`).

**Start and stop** (`ServerLifecycleProofs`): `ServerUsesQueue` (every step of the
server is a step of `QueueSpec`), hence `ServerWakes`; `ServerInvariant`,
`ServerTypeCorrect`, `ConnectionsOwned` (`OneOwner`), `ExitsDrained`
(`ExitDrained`). `ServerInv` adds to the two properties the control of the three
kinds of threads (`Control`: what `running_`, `stopped_` and each `closer` imply
about the others) and `Drained`: once `shutdown_` is set and a worker has left
its loop the queue is empty and stays so. It needs the one worker of
`ServerAssumption`: with none, nobody would drain the queue.

**Logger** (`LoggerProofs`): `LoggerInvariant`, `LoggerTypeCorrect`,
`LogsWrittenOnce` (`WrittenOnce`), `DestructorFlushes` (`LogFlushed`). The argument
is one sequence, `Pipeline`: what has been written, then the message the
background thread has in hand, then `queue_`. A call of `log` extends it, nothing
else changes it, so no message is lost, doubled or overtaken; that the thread ends
only with an empty queue makes the whole sequence written.

**Protocol** (`ProtocolProofs`). `HeaderRoundTrip`: what `recv_header` makes of the
32 bytes of `send_header` are the fields they were made from. It rests on lemmas
about digits: `Memory` and `Value` are inverse to each other below `Base^n`, `htonl`
reverses four bytes, and `htonll`, which swaps the halves and converts each,
reverses eight. Each of the widths 4 and 8 is unrolled, so no induction over data is
needed. `WireInvariant`: always `WireInv`, from which follow
`WireTypeCorrect` (`WireTypeOK`), `WireInNetworkOrder` (`NetworkByteOrder`) and
`FramesMessages`, the safety part of `ChannelSpec` (`Channel!Safe`: the receiver's
messages are those that were begun, whole, in order, at most once). That the bytes
received so far are right is not inductive, since what the receiver does next
depends on where it believes to be. `WireInv` cuts the encoding of a message in
four sections with their offsets (`Section`, `Offset`): the sender is between two
messages or `total_sent` bytes into a section, and the end of the wire is exactly
there (`SenderAt`); the receiver's `buffer` is the beginning of the section its
`field` names, `taken` points there, and the header and names it has already are
those of the message (`ReceiverAt`); every message that was followed by another is
whole on the wire (`Whole`). TLC agrees with `WireInv` on the instance of the run
`wire`.

Only model-checked: everything under fairness (`OpsComplete`,
`ShutdownEnds`, `ConnectionsServed`, `EventuallyWritten`,
`CommandsEnd` and the delivery that `ChannelSpec` promises beyond `Channel!Safe`),
since liveness is out of the prover's reach. Every invariant of a passing run is a
theorem, and so are the refinements `LockSpec` and `StoreSpec`.

## 5. Not modelled

* Load test (a benchmark), start-up of the sockets and of Winsock, and the
  splitting of an input line into words: no state that the properties depend on.
* Times, formatting and wording of listings, answers and log lines.
* Errors of `std::bad_alloc` other than the one of an oversized request.
* `MetadataManager::remove_directory`, which has no caller.
* A disk of the client that refuses the data of a download (`client.cpp:264` does
  not look).
* What the server does with file contents it takes for a header.
* In the liveness runs, a peer that falls silent within a message without the
  connection breaking: the code has no timeout to end it.
* Sessions after a crash of the server: `Session` and `ClientServer` begin with a
  start from any disk, and crashes themselves are in `FileManager`.
* More than one Ctrl+C, and a failure of the constructors in `main`.

## 6. State of the plan

All modules, runs and proofs above are done. The theorems about downloads are
stated under `Undisturbed` and `DownloadsSynced`, and those about clients except
the misled ones. If `handle_client` took the announced size from the file, under
its lock, both could be dropped from all of them; that is the change of the code
this development would check next.
