# A TLA+ model of OneLight

OneLight (the binary `holycontainer`) is a container runtime written in Rust
without dependencies: it creates, starts, stops and deletes containers on Linux
and Windows, pulls images from a registry, brings up stacks of services, boots a
Linux kernel in a small virtual machine on Windows, and has a web dashboard.
This directory holds TLA+ modules that model it, the TLC configurations that
check them on small instances, and theorems about them that TLAPS proves.

Paths below are relative to the repository; `container.rs` stands for
`src/container.rs` and so on.

    tlc -config <Run>.cfg <Module>.tla      # the table under "Runs" pairs them
    tlapm <Module>_proofs.tla

## The system

There is no daemon. Every command is an operating system process of its own
that reads and writes files under `/var/lib/holycontainer`, makes system calls
and exits; on Linux the container's processes live on without it. Two commands
that run at the same time therefore share files, cgroups (or, on Windows, job
objects) and the kernel's process table, and **no lock protects any of them**.
The only long-lived process is the dashboard, a sequential HTTP server that
calls the same functions.

| component | source | state | operations | model |
|---|---|---|---|---|
| container lifecycle | `container.rs`, `platform/mod.rs` | the state directory of a container | create, start, stop, delete, `ps` | `ContainerLifecycle`, `Lifecycle` |
| container record | `config.rs` | the file `config` | save, load, list; parse_memory | in `ContainerLifecycle`; not its text |
| cgroups | `platform/linux/cgroup.rs` | a directory under `/sys/fs/cgroup`, its limits and members | create, limit, add, remove | in `ContainerLifecycle` |
| process creation | `platform/linux/mod.rs`, `namespace.rs`, `capabilities.rs` | parent, child, a pipe | spawn_process, stop_container | `SpawnHandshake`; as single steps in `ContainerLifecycle` |
| seccomp filter | `platform/linux/seccomp.rs` | a BPF program | build; the kernel runs it | `Seccomp` |
| command line | `main.rs` | none | create, start, stop, rm, run, exec, ps, pull, up, down, vm-boot | exec in `ContainerLifecycle`, vm-boot in `Vmm` |
| dependency sort | `compose.rs` 215-286 | marks, order | topological_sort, visit | `TopoSort` |
| stacks | `compose.rs` 288-378 | the containers of a stack | stack_up, stack_down | `Stack` |
| stack files | `compose.rs` 71-213 | none | parse | not modelled: text |
| image registry | `registry.rs` | token, manifest; an image directory: `layers/`, `rootfs/`, `image.conf` | token, manifest, manifest list, blobs; pull_image, extraction | `Registry`; `ImagePull` |
| HTTP client | `http.rs` | a connection, WinHTTP handles | redirects, raw sockets, curl, WinHTTP, chunked bodies | `HttpClient` |
| gzip | `gzip.rs` | a bit reader, Huffman tables, the output | decompress, compress_simple | `Huffman`, `Inflate`, `GzipFormat`, `Deflate` |
| JSON | `json.rs` | none | parse, print | "a document or none" in `Registry` |
| local images | `image.rs` | tar archives | import, export | not modelled |
| overlay | `overlay.rs` | mounts | mount, unmount | not modelled: nothing calls it |
| dashboard | `dashboard.rs` | a listening socket; in the browser, a page | accept, read, list, stop, rm, pull; the page's reloads | `Dashboard` |
| root filesystem | `platform/linux/filesystem.rs` | mounts | setup_rootfs, pivot_root | not modelled: nothing calls them |
| container network | `platform/linux/network.rs` | veth pairs | setup | not modelled: nothing calls it |
| system calls, errors | `syscall.rs`, `error.rs` | none | declarations | no behaviour |
| Windows backend | `platform/windows/` without the next | job objects, suspended processes | spawn, assign, resume, limit, terminate | `JobLifecycle` |
| micro virtual machine | `vmm.rs`, `whp.rs`, `virtio.rs` | a partition, guest memory, console output | boot, exit loop, release | `Vmm` |

How they interact: the command line (and the dashboard) calls `container.rs`,
`registry.rs` and `compose.rs`; `compose.rs` calls `registry.rs` for an image and
`container.rs` for each service; `registry.rs` calls `http.rs` for bytes,
`json.rs` and `gzip.rs` for their meaning; `container.rs` loads and saves the
record and calls the backend chosen at compile time, which forks, unshares,
limits and signals, or creates, assigns and resumes. Nothing calls back, and all
that commands have in common is on disk or in the kernel.

What is hard here, and what makes each part correct:

* **The record against reality.** The record says "running" and names a pid;
  the kernel has the process. They change in separate system calls, a process
  ends or forks on its own, and a command can be killed between any two calls.
  Right means: `ps` does not lie, no process is lost or started twice, a name
  stays usable, `stop` signals only what `start` spawned.
* **Check, then act.** Each command checks the recorded state once, at its
  start, and acts on its copy many calls later.
* **The cgroup that comes and goes.** create removes the cgroup it has just
  limited; stop and exec make it again without limits; each write to it may fail,
  and the code only warns. Right means that a running container is limited and is
  in its cgroup, or that its start has said that it may not be.
* **The pipe between parent and child.** The parent must not go on before the
  child is isolated, and must not wait for ever for one that has died.
* **A program of jumps.** The offsets of the filter's jumps are computed, and one
  off lets a blocked call through.
* **A job that is shared by name.** On Windows any command that opens the job
  keeps it and its processes alive, and the last one that closes it kills them; the
  cpu rate is set apart from the other limits, and may be refused with a warning.
* **The order of a stack.** A recursive search over a hash map, whose order changes
  from run to run and from command to command: no service before its dependencies, no
  wrong verdict, no endless recursion; and the loops that go up and down, each through
  an order of its own, while single calls fail.
* **Servers.** They redirect anywhere and for ever, cut bodies anywhere, and
  answer with lists, errors and nonsense; the program and curl both follow them. The
  token stays with the registry, the call ends, each of six hand-written lists of
  handles to close is the right one, and a layer is whole or refused.
* **Decompression.** A bit reader, two kinds of tables built from code lengths,
  runs that cross from one table into the other, copies that overlap themselves.
* **Pulls that overlap or break off.** The existence of a layer file is all that
  says it has been downloaded.
* **Resources of a virtual machine.** Six places give up with something acquired,
  and each repeats part of the destructor by hand; fixed guest addresses decide
  whether the boot image is intact.
* **One thread for all visitors.** A silent client blocks the dashboard, a client
  that hangs up in the middle has its request carried out, the page's reloads
  overlap, and a panic in a request ends the server.

`PROJECT.json` lists these hazards, each with its line and the properties that
cover it.

## Modules

| module | what it is | used by |
|---|---|---|
| `ContainerLifecycle` | create, start, stop, delete and exec, system call by system call | |
| `Lifecycle` | the abstract specification: absent, created, running, stopped | |
| `LifecycleRefinement` | the mapping from the first to the second | |
| `SpawnHandshake` | `spawn_process`: parent, child and pipe | |
| `Seccomp` | the filter program and the machine that runs it | |
| `MCSpawnHandshake` | the child of the first, whose command runs under the second | |
| `TopoSort` | `topological_sort` and `visit` | |
| `Stack` | `stack_up` and `stack_down` over the containers of a stack | |
| `ImagePull` | `pull_image`'s cache and extraction, tar entry by tar entry | |
| `HttpClient` | one GET with its redirects, on Linux and on Windows | `Registry` |
| `Registry` | token, manifest, manifest list and blobs | `Download` |
| `Huffman` | tables from code lengths, and decoding with them | `Inflate` |
| `Inflate` | `decompress`, bit by bit | `Download` |
| `GzipFormat` | the format `decompress` reads: which file holds which blocks, and what they mean | `Download`, `Deflate` |
| `Download` | a pull from the first request to the contents of each layer | |
| `Deflate` | files that gzip programs, and `compress_simple`, write | `MCDownload`, `Download_proofs` |
| `Vmm` | vm-boot: acquire, write the boot image, serve exits, release | |
| `JobLifecycle` | the commands on a Windows container: job and process | |
| `Dashboard` | server, page and visitors | |
| `MCContainerLifecycle`, `MCImagePull`, `MCDownload`, `MCWindows` | constants and symmetry for TLC; `MCWindows` puts the two Windows modules side by side | |
| `ContainerLifecycle_proofs`, `Spawn_proofs`, `TopoSort_proofs`, `Stack_proofs`, `ImagePull_proofs`, `Download_proofs`, `Windows_proofs`, `Dashboard_proofs` | the theorems | |

How they fit together: `SpawnHandshake` is what the steps `Fork` and `Attach` of
`ContainerLifecycle` look like from inside; `ContainerLifecycle` is what each call
in `Stack` looks like from inside; `Stack` takes as its order any result that
`TopoSort` is proved to give; `Download` composes `Registry`, `HttpClient` and
`Inflate` along the calls of the code, and is what the steps `Download` and
`Read` of `ImagePull` look like from inside. A definition whose comment begins
"Fault:" is no part of a specification: it is a wrong version of the definition
after it, kept to see that the properties notice it.

### ContainerLifecycle

*State.* For each name: does the directory exist, what does the file `config`
hold (nothing, empty, garbled, or a state and a pid), does `rootfs_path` exist,
and the cgroup (none, without limits, limited). For each pid: is it free, alive
or dead, for which container it was spawned, in what role, and in which cgroup.
For each command in flight (a *client*): the operation, the next step, the copy
of the configuration it loaded, the pid fork gave it, and whether it has the
config file open. Two variables are history: `disturbed`, that two commands on that
name overlapped or one broke off, and `warned`, that the last start of a container
printed a warning about its cgroup.

*Steps.* `After` is the order of the system calls of each command, read off
`container.rs`. Calls that no other command can tell apart are one step. Each
operation begins with `Create` or `Load`, whose guards are the checks the code
makes before it changes anything: an error returned there changes nothing and so
is no step at all. The rest is one action per call:

| action | code |
|---|---|
| `Isolate`, `Limit`, `Attach` | `create_isolation`, `apply_limits`, `add_process`; mkdir of a cgroup, each write of a limit and the write of `cgroup.procs` may fail, which is only warned of (`Warn`) |
| `Drain`, `RemoveCgroup` | the two halves of `remove_cgroup`, each of which the kernel may refuse without the code noticing |
| `Fork` | `spawn_process` up to fork |
| `Term`, `Kill` | `stop_container`: SIGTERM, two seconds, SIGKILL |
| `Mkdir`, `Truncate`, `Write` | `ContainerConfig::save`: create_dir_all, and the open and the write of `fs::write` |
| `Link` | the file `rootfs_path` of create |
| `Unlink`, `Rmdir` | `remove_dir_all` of delete |
| `Abort` | the command is killed, or a call fails and `?` returns |
| `Exit`, `Spawn` | a process ends, or forks, by itself |

A file that is opened for writing before it is unlinked goes on without a name
(`fd` is "stale"); two writers of one file may leave a mixture (`Garbled`).

*Abstractions.* The configuration is its state and its pid. `remove_dir_all` sees
all files in one step. SIGKILL takes effect at once. A dead child of a command
that has not exited yet counts as dead, not as a zombie. The check that the
rootfs directory exists is left out: it changes nothing. A cgroup has all of its
limits or it has not ("limited" or "bare"): when a write fails, an old cgroup may keep
what it had (`Partly`). Without `CgroupsUsable` no cgroup can be made at all. With
`PidReuse` the kernel may hand out a dead process's number again; without it,
never.

### SpawnHandshake and Seccomp

The two processes have a program counter each; the pipe is who holds its ends
and whether it holds the byte. `read` returns the byte, or end of file when
nobody holds the write end, and blocks otherwise, which is what the kernel does.
`unshare(CLONE_NEWPID)` is for the children the process forks later, so the
child's own namespaces afterwards are all but "pid". Either process may die at
any step. `Secure` drops the capabilities and loads the filter; each may fail,
and the child goes on. Left out: the host name, the session id, the wording of
the errors. A read that a signal interrupts is left out as well: the program
installs no handler.

`Seccomp` has the program that `apply_seccomp_filter` builds, instruction by
instruction, with jump offsets modulo the width of a `u8`, and the machine that
executes it for each call of the command. Numbers of system calls are numbers;
which calls are on the list is a constant. `MCSpawnHandshake` runs the machine in
a child that has loaded the filter.

### TopoSort

The activations of the recursive `visit` are the sequence `path`, the part of
each dependency list that its loop has not reached is `todo`, and `mark` is the
map `visited`. The hash map is enumerated in any order. `deps` is chosen freely at
the start, so that one run covers every graph. A `depends_on` list is a set: a
name that stands in it twice is `Skip` the second time.

### Stack

Every command parses and sorts the stack anew (`compose.rs` 207, 220), over a hash
map: `Begin` takes any order that the sort can return, whatever the commands before
had. One step per call of `container.rs` or `registry.rs`; each call succeeds, is
refused because of the container's state, or fails and may leave the container
without a readable configuration ("broken"), after which every call on it is
refused. A create that fails may also have saved its configuration already.
stack_up and stack_down print errors and go on, with two exceptions that the
model keeps: a service whose root directory cannot be had is not created, and
one whose create fails is not started. Three variables are history: `before`, the
containers as the command found them, `troubled`, that one of its calls failed, and
`spoiled`, that a call failed or a command was killed since one last began with
no container. Commands on the stack do not overlap
here; what two overlapping commands do to a container is the subject of
`ContainerLifecycle`.

### ImagePull

A call goes through the layers of the manifest: `Look` (does the file exist),
`Download`, the open and the write of `fs::write` (`Open`, `Fill`, `Filled`: the
file is empty, then partly written, then whole, and the kernel's inode lock keeps
`Open` and `Fill` of others out of the write), `Read` (decompression fails on a
partly written file; an empty one is not taken for gzip and as a tar archive has
no entries), `Extract` once per tar entry, and `SaveInfo`. A failing download ends
the call (`Refused`). `Mishaps` says what else may happen: the command is killed,
the body is cut, writing a file of a layer fails (which the code ignores).

*Abstractions.* A layer is a sequence of files and whiteouts; links, directories
and permissions are left out, and so are opaque whiteouts and moving tags (see
"Known divergences without a run"). Layers are gzip, as registries serve them.
A file of a layer is written in one step: overlapping writes of different
contents are followed by a whole write of the upper layer's, as for the steps
modelled. A cut body has at least the ten bytes of a gzip header, so that it is
never taken for an empty file.

### HttpClient, Registry and Download

`HttpClient` is one call of `get` or `get_follow_redirects`. A URL is a scheme, a
host and a resource. `Hop` is a round of the redirect loop, which decides by host
whether the token goes along; then come the steps of the platform: a raw socket
for http on Linux (`RawGet`), a curl process for https (`CurlGet`), and on Windows
the sequence of WinHTTP calls, each of which may fail; each return closes the handles
that are written at it, and `Closes` has these lists, return by return. curl is
started with `-L` and follows redirects itself (`CurlFollow`): the requests it makes
are on the wire too, and `asked` has them.
`Chunk` is one round of `decode_chunked`. Servers may answer anything in
`Replies`: the resource, an error, a redirect to any URL, to one that does not
parse or to nowhere; and the connection may end after any byte of the body. What
curl prints is the headers as they came and the body *decoded*.

`Registry` is `get_auth_token`, `fetch_manifest`, `resolve_manifest_list`,
`parse_manifest` and the loop over the layers; a JSON body is a document if it is
whole, and none if it is cut. `Download` adds `extract_layer`, which looks for the
gzip magic and calls `Inflate`.

*Abstractions.* The lengths of symbols on the wire: the digits of a chunk size are one
symbol. The text of URLs and headers. Of the answers to the redirects that curl
follows itself the code sees nothing, since it parses the headers that are printed
first and follows them once more. curl is external: that it sends a header given with
`-H Authorization` only to the host of its own first request, and that it gives up
after 50 redirects, is what curl documents, and assumed. An interrupted connection
during the headers is an error; the Windows client takes a failing read for the end of
the body, as the code does. Whether a layer's file exists already is `ImagePull`'s
concern.

### Huffman, Inflate, GzipFormat and Deflate

`Huffman` translates `from_lengths` (counts, first codes, per-length minimum,
maximum and offset, the list of symbols) and `decode`; beside it stands the
canonical code by its definition (`Canonical`), and what makes one code a prefix
code (`IsPrefixCode`). The arithmetic is that of the build which the project documents,
`cargo build --release`: offsets are kept modulo 2^32, and the sum of one and a code
(`gzip.rs` 181, 199) wraps back to a place in the list. A build with overflow checks
would panic there. `Inflate` is `decompress`: one step per gzip header, block
header, table of code lengths, run of lengths, and symbol.

`GzipFormat` says what the code is measured by. A *stream* is a list of blocks: the
bytes of a stored one, or literals and copies with the lengths of their codes. `Holds`
says that a file has a given stream, bit by bit (`Stands`), and `Meaning` what a stream
means: a copy takes one byte after the other. Neither decodes anything: that the
table a file has is the one its literals are written in is a conjunct, not a
computation. `Deflate` writes files of that format: what gzip programs write (stored,
fixed and dynamic blocks, optional header fields) and what `compress_simple` writes.
The checksum is left out: a mismatch is printed and nothing else.

### Vmm

`step` is the call that comes next. `Create` is a call of `VirtualMachine::new`
that succeeds, `Write` a piece of the boot image, `Handle` and `AdvanceRip` an exit
and the move past its instruction, `Stop` the end of the loop, `Free` one call of an
error return or of `Drop`. `Fail` may happen at every step and continues with the
releases that the code makes there (`Release`). Memory is in pages; the layout is
`Piece`. A guest is the sequence of exits it causes. Left out: the contents of
page tables and registers, and the value of ports and registers that no property
speaks of.

### JobLifecycle

The commands on a Windows container as sequences of calls (`Calls`): every one of them
opens the job by its name and drops it at its end, killed or not. The job's limits are
those of the object, which exists as long as somebody has a handle. Memory, processes
and kill-on-close are set in one call (`SetExtendedLimits`), whose failure ends the
command; the cpu rate in another (`SetCpuRate`), whose failure is a warning, and the
command goes on. `Assign` may fail, which is printed and ignored; children of a
process are in its job. The record is read and written in one step each, since
`ContainerLifecycle` has the steps of that; a command is admitted by the record as it
is then.

### Dashboard

The kernel's queue of connections, the server with what it does next (`phase`), the
page's reloads in flight (a pair of requests each), its operations, and visitors
that send slowly, send nothing, or close early. What a list holds is how often it
had been changed when it was read, so that "older" has a meaning. The server reads
a request line, headers and a body as `handle_request` does, and takes the end
of the file for an empty line. What ends a connection with an error is `Error`: a
client that has gone, a line that is no text, a body that is cut. What ends the server
is `Panic`: a Content-Length beyond memory, which is reserved before the body is read
(`dashboard.rs:95`), and a pull that panics (`registry.rs:315`, `http.rs:513`).
A connection that finds the queue full is dropped and tried again by its client
(`Retry`), behind those made meanwhile, until it gives up (`GiveUp`); `full` is history:
this has happened. Left out: the texts; a third request of the page for what never
changes; and `try_clone().unwrap()` (`dashboard.rs:64`), which panics when the process
has no file descriptor left: a sequential server holds a handful.

## Runs

| run | cfg, module | what is checked | shows |
|---|---|---|---|
| lifecycle_safety | `LifecycleSafety`, `MCContainerLifecycle` | `TypeOK`, `PsTruthful`, `RecordUsable`, `Confined`, `SignalsOwnProcess`, `RefinesLifecycle` | record, cgroup and processes agree, see below |
| lifecycle_liveness | `LifecycleLiveness`, `ContainerLifecycle` | `StopEndsProcess` | a stop that gets to SIGTERM ends the recorded process, although it may ignore SIGTERM |
| lifecycle_delete_race | `LifecycleDeleteRace`, `ContainerLifecycle` | `DeletesOnlyStopped` | **violated** |
| spawn_handshake | `SpawnHandshake`, `MCSpawnHandshake` | `TypeOK`, `IsolatedFirst`, `FilterRight`, `ParentReturns` | the parent goes on only with a child that is isolated or dead, and always goes on; the filter decides as the list says |
| topo_sort | `TopoSort`, `TopoSort` | `TypeOK`, `DependenciesFirst`, `VerdictRight`, `Terminates` | the sort is right and ends, whatever the graph and the order of enumeration |
| stack | `Stack`, `Stack` | `TypeOK`, `DependenciesRun`, `DownRemovesAll`, `UpStartsMissing` | up and down, each in an order of its own, in any sequence and with any failures |
| image_pull | `ImagePull`, `MCImagePull` | `TypeOK`, `OverlapHarmless` | pulls that overlap, and fail to download, still leave a listed image complete |
| download | `Download`, `MCDownload` | `TypeOK`, `TokenStaysHome`, `HandlesClosed`, `PlainWhole`, `RightPlatform`, `LayerWhole`, `DownloadEnds` | token, handles, platform and bytes of a pull, whatever the servers do |
| download_chunked | `DownloadChunked`, `MCDownload` | `ChunkedHandled` | **violated** |
| windows | `Windows`, `MCWindows` | `WindowsTypeOK`, `ReleasesExactly`, `BootImageIntact`, `OutputWhole`, `RunsLimited`, `NothingOutlives`, `Returns` | vm-boot and the container commands on Windows |
| windows_start | `WindowsStart`, `JobLifecycle` | `StartedStaysUp` | **violated** |
| dashboard | `Dashboard`, `Dashboard` | `TypeOK`, `NeverBackwards`, `ActsAsAsked`, `AllServed` | slow, silent, vanishing and ill-behaved visitors, and the server's panics |

**lifecycle_safety.** Between commands that neither overlapped nor broke off: `ps`
tells the truth (`PsTruthful`); a directory always has a readable record
(`RecordUsable`); a running container's process is in its cgroup with the limits set,
or the start that spawned it has printed a warning (`Confined`): no container runs
unconfined in silence. In every state, races and crashes included, stop signals only a
process that start spawned for that container (`SignalsOwnProcess`). And the commands
implement the four-state machine (`RefinesLifecycle`): a command takes effect when
`fs::write` truncates the config file, because from there only an abort keeps it from
writing what it has decided on. The premise "neither overlapped nor broke off" is
needed, not convenience: lifecycle_delete_race is one of the ways in which overlapping
commands break the promise. Its price is that these properties claim nothing of two
creates, two starts, a start killed before its save, or a delete undone by a slower
stop: all of these are behaviours of the model, and the code leaves a record there
that does not fit the processes.

*Bounds.* Two clients, one name, three pids. Two clients are what a race needs;
commands on different names share nothing but pids, so that one name suffices
where pids are not reused. Three pids: an init process, the one of an exec or of
a second start, and a descendant. Processes are not recycled, so that runs
through many restarts are cut off when the pids are spent; each name can still go
through create, start, stop, start again, delete and create. All six
properties are also proved for any number of clients, names and pids.
`CHECK_DEADLOCK FALSE`: the system may stop with no pid left or with a name that
is unusable.

**lifecycle_liveness.** Two clients and two pids on a host without usable cgroups,
which only shortens the commands' steps to no effect and keeps the graph small.
*Fairness:* weak fairness of `Work(cl)` for each client, that is, the operating
system schedules every command that has been started and each call returns.
Nothing is assumed of `Abort`, of users, or of the container's processes.

**spawn_handshake.** The handshake has no bounds: its state space is finite. The
filter has a list of seven blocked calls, in no order, and jump offsets that count
to eight, so that the longest jump is one short of overflow, as the proof's
assumption allows; calls are numbered 0 to 8, on the list and not, from both
architectures. *Fairness:* both processes are scheduled, except that each may
die. The child's steps do not block; the parent's `read` is the only one that
does, and it is enabled exactly when the kernel would let it return.

**topo_sort.** Three services and one unknown name: all 4096 graphs, and every
enumeration of both hash maps. Three are enough for a circle through an
intermediate service, a diamond without its top, and a shared dependency visited
from two roots; the theorems cover the rest. *Fairness:* a single thread that
nothing blocks (`WF(Next)`).

**stack.** Three services, every dependency graph that can be sorted, every sequence
of ups and downs of any length, each in any order the graph has: an up in one order
is followed by a down in another, and by an up over what both have left (416 thousand
states). `DependenciesRun` says
nothing once a call has failed or a command was killed, until a command begins with
no container again, because stack_up goes on
after a failure and starts what depends on the service. `DownRemovesAll` and
`UpStartsMissing` hold from whatever came before: only the command itself must
have had no failing call. `UpStartsMissing` is about the first up and the repeated one:
what did not exist is running, and what existed is as it was, be it created and never
started. Between them they are the way out of any failed up: down, then up.

**image_pull.** Two calls on an image of three layers, one of which removes and
replaces files of the lowest, and one of which puts a removed file there again,
with all mishaps. A mishap turns `OverlapHarmless` off, so that what it shows
is: with any overlap and any refused downloads, and nothing else wrong, a listed
image has exactly the files of its layers. It is not obvious: a call that finds a
layer file empty, because another call has just created it, skips the layer, and
lays the later ones over a rootfs that lacks it. The other call then unpacks
the layer and all later ones over that; it cannot fail to download them, since they
are there.

**download.** On both platforms, with two hosts, three redirects (five in the code)
and chunks of sixteen bytes, so that the loop of redirects can leave the registry,
come back and run out, and a body has several chunks. The registry may answer with a
single manifest, one with layers of which one has no or a short digest, three lists
(for two systems in the less convenient order, without a suitable entry, with an entry
without digest), and tokens that are there, empty and missing. Layers are four gzip
files that between them have every kind of block, every optional header field, code
lengths of 1 to 9 bits, a run of lengths that crosses from literals to distances,
copies that overlap themselves, with extra bits, and of length 258; besides, what
`compress_simple` writes in blocks of two bytes, an empty one, and a file that is not
compressed. Each may be cut after every byte. `TokenStaysHome` is about every request,
of the program and of curl; `HandlesClosed` says that at each of the six returns of
`https_get` the list that is written there is what is open, no more and no less, and
that nothing is open between calls. `PlainWhole` and `LayerWhole` say: what is
complete comes out complete, and what is not is refused, never a different content.
That holds for gzip alone: what is not compressed, or ends before the second byte of
the gzip magic, is taken for an archive as it is, since nothing in it says how long it
is. That the gzip files are in the format (`DownloadAssumption`) TLC evaluates, so
that the run also checks what `Deflate` writes against `GzipFormat`. *Fairness*: the
calls of the network return (`WF(Network)`), and curl comes to the end of the
redirects it follows, of which it takes 50 at most; nothing else is needed. 140
thousand states.

**windows.** `MCWindows` runs either vm-boot or the container commands. *vm-boot:*
kernels of one page, exactly up to the initramfs, and one page over it; no initramfs
or one of eight pages; command lines of one page and of 24, which is what the 32767
UTF-16 units that Windows can pass come to in UTF-8, three bytes each, with the zero
byte that ends them; a guest too small for any kernel and one just large enough for
the initramfs; guests with up to two exits before the last, so that every pair of
console output, another exit and an end occurs; and every call may fail. *Commands:*
two commands on one container, which may hold the job in turn and together, and two
processes, one of which may be the child of the other; setting the cpu rate may fail
every time. `RunsLimited` says that a process that runs in the job has all limits, or
a command has warned that the rate could not be set; a process whose assignment was
warned of is not in the job, and excepted. *Fairness:* vm-boot is one thread whose
calls return; `Returns` counts on a guest that comes to a stop. Nothing is assumed of
commands.

**dashboard.** Five connections, three of which fit the queue, so that connections are
dropped and tried again; one visitor, who may send half a request, one word, bytes
that are no text, or the announcement of a body beyond memory; one change by another
command; a panic in any pull. Two reloads of two requests and an operation between
them are what an older list could overtake; 876 thousand states. `NeverBackwards`
speaks of the time in which every connection has found room to wait: one that is
dropped is overtaken while its client waits to try again, and then the page may show
an older list after a newer one. `AllServed` has two ends: all that wait are served,
or the server has panicked. Nothing else that visitors do, and no error, keeps it from
serving; that the panics are in reach of any visitor is a fact of the code (see
below). *Fairness:* the server is scheduled (`Serve` is disabled while it reads from a
client that sends nothing), and **nobody keeps a connection open for ever** without
sending: that is an assumption about clients, not about the code, and `AllServed`
shows that it is enough; the code has no timeout, and a client that never closes stops
the dashboard.

## What the code and its documentation disagree on

Each of these is a run that TLC finds violated.

* lifecycle_delete_race. `container.rs:193` says "must be stopped first". The
  check is at line 203 and the removal at 216; a start that runs in between leaves
  a running process without a record.
* windows_start. `container.rs:152` prints "Container '{}' started with PID {}".
  On Windows the job is created with kill on close (`platform/windows/job.rs:37`),
  and the start command holds its only handle, which `Drop` closes
  (`job.rs:110-116`): the process ends with the command that started it, and the
  record says running.
* download_chunked. `http.rs:2` says "Handles HTTP/1.1 GET requests, chunked
  transfer encoding". For https on Linux curl prints the header
  `Transfer-Encoding: chunked` and the body already decoded, and `http.rs:461`
  decodes it again: it finds no chunk size and drops the body or fails.

### Known divergences without a run

Seen while modelling, and simple enough to be read off the code.

*Containers.*
* `platform/mod.rs:104` says of stop_container "kill the process tree". The Linux
  backend signals the recorded pid alone (`platform/linux/mod.rs:151-166`); what
  it has forked survives in a container recorded as stopped.
* `config.rs:105` says of the pid "0 if not running". Nothing clears it when the
  process ends by itself. Once the kernel has reused the number, `ps` reports the
  container as running, and a stop would signal another process.
* `platform/linux/mod.rs:140` says "Wait for child to be ready". The result of
  `read` is not looked at, and the end of file of a child that could not unshare
  and exited counts as its byte: start records a dead process as running.
* The project's README (227-229) says that the child loads the seccomp filter and
  drops capabilities before it executes the command. The results of both calls are
  discarded (`platform/linux/mod.rs:106`), and the command runs without the
  restrictions when they fail.
* README:225 says that the container has a PID namespace of its own; the command
  is executed by the process that called unshare, which stays in the host's.
  README:226 says that the child calls pivot_root; nothing calls it.
* On Windows a process that could not be assigned to its job is resumed all the
  same (`platform/windows/sandbox.rs:118`), and no stop can reach it: stop
  terminates the job.
* stack_up starts a service only if create succeeds, and create refuses a
container that exists: an up after an interrupted up starts nothing that was
created before, and prints that the stack is up (`UpStartsMissing` says what it does).
* A cgroup write that fails leaves a container without a limit, or outside its cgroup,
  with a warning (`platform/linux/cgroup.rs` 124, 137); so does a cpu rate that cannot
  be set on Windows (`platform/windows/job.rs:83`).

*Images.*
* A pull killed between the creation of a layer file and its content makes every
  later pull treat the empty file as the layer (`registry.rs:319`, `342`), extract
  nothing from it and report success. So does a layer body cut before its second
  byte.
* The opaque marker `.wh..wh..opq` is taken for the whiteout of a file `.opq`
  (`registry.rs:414`): the lower layers' files stay.
* An image directory is named by name and tag (`registry.rs:514`); registry and
  namespace do not count, and rootfs is never emptied. After a tag has moved, the
  old files stay under the new ones.
* gzip: `offsets[bits]` is kept modulo 2^32 (`gzip.rs:174`) and added to with a plain `+`
  (181, 199), which panics on ordinary files in a build with overflow checks. The
  documented build has none.
* gzip: a checksum or a size that does not match is only warned of
  (`gzip.rs:487`), and of a file with several members only the first is read.
* `decode_chunked` panics when the data ends right behind the bytes of a chunk:
  `pos` is then beyond the end (`http.rs:513`).
* "Cross-origin" (`http.rs:546`) compares hosts; port and scheme do not count, so
  that a redirect from https to http on the same host carries the token.

*Virtual machine and dashboard.*
* A kernel that reaches 16 MiB is overwritten by the initramfs (`vmm.rs:333`):
  only the end of memory is checked.
* run returns 0 also when the guest has stopped on a triple fault or on an access
  to memory that is not there.
* `vmm.rs:479` says "MSR: just return 0 for reads"; the handler moves past the
  instruction and leaves the guest's registers as they are.
* The dashboard reserves as many bytes as the Content-Length says (`dashboard.rs:95`),
  whatever it is; a number beyond memory panics or aborts its only thread. So does a
  pull of a manifest with a short digest (`registry.rs:315`) or of a body that ends
  behind the bytes of a chunk (`http.rs:513`).
* A request that is closed in the middle of its headers is carried out, the end of
  the file being taken for the empty line.
* A list request that fails is shown as an empty list (`dashboard.rs:808`).

## Theorems

| module | theorem | states |
|---|---|---|
| `ContainerLifecycle_proofs` | `TypeCorrect` | `Spec => []TypeOK` |
| | `StopIsPrecise` | `Spec => []SignalsOwnProcess`, if `~PidReuse` |
| | `RecordCorrect` | `Spec => []RecordUsable` |
| | `ConfinedCorrect` | `Spec => []Confined` |
| | `PsCorrect` | `Spec => []PsTruthful`, if `~PidReuse` |
| | `Refinement` | `Spec => RefinesLifecycle` |
| `Spawn_proofs` | `Isolation`, `HandshakeTypes`, `FilterDecides` | `Composed => []IsolatedFirst`, `[]TypeOK`, `[]FilterRight` |
| `TopoSort_proofs` | `OrderCorrect`, `VerdictCorrect`, `SortTypes` | `Spec => []DependenciesFirst`, `[]VerdictRight`, `[]TypeOK` |
| `Stack_proofs` | `DownCorrect`, `UpCorrect`, `DependenciesCorrect`, `StackTypes` | `Spec => []DownRemovesAll`, `[]UpStartsMissing`, `[]DependenciesRun`, `[]TypeOK` |
| `ImagePull_proofs` | `OverlapsAreHarmless`, `PullTypes` | `Spec => []OverlapHarmless`, `[]TypeOK` |
| `Download_proofs` | `TokenNeverLeaves`, `HandlesAlwaysClosed`, `PlainArrivesWhole`, `PlatformRight`, `LayersWhole`, `DownloadTypes` | `Spec => []TokenStaysHome`, `[]HandlesClosed`, `[]PlainWhole`, `[]RightPlatform`, `[]LayerWhole`, `[]TypeOK` |
| | `DecodesCode` | `decode` reads the code of a symbol back as that symbol, and a cut one as none, for every prefix code |
| | `CompressedHolds` | what `compress_simple` writes is in the format and means what it was given |
| `Windows_proofs` | `ReleasesRight`, `ImageRight`, `OutputRight`, `AlwaysLimited`, `NoneOutlives`, `WindowsTypes` | `Windows => []ReleasesExactly`, `[]BootImageIntact`, `[]OutputWhole`, `[]RunsLimited`, `[]NothingOutlives`, `[]WindowsTypeOK` |
| `Dashboard_proofs` | `NeverOlder`, `OnlyAsAsked`, `DashboardTypes` | `Spec => NeverBackwards`, `Spec => ActsAsAsked`, `Spec => []TypeOK` |

Each is about the specification that the run of the property checks; `Composed` and
`Windows` are those of `MCSpawnHandshake` and `MCWindows`, which put two modules
together.

*Assumptions.* Those that the modules name: `NoName` and `NoPid` are no names or pids;
flags are Booleans; services are a finite set without the unknown name and, for
`Stack`, not empty; the list of blocked calls is shorter than the offsets of a jump
can count (`BlockedAssumption`: the list of the code has fewer than 256 entries, and
`u8` counts to 256); sizes are natural numbers, and a command line has at most 24
pages (`CmdlineAssumption`: Windows passes at most 32767 UTF-16 units, of at most
three bytes each in the UTF-8 that is written); there is something to boot
(`SomeArguments`); the queue of the dashboard holds two connections at least, as a
reload makes two (`BoundsAssumption`; `TcpListener` asks for 128). Of what is outside
the program: every resource has a home of its own name; a layer that a server has is a
file of the gzip format with the content that its stream means, or is not compressed
and is its own content (`DownloadAssumption`: a layer in neither form is a fault of
the server, which the program may answer in any way); bodies are bytes, and what a
registry sends for a manifest or a token is one of the documents, none of which is the
beginning of another, as a JSON object that is cut is none (`HttpAssumption`,
`RegistryAssumption`, which also has what the code builds its URLs from: the resources
of a registry are at one host); a digest in a list stands for a manifest of the
platform that the list gives it, since the program trusts it too
(`PlatformAssumption`); and no layer hides a file that it has itself put there, a
whiteout being for the layers below (`WhiteoutAssumption`). `StopIsPrecise` and
`PsCorrect` assume in addition that pids are not reused, which a kernel guarantees for
a while only; with reuse both fail, as said above of `config.rs:105`.

*Arguments.* `StopIsPrecise`: `SignalsOwnProcess` speaks of clients in stop and
is not inductive, since the pid comes from a file. The invariant `PidInv` follows
the pid on its way: in every record of a running container and in every client's
copy it is the pid of a process that start spawned for that name, and the number
fork returned to a client in the middle of a start is too. It survives garbled
files and aborted commands because a write puts either a client's whole copy or
nothing readable there, and processes only ever change from alive to dead
without reuse.

`RecordCorrect`: `RecordUsable` speaks of quiet containers; the invariant
`RecordInv` says what an undisturbed container's directory looks like at every
step of the one command that works on it (`Doing`: for each operation, what is
there before `mkdir`, between `truncate` and `write`, and after), and that there
is only one. A second command, or one that breaks off, disturbs the container, and
a step on one name changes nothing of another (`Within`, `Elsewhere`).
`Refinement` rests on it: given `Doing`, only `Truncate` and `Unlink` change what
`Promised` says, by a step the abstract machine has, and every other step is a
stutter.

`ConfinedCorrect` and `PsCorrect`: the invariant `HouseInv` says, in the same
manner, which process of start may live at each step of a command (`Due`: the one
recorded in the command's copy in start after the fork and in stop up to the kill,
the one in the file in exec, none otherwise), and that it is in a limited cgroup
except between fork and attach of a start, where the cgroup is already limited
and the process is the one that attach moves -- or that this start has warned, which stays
true until the next one begins. That the steps which remove the cgroup, or move its
members away, belong to create, stop and delete, when no process is due, is why
`Confined` holds. `PsCorrect` takes from `PidInv` that the recorded pid is an init
process of the container.

`Isolation`: the invariant `WaitInv` says that as long as the child lives and has
not yet unshared it holds the write end and the pipe is empty, so that the
parent's `read` blocks.

`FilterDecides`: `FilterInv` says what has been tested at each place of the
program: at test `i`, that the call is none of the first `i` on the list. The jump of
a test that succeeds ends at the refusal because its offset does not wrap.

`OrderCorrect` and `VerdictCorrect`: the invariant `SortInv` says what the marks
mean. The path has the temporary services, each once and each a dependency of
the one before; the order has the permanent ones, each once; a service's
dependencies that its loop has passed are permanent, or the next on the path. A
temporary mark met again then closes a circle along the path. Conversely, when
all are sorted a circle would need a first member in the order, whose dependency
in the circle stands before it.

`DownCorrect`: the invariant `DownInv` says that the loop of stack_down has removed
everything behind its position, and that after a stop without failure the container is
in a state delete accepts. `UpCorrect`: behind the loop's position every container is
as the command found it, before it every one is as `UpOf` says (`UpRow`).
`DependenciesCorrect`: the containers form a row: those before the loop's position
run, those behind do not exist, and the one at the position is in the state the loop's
step calls for -- or all run, or none exists, which is how a command finds them that
begins in another order than the last one had. That a call changes one place of the
row needs that no service stands in the order twice, which follows from the order's
length and coverage by counting.

`TokenNeverLeaves`: that a call has the token only if the pull has got one and the
call is to the registry (`Bearer`) is kept by every step of the pull; a request is
sent by `Hop`, which compares the host with that of the call, or by curl, which
compares with that of its own first request. `HandlesAlwaysClosed`: `HandlesInv` says
which handles are open at each step, and `ListsRight` that each of the lists in
`Closes` is the one of its return.

`ReleasesRight`: `ReleaseInv` says what is held before each call (`HeldAt`) and that
while releasing, what is held is what is left to release. `ImageRight`: `ImageInv`
says that each piece written is the one of its step, written once and inside
memory; the rest is arithmetic over the layout.

`AlwaysLimited` and `NoneOutlives`: `JobInv` says of every command that what is left
of its calls is in order (`Ordered`), that it has a handle once it is past the first,
that the limits are full, but for a rate that was warned of, once it is past `limit`
and `rate` — another command that closes cannot take them, because the handle keeps
the object — and that a process about to be resumed has been assigned or failed to be.

`OutputRight`: `OutputInv` says what is shown at every step of the exit loop, not
only where `OutputWhole` speaks of it, and that the loop never passes the last exit
of the guest. `WindowsTypes` needs to know which commands save a record
(`RecordInv`), which their remaining calls alone do not say.

`OverlapsAreHarmless`: `OverlapHarmless` speaks of the end of all pulls. What
holds all the time (`CoverInv`) is said for each path and the topmost layer `t`
that has an entry for it: once some pull has come past that entry, or the image is
listed, the path is as it should be, or another pull has yet to come to that
entry, and will put it right. A pull comes past the entry without unpacking it
only when it finds the layer's file empty, and then the pull that has created the
file is behind it: `FileInv` says that a file that is not whole has one that fills
it. That this pull has not itself come past the path before follows from
`PlaceInv`: it is at a layer whose file was missing when it looked, and those of
the layers before are there.

`NeverOlder`: `NeverBackwards` rests on the order in which the server works through
the queue. `DashInv` says that no answer is newer than the world (`Answers`) and, as
long as every connection has found room, that the queue is in the order of connection
and behind all that is answered (`Line`), and of two reloads under way that the later
one's lists are not older, and none of them older than what is shown (`Order`); the
last part is kept by an answer only because of the first two. `OnlyAsAsked` is
`Heard`: at each phase, what the server has yet to read is the rest of a request, or
the sender has gone.

`PlainArrivesWhole`: the invariant `BodyInv` follows a body on its way. What a
connection carries is cut anywhere (`Cuts`); after `k` rounds of `decode_chunked`
the position is where chunk `k + 1` begins and what has been decoded is the first `k`
parts (`HasRead`), or a prefix of the body when the data has ended. That the
decoder finds the end of each size line, and not a line end within the data, is in
`FindsLine`, and that every cut inside a chunk is noticed in `PlainChunk`. `CallInv`
and `ReplyInv` say which step of which connection that is.

`PlatformRight`: `AskInv` says that a manifest is asked for either as itself or by
the digest of an entry that suits, which `resolve_manifest_list` has taken from the
document it got whole (`SaysWhole`); a document that is cut is none.

`DownloadTypes` is about the decoder above all: `InflateInv` says that it never
reads behind the data, for any bytes (`BitsInv`), and that the tables it decodes with
are ones that `from_lengths` makes (`Tree`): for every length of a code, the
offset plus the least code is the number of shorter codes, so that a place in the
list of symbols is never negative, whatever code lengths a file gives. That is
why what `decode` returns is a symbol, and why a copy is of bytes that are there.

`LayersWhole`: `LayerWhole` speaks of the end of an extraction, and what leads there
is said in two invariants. `LinkInv` connects the pull with the bytes: the file that
is extracted is a layer some server has, from its first byte to where the download was
cut (`Begins`), and `decompress` reads that file. `ReadInv` says where `decompress` is
in the stream of the *whole* layer: in one of its blocks (`InStream`), at a place of
it (`InBlock`: before it, in its stored bytes, behind `k` code lengths, behind `k`
literals and copies) where a part ends, with the table that block has and the output
that the stream means up to there. Each step then either finds what stands there,
because a cut file has the same bits (`BitsStand`, `FieldReads`, `DecodesCode`), or
runs out of bits and is refused; that a copy in one piece, as the code makes it, is
the copy byte by byte is `Remainders` and what follows it. The header is a chain of
its own: the position of the code is the one the format gives, or is already behind
the data (`Reached`).

`DecodesCode`: of the codes of `n` bits, the ones before that of `s` are the rank of
`s` among the symbols of its length, and `FromLengths` lists the symbols by length and
rank, so that the place `decode` computes is that of `s`. No shorter beginning is
taken for a code, since by Kraft's inequality (`Taken`) the codes of `b` bits are
below what any longer code begins with. `CompressedHolds` follows the loop of
`compress_simple` block by block: `OwnEnd` is where each ends in the file, in bytes,
and `BlockEnds` is eight times that.

*Induction.* The theorems of the library that take the induction's statement as a
parameter cannot be used here. `Download_proofs` goes by way of sets: the least
element of a set of numbers (`Least`, from `WFMin`) gives an induction over sets
(`Induction`), with which a recursive function is shown to exist and to take its
values in a set (`Recursion`, `Values`); the chunks of a body, the tables of
`from_lengths`, the fields of the bit reader, and the recursive functions of
`GzipFormat` (`OffsetsUnfold` and those after it) are instances.

*Only model-checked.* The liveness properties (`StopEndsProcess`, `Terminates`,
`ParentReturns`, `Returns`, `AllServed`, `DownloadEnds`), which TLAPS cannot prove
here. Every safety invariant and every action property that a passing run checks is a
theorem. What no proof says is that the files in `MCDownload` are in the format: for
those of other programs TLC evaluates it, for `compress_simple` it is
`CompressedHolds`.

The proofs of `Download_proofs` take about a quarter of an hour from nothing, those of
the other modules a few minutes.

## Not modelled

* `image.rs` (local images): sequential import and export, one file after another;
  what could go wrong is in the bytes of a tar header.
* `overlay.rs`, `platform/linux/network.rs`, `setup_rootfs` and `pivot_root` in
  `platform/linux/filesystem.rs`, `virtio.rs`, `download_to_file`,
  `enter_namespaces`: nothing in the program calls them.
* `syscall.rs`, `winapi.rs`, `whp.rs`, `error.rs`: declarations.
* The text of configurations and `parse_memory`, stack files, JSON, command lines,
  tar headers, and the page: parsers without state, which unit tests reach better
  than a model checker. The overflow in `parse_memory` (`config.rs:341`) is one
  multiplication.
* Links, directories, permissions and opaque markers in layers; tags that move.
* `run` as a whole, which is a pull, a create and a start one after the other.

## What could come next

Links in `ImagePull`, since a link in a lower layer decides where a file of an upper
one is written; an abstract specification of a pull, with `Download` and `ImagePull` as
implementations of its halves; `Deflate`'s other files as a theorem of the format,
as those of `compress_simple` are; and the record and its reuse of pids under
`JobLifecycle`, whose commands read and save in one step.
