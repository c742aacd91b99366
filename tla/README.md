# A TLA+ model of L4Re-tmpFS

L4Re-tmpFS extends an L4Re system with a management domain, Dom0, that receives
binaries and Lua commands over the network, with a file server that makes one
tmpfs visible to every task of the machine, and with versions of Ned (the init
process) and of the l4re_kernel that start tasks from binaries in that tmpfs.
The modules here model how these parts interact. TLC checks them on small
instances, and TLAPS proves every safety invariant that TLC checks for every size
of the instance: about the file service, both channels of Dom0 and its start, Ned's
tasks, capabilities and program starts, and the l4re_kernel of a new task. It also
proves that the file service implements its abstract specification.

Paths below are relative to `src/dom0/`.

## 1. Inventory

| Component | State | Operations | What is hard about it | What makes it correct |
|---|---|---|---|---|
| fs_srv (`fs_srv/server/src/main.cc`) | tmpfs tree, libc descriptor table, one read/write buffer of 1 MiB | one method per opcode | the buffer is mapped by every client; descriptors are reused; clients die without closing | a request acts on what its client passed; a descriptor belongs to one file object |
| l4fs protocol (`libfs/lib/src`, `libfs/lib/server`, `libfs/include`) | none | one stub and one dispatch branch per opcode | return code and payload travel apart; sizes are checked in the stub only | what the server returns is what the caller sees |
| libc backend (`libfs/lib/libc_backend/l4fs.cc`) | mounted root, handles `_fh` of file objects | mount, get_entry, preadv, pwritev, close, ... | calls of several IPCs; partial results; destructor after close; lost objects | behaves like a local file system |
| Dom0 binary channel (`dom0-main/server/src/dom0_server.cc`, `remote_dom0_instance.cc`, `tcp_socket.cc`) | byte streams, `leftToReceive`, `received`, `written`, files | sendElfBinaryFromRom, binaryConnectionHandler, receiveNetworkBinary | short reads and writes, connection loss, `-errno` in a `size_t`, descriptors that are never closed | the file received is the file sent; sender and handler stay in step; nobody hangs |
| Dom0 Lua channel (`dom0_server.cc`, `lua_ipc_client.cc`, `remote_dom0_instance.cc`) | command buffers, answers | executeLuaString, luaConnectionHandler, LuaIpcClient::executeString | one thread per connection, all calling one Ned; commands longer than a message | each command runs at most once, in order, and its caller gets its answer |
| Ned's command server (`dom0-ned/server/src/lua.cc`) | command buffer, message registers, Lua state | Ned_server::dispatch; list of Lib initialisers | the answer lies in the UTCB while the command runs | see above |
| Dom0 start-up (`dom0-main/server/src/main.cc`, `dom0_server.cc`, `thread_args.h`) | ports, listener arguments, sockets | main, clientDemo, dom0Server, serverCombined, connect, disconnect | arguments on the stack of a function that returns; result codes combined with `&` | every listener listens on its own port for its own kind |
| Ned task management (`dom0-ned/server/src/app_task.cc`, `lua_exec.cc`) | App_task state and reference count, capabilities | exec, wait, kill, exit status, signals, garbage collection | exit signal, kill, wait and garbage collection interleave on two threads | a task is freed once, and not while somebody uses it |
| Ned server thread (`server.cc`, `server.h`) | list of registered objects (nothing is ever added to it), start handshake | `Server::Server`, `run` | a handshake over a mutex | the constructor returns only after the thread has set up its registry |
| Ned capabilities, namespaces, factories (`lua_cap.cc`, `lua_ns.cc`, `lua_factory.cc`, `lua_env.cc`) | capability rights, reference counts | mode strings, casts, query, register, create | two passes over the initial capabilities; the garbage collector runs between them; clones share a slot | a task gets what was named, with no more rights |
| Ned loader (`app_model.cc`, `remote_mem.cc`, `main.cc`, `ned.lua`) | the stack and memory of the new task | stack construction, environment | sizes and alignment | what is pushed is what the task finds |
| l4re_kernel (`dom0-l4re_kernel/server/src`) | region map, page heap, loader state | start, insert_regions, region operations, page_alloc | two maps of one address space that are kept in step without a check; edges of the address space; fixed heap; two threads and one env | the local map knows what the remote one holds; the program starts with its own memory and nothing else is taken away |
| Ned info library (`lua_info.cc`) | none | reads the KIP | - | - |
| test clients (`fstest`, `fstest2`), `net-example` | none of their own | calls of the file system; an echo | - | - |

How they interact: a task uses fs_srv through its libc, which calls the backend,
which calls the stubs, which make synchronous IPC to the server's one thread;
data and second paths go through the shared buffer. A remote Dom0 connects twice
to a Dom0: binaries go to the file system, commands through `LuaIpcClient` to
Ned. A command typically starts, waits for or kills a task; a killed task is a
client of fs_srv that disappears.

Everything that is hard to test here is listed, line by line, under `hazards` in
`PROJECT.json`.

## 2. Modules

| Module | What it is |
|---|---|
| `FsTypes` | parameters, call records and the POSIX rules of tmpfs (external), shared by the next two |
| `L4fs` | backend, protocol and server |
| `FileService` | what the backend promises: private references, no descriptors, no buffer, each call at one instant |
| `L4fsRefinement` | the refinement mapping from `L4fs` to `FileService` |
| `L4fsProofs` | theorems about `L4fs`, and that it implements `FileService` |
| `BinaryChannel` | the transfer of binaries between two Dom0 instances |
| `BinaryChannelProofs` | theorems about `BinaryChannel` |
| `LuaChannel` | Lua commands from remote and local callers to Ned |
| `LuaChannelProofs` | theorems about `LuaChannel` |
| `TaskLifecycle` | the tasks Ned starts, and the objects its two threads share |
| `TaskLifecycleProofs` | theorems about `TaskLifecycle` |
| `KernelStart` | the l4re_kernel of a new task: region maps, heap, loader, server loop |
| `KernelStartProofs` | theorems about `KernelStart` |
| `DomStartup` | the start of Dom0, its listeners, and who owns which socket |
| `DomStartupProofs` | theorems about `DomStartup` |
| `NedConfig` | the start of Ned, its capability objects, and the start of a program |
| `NedConfigProofs` | theorems about `NedConfig` |
| `NatFacts` | the least-number principle, for the proofs about searches |
| `MCL4fs`, `MCBinaryChannel`, `MCLuaChannel`, `MCKernelStart`, `MCDomStartup`, `MCNedConfig` | small instances for TLC (`TaskLifecycle` needs none) |

Definitions whose comment begins with "Mutant of" are wrong versions of the
definition they name. No specification uses them; each shows that a property
notices a plausible mistake in the code.

### 2.1 L4fs

A client is a thread. Each IPC of a backend call is three steps, between which
other clients may move: *invoke* (checks, copy into the buffer, send),
*dispatch* (the whole `L4fs_svr::dispatch` branch and the method of `Server`),
*take reply* (copy out of the buffer, loop or return).

| State | Code |
|---|---|
| `dirent`, `kind`, `data` | the tmpfs mounted by `main` of fs_srv |
| `fdt` | the descriptor table of the server's libc |
| `rwBuf` | `rw_buf`, the dataspace every client maps |
| `root`, `file` | `_fh` of the root `L4fs_dir` and of the `L4fs_file` objects |
| `call`, `reply`, `phase` | arguments and loop variables of the call in progress, the IPC's answer, where the thread is |
| `res` | what the last call returned |

| Actions | Code |
|---|---|
| `Mount`, `SrvInit`, `MountReply`, `SrvOpen` | `L4fs_file_system::mount` with `Svr::Svr`: an Init call, then the open of the root |
| `GetEntry`, `SrvOpen`, `GetEntryReply` | `L4fs_dir::get_entry` |
| `PathCall`, `SrvMkdir`, `SrvRmdir`, `SrvUnlink`, `PlainReply` | `mkdir`, `rmdir`, `unlink` |
| `TwoPathCall`, `SrvRename`, `SrvUnimplemented` | `rename`, `link`, `symlink`: the second path goes through the buffer |
| `HandleCall`, `SrvFstat64`, `SrvDataspace`, `SrvUnimplemented` | `size`/`fstat64`, `data_space`, `readlink`, `fsync`, `ftruncate64` |
| `Close`, `SrvClose`, `CloseReply` | `close` and the destructor ("drop") |
| `Vectored`, `Transfer`, `SrvPread`, `SrvPwrite`, `TransferReply` | the loops of `preadv` and `pwritev` |
| `Kill` | Ned kills the client's task; it is started again, and the server is not told |

Decisions:

- Paths are a flat set of names; a path in the buffer is one cell. Names longer
  than `Max_path_size` are a subset. What `strcpy` finds in a buffer without a
  path is some fixed name (`Garbage`).
- A `memcpy` to or from the buffer is one step. The disagreement that
  `L4fsShared` shows needs no finer grain.
- `pwritev` copies a buffer before the stub checks its size. A buffer that is too
  large therefore overwrites all of the shared buffer and what lies behind it:
  the thread faults, or gets `-ENOMEM`.
- A directory opened with `get_entry` becomes an `L4fs_file`: the server echoes
  the mode it was given, so `S_ISDIR(mode)` does not depend on what was opened.
  The root is an `L4fs_dir`, but no caller gets it as an open file;
  `L4fs_dir::lseek64` and `getdents` cannot be reached.
- `Server::dataspace` returns 0 whatever happens on the way. The memory of the
  server and of the client (leaked dataspaces, and `Svr` objects whose count
  never frees them) is not counted.
- `mount` can lack memory at three places: for the `Svr` or its capabilities
  (`-EINVAL` or `-ENOMEM`), for the mapping of the buffer (`-ENOMEM`), and for the
  `L4fs_dir`. In the last case the code tests the pointer to the result instead of the
  object: `mount` returns 0, there is no root, and the descriptor that the server has
  opened is never closed. `FileService` allows a mount that reports success and gives no root.
- `open` of a missing node takes any free node: which one makes no difference.

### 2.2 FileService and the refinement

`FileService` has no handles, no buffer and no server. A file object *is* a
reference to a node; a call is invoked, takes effect at one instant and returns;
a vectored call takes effect once for each of its buffers. A failed call had no
effect, except for the buffers of a vectored call that were done before. The
mapping takes the effect of a call to be at its dispatch, so a client whose
reply is on the way is "done" (or past the buffer just transferred), and it
maps a handle to the node behind it. The specification holds for one client
making all calls, and for any number of clients as long as they pass nothing
through the buffer: the runs show it for one client and for two, `Refinement` in
`L4fsProofs` for every instance. With two clients that use the buffer it fails as
`L4fsShared` does.

### 2.3 BinaryChannel

| State | Code |
|---|---|
| `up`, `toServer`, `toClient` | the TCP connection; a unit is an `int32_t`, a path or a piece of content |
| `client`, `cur` | the thread in `sendElfBinaryFromRom` / `FromMemory` |
| `handler`, `path`, `file`, `size` | `binaryConnectionHandler` |
| `left`, `buf`, `received`, `written`, `pos` | `receiveNetworkBinary` and `receiveData` |
| `content`, `opened` | the files, and the descriptors in use, which no handler gives back |
| `sent`, `reported`, `served`, `clean` | history for the properties |

| Actions | Code |
|---|---|
| `Connect`, `Disconnect`, `Lose` | `serverCombined`'s accept loop, `TcpClientSocket::disconnect`, the network |
| `SendHeader`, `SendContent`, `NoGo` | `sendElfBinaryFromRom`, `loadFile`, `sendElfBinaryFromMemory` |
| `ReceiveName`, `ReceiveSize` | the head of the loop of `binaryConnectionHandler` |
| `Receive`, `Write`, `EndChunk`, `Crash` | the loops of `receiveNetworkBinary` |

Decisions:

- `size_t` arithmetic is modulo `Word`. `-errno` in `received` is `Word - e`; the
  assumption `MaxChunk < Word - e - 1` says what holds of 2^32: it is
  larger than the receive buffer. In the runs `Word` is 8.
- Every `read` and `write` may be short. `sendData` is one step, since the
  receiver may split what it sends in any way.
- A lost connection keeps some prefix of what was on its way. A write to a
  connection that is gone may fail, or be accepted and lost.
- `write` of more than `rwBuffer` holds returns -1 (a bad address) or ends Dom0
  (`Crash`). The loop goes on in the first case, as the code does.
- `loadFile` of a missing file gives -1, which is sent as the size, and the
  content is then sent from a null pointer, which fails. The handler waits for 2^32 - 1
  bytes and takes the headers and contents of later uploads for them. `InStep` exempts
  just this: there the code does not do what the comment at `dom0_server.cc:20-21` says.
  `OnlyContentStored` says that the headers get into no other file than that of the
  missing binary.
- The length of a path is not compared with that of the handler's buffer. A path of
  `LongNames` overwrites what lies behind it on the stack, which goes unnoticed or ends
  Dom0 (`Crash`). What else a program with such a stack may do is not modelled, here or in
  `LuaChannel`.
- `open` may fail though there is a descriptor (a path the file system does not take).
- The file is opened without `O_TRUNC`: when a shorter binary follows a longer one
  to the same path, the end of the older one stays behind it. `StoredInOrder`
  therefore speaks of the part that was received.
- Memory (`rwBuffer` of the handler, the sender's copy) is not counted.

### 2.4 LuaChannel

| State | Code |
|---|---|
| `up`, `toServer`, `toClient` | the TCP connection of a remote caller |
| `waiting`, `issued`, `answers` | the callers |
| `thread`, `cmd`, `verdict` | `luaConnectionHandler`, or the local thread in `executeString` |
| `alive` | whether the local Dom0, with all these threads, runs |
| `ned`, `caller`, `nedBuffer`, `utcb` | `Ned_server::dispatch`: where it is, whom it serves, its buffer, message register 0 |
| `executed` | history: what Ned has run |

| Actions | Code |
|---|---|
| `ExecuteLuaString`, `TakeAnswer` | `RemoteDom0Instance::executeLuaString` |
| `ReceiveCommand`, `Overrun`, `SendAnswer` | `luaConnectionHandler` |
| `ExecuteString`, `ExecuteReturn` | `LuaIpcClient::executeString` |
| `NedReceive`, `NedExecute`, `NedReply` | `Ned_server::dispatch` up to the answer, the `lua_pcall`, the reply of the server loop |

Decisions:

- A command is its length, whether it parses, and whether it makes IPC calls. A
  string that does not fit into the message is missing from it (the IPC stream
  is external), so that Ned's buffer keeps the command before.
- `printf` saves and restores the message registers (that is how the vcon
  console writes from any context); an IPC made by a Lua command does not.
- Size and string of a command are one unit of the stream.
- `luaConnectionHandler` does not compare the size of a command with that of its buffer,
  `BufLen`. A longer command overwrites what lies behind the buffer: it goes unnoticed, and
  Ned is asked as for any other, or Dom0 ends (`Overrun`), with all its threads and
  connections. `EveryCallAnswered` then has an exemption for callers inside that Dom0;
  remote callers get an error, and the order of runs and the truth of `LUA_OK` hold in both
  cases.

### 2.5 TaskLifecycle

Ned's Lua thread runs `exec`, the methods of a task and the garbage collector.
Its server thread serves the exit signals and the calls of the observer object.
Both work on the `App_task` objects, which have a reference count and no lock.

| State | Code |
|---|---|
| `obj`, `refs`, `state`, `exitCode`, `observer` | an `App_task`: is it there, `_ref_cnt`, `_state`, `_exit_code`, `_observer` |
| `caps`, `frees` | `_task`, `_thread`, `_rm` and `obj_cap()`: are they valid, and how often they were freed |
| `proc`, `code` | the task that was started, and what it exits with |
| `handle` | the `App_ptr` in a Lua object |
| `lua`, `ltask`, `lcaps`, `result` | the Lua thread: where it is, its task, what its `terminate()` saw, what `wait` returned |
| `srv`, `stask`, `scaps` | the server thread |
| `early`, `overlap`, `took`, `kicked`, `leaked`, `misused` | history for the properties |

| Actions | Code |
|---|---|
| `ExecNew`, `ExecLaunch`, `ExecRunning`, `ExecPublish` | `exec`: the object is made, the loader runs or fails, `running()`, the Lua object |
| `Drop` | `__task_gc`, and `kill` of a zombie |
| `Look`, `LookReturn` | `state` and `exit_code`, which copy the `App_ptr` |
| `Kill`, `KillSeize`, `KillFree`, `KillReturn` | `kill` with `App_task::terminate` |
| `Wait`, `WaitReturn` | `wait` with the call of the observer |
| `Exit` | the task sends its exit signal |
| `Observe` | `Observer::dispatch` |
| `Signal`, `SignalCode`, `SignalSeize`, `SignalFree`, `SignalKick`, `SignalNotify` | `App_task::dispatch` |
| `Crash` | the use of a deleted object ends Ned |

Decisions:

- The capabilities of a task are one unit. `terminate` looks whether they are
  valid and then frees and invalidates them, in two steps, so that two
  `terminate`s of one task can meet. Freeing an invalid capability does nothing,
  and `unregister_obj` leaves an invalid one: the code relies on both, since the
  destructor comes after `terminate` (external).
- A change of a reference count is one instruction, and Ned's threads run on one
  CPU, so it is one step.
- Whoever uses a deleted object finds the old contents or crashes Ned; `misused`
  records it either way.
- A Lua error raised inside `exec` leaves it by `longjmp`, so that the
  reference of `app_task` stays (`leaked`).
- `kill` does not drop the capability's reference. The object of a killed task is
  therefore never deleted: its capabilities are freed, its memory is not.
- `state` and `exit_code` take a reference for as long as they run; what they return is
  not modelled. Each task is started once.

### 2.6 KernelStart

The l4re_kernel runs in every new task. Its main thread copies the task's region
map, which is kept by Moe (the remote map), into a map of its own (the local
map), starts the application thread, and becomes that thread's pager and region
mapper. The application thread first runs the loader, on a stack that both maps
must know, and then the program.

| State | Code |
|---|---|
| `main`, `app` | where `main` (with `Loader::start`) and the application thread are |
| `rrm`, `ram` | regions and areas of the remote map `env->rm()` (external) |
| `lrm`, `lam` | regions and areas of `Global::local_rm` |
| `addr` | the loop variable of `insert_regions` |
| `mapped` | heap pages that `mmap()` has taken from `Single_page_alloc_base` |
| `stackP`, `stackDs`, `temp` | `__loader_stack_p`, whether the stack has memory, where the binary is attached |
| `freeCap`, `capBase`, `held`, `appCap` | `env->first_free_cap()`, the slots of `Global::cap_alloc`, the one of the application thread |
| `envMain`, `raised` | `env->main_thread()`, the thread whose priority was raised |
| `req`, `reply` | the IPC of the application thread to its pager |
| `lost` | history: regions that `insert_regions` failed to attach |

| Actions | Code |
|---|---|
| `Tls`, `Aux`, `HeapInit`, `RmInit` | `__libc_alloc_initial_tls`, the checks of `main`, `Single_page_alloc_base::init`, `Region_map::init` |
| `InsertRegion`, `RegionsDone`, `InsertArea`, `AreasDone`, `LocalHeap` | `insert_regions` and `init_local_rm` |
| `LoaderAlloc`, `LoaderAttach`, `LoaderShare`, `LoaderPush`, `LoaderThread`, `RaisePrio` | `Loader::start`, and `main` after it |
| `LdrCall`, `LdrReturn`, `AddEnv`, `Mmap` | `loader_thread`: `launch_loader`'s calls, `add_env`, `unmap_stack_and_start`; `mmap()` |
| `ServeAttach`, `ServeDetach`, `ServeFault` | the dispatcher with `Region_ops` |
| `ProgCall`, `ProgReturn` | requests and faults of the program |

Decisions:

- An address is a page number, and arithmetic on it is modulo `Word`. The
  region map of `libl4re-util` is external: attach fails if the place is taken
  or above the limit, a search returns the lowest place that is free.
- `attach` answers a failure with `L4_INVALID_PTR`, and `insert_regions` looks for
  0: the region is `lost`, and the loop goes on.
- The search for areas starts where the one for regions ended. Areas below the
  last region are not copied; the model does the same, and `StackIsShared` says
  what that can cost: `main` writes to a loader stack that the remote map does not have,
  and faults or hits something else ("wild"). `StackLost` lists the ways to get there:
  no memory for the stack, a region that was lost, or an area that was passed over or
  refused. `StartSettles` exempts them by the same name.
- `main` ignores the result of `Loader::start`. It then serves a task without an
  application thread.
- Nodes of the local map lie in pages of the heap, `PerPage` to a page, and
  `mmap()` takes pages of the same heap.
- A page fault that `Region_ops::map` does not resolve is handed to the exception
  handler, which does not answer: the application thread is "stuck".
- The loader library and the program's ELF file are one segment at a fixed
  address and a stack. More segments repeat the same call.

### 2.7 DomStartup

| State | Code |
|---|---|
| `opts` | the command line after `atoi` and `inet_aton` |
| `main`, `frame` | where `main` is; whether `dom0Server`'s frame, which holds both `ListenerArgs`, is live |
| `fdt` | the descriptor table of the process, with the user of each |
| `listener`, `func`, `port`, `lsock`, `bound` | `serverCombined`: place, `targetFunc`, port, socket, result of `bind` |
| `calling`, `handler`, `hkind`, `box`, `hfd` | a remote caller, and its handler thread: function, `*new_sock`, `fd` |
| `client`, `todo`, `sock`, `verdict`, `script` | the client thread in `RemoteDom0Instance`; `targetSocket` of its two sockets |
| `late`, `robbed` | history: arguments read from a dead frame; whose descriptors were closed by somebody else |

| Actions | Code |
|---|---|
| `CheckOptions`, `NetUp`, `StartLua`, `StartBinary`, `Return` | `main` and `dom0Server` |
| `ReadType`, `Bind`, `Accept`, `AcceptFails` | `serverCombined` |
| `HandlerStart`, `HandlerEnd` | the descriptor's part of the two connection handlers |
| `ClientConnect`, `ConnectSocket`, `ConnectReturn`, `Disconnect`, `DisconnectBinary` | `RemoteDom0Instance` and `TcpClientSocket` |
| `Call` | a remote client calls (external) |

Decisions:

- Ports are numbers modulo `PortWord` (4 for 65536): `htons` drops the rest.
  `main` refuses 0 but not a multiple of 65536.
- After `dom0Server` has returned, a listener that has not read its arguments
  yet finds the old ones or something else (`JunkPorts`, either type). Before the
  first `connect`, `targetSocket` holds something (`JunkFds`). These are outcomes of
  undefined behaviour; the properties say what holds apart from them.
- `RemoteDom0Instance::connect` combines 1 and `-errno` with `&`, and so does
  `BitAnd`: with an odd errno a failure looks like success.
- `RemoteDom0Instance::disconnect` closes the binary socket twice and the Lua
  socket never. Between the two a listener or a handler may have got the descriptor.
  `robbed` notes each descriptor that was closed by somebody else, with the user who
  still has its number. The properties exempt just the one robbed. What follows is in
  the model: a handler that ends closes its number even if that is another's by then, a
  listener may go on accepting at the other's socket, and `connect` may say 1 for a
  socket that was taken away since.
- `socket` and `connect` of a client's socket are one step.
- When `accept` fails the loop starts a thread for descriptor -1, which ends at
  once; that it does so again and again for a dead socket is not a step.

### 2.8 NedConfig

| State | Code |
|---|---|
| `main`, `mutex`, `thread`, `registry` | `main`, `Server::Server` and `Server::run` |
| `libs`, `classes`, `envType` | the list of `Lib`s, the classes in the registry, `L4.Env` |
| `caps` | the table `caps` of the script |
| `obj`, `class`, `slot`, `refs`, `leaked` | `Cap` objects with rights and environment table; the slots behind them and the counts of their `Ref_cap`s; slots that `luaL_error` lost |
| `ns`, `kclass` | the name space and the kernel's objects (external) |
| `phase`, `pos`, `start`, `table`, `log`, `progLog`, `mapped` | `exec` and class `Am`: the pass, the key, the next index, the names given to the program, its log, its capabilities |
| `casts`, `first`, `differs`, `logged` | history for the properties |

| Actions | Code |
|---|---|
| `StaticInit`, `ServerStart`, `ServerRelock`, `InitLib`, `LoadNed` | `Lib::Lib`, `Server::Server`, `Lib::run_init`, loading `ned.lua` |
| `ThreadRegistry`, `ThreadUnlock` | `Server::run` |
| `Create`, `Mode`, `Cast`, `Index`, `Assign`, `CallQuery` | `__create`, `__set_rights`, `L4.cast`, `__get_dyn_type`, queries |
| `RegisterObject`, `RegisterString`, `RegisterQuery`, `ForeignRegister` | `register` of `ned.lua` with `__register`; another program |
| `Collect` | Lua's collector running `gc_cap` |
| `Exec`, `PushInitialCaps`, `MapBase`, `MapInitialCaps` | `exec`, `Am::parse_cfg`, `push_initial_caps`, `get_task_caps`, `map_initial_caps` |

Decisions:

- The order of the static constructors is the linker's, so it is any order.
- `lua_next` goes through a table in a fixed order as long as no key is added.
- A function in the table is called in both passes. Its answers may differ: the
  name space is another server's.
- `__register` and `__lookup` begin with a full collection. The object of the
  program's log has been popped by then and only its index is noted, so that a
  query in the table frees the slot before it is mapped. `LogIsOwn` holds for
  tables without queries.
- `luaL_error` is a `longjmp` and skips the destructor of a slot that was just
  allocated.
- What an environment table says about the class is shared by clones
  and set on demand.
- Where a disagreement is plain from a line, there is no run for it: `ned.lua`
  ignores `register(name, nil)` (line 113), for which `tutorial.lua` says that the name is deleted;
  `ned.lua:130` uses `self` where there is none; a second start with the same
  `App_env` table fails.

## 3. Runs

| Run | Instance | What it shows |
|---|---|---|
| `L4fsSingle` | one client, every call and open flag, 4 names (one too long), 3 nodes, 2 descriptors, a buffer of 2 and files of 3 cells, iovecs that are empty, of two buffers, and too large; kill and out-of-memory in `mount` and `get_entry` | `TypeOK`; `RequestsForwarded`; the client sees just `FileService` |
| `L4fsPair` | two clients, 3 descriptors, so that they are reused and run out; kill and out-of-memory | `HandleIsolation`, `StableHandles`, `ImplementsFileService`; every call returns (`CallsReturn`) |
| `L4fsShared` | two clients writing | **violated**: `RequestsForwarded` |
| `BinaryFaults` | one connection, binaries of 3, 1 and 0 units, a missing one and one with a path that is too long, 3 calls, chunks of 2, loss, failing writes, 2 descriptors | `InStep`, `StoredInOrder`, `OnlyContentStored`, `UploadsReturn`, `ReportedIsReceived` |
| `BinaryLoss` | one connection that may be lost | **violated**: `LossEndsHandler` |
| `LuaSafety` | a remote and a local caller, two commands each out of five kinds (one longer than the handler's buffer), loss | `ExecutedInOrder`, `AnsweredIsExecuted`, `NoFalseOk`, `EveryCallAnswered` |
| `LuaReception` | one remote caller, one command | **violated**: `ReceptionReported` |
| `TaskSafety` | two tasks, two exit codes, all operations | `CountIsHolders`, `Protected`, `CapsFreedOnce`, `WaitReportsExit`, `WaitReturns` |
| `TaskEarlyExit` | one task | **violated**: `KicksCapabilityReference` |
| `KernelStart` | 13 pages of which 12 are usable, 128 layouts of the remote map, a heap of 5 pages with 2 nodes each, 6 slots | `RegionsMirrored`, `StackIsShared`, `SlotsDistinct`, `RaisesOwnPrio`, `OnlyStackDetached`; the start settles (`StartSettles`), requests are answered (`RequestsServed`) |
| `DomStartup` | 8 command lines, 4 ports, 4 descriptors, two callers, odd and even errors | `ServedByKind`, `HandlersOwnSockets`, `ConnectVerdict`, `StraysStartInDisconnect`; both services get up (`ServicesUp`) and take every caller (`CallsAccepted`) |
| `NedConfig` | 4 libraries in any order, a table of 3 names (one too long), 3 slots, 4 objects, 4 operations of the script | `Handshake`, `RefsAreObjects`, `ClassIsRight`, `NamesAreMapped`, `LogIsOwn`; Ned gets ready (`GetsReady`) |

`TypeOK` of the other modules than `L4fs` is in no run. Those of `TaskLifecycle`,
`BinaryChannel`, `LuaChannel` and `DomStartup` are proved; what the proofs about
`KernelStart` and `NedConfig` need of the types is in their inductive invariants.

The four violations are what the code does, against what its comments say:

- `L4fsShared`: all clients share one buffer, and nothing keeps a second one from
  filling it between the first one's copy and the dispatch of its request.
- `BinaryLoss`: `receiveNetworkBinary` uses the `-errno` of a lost connection as
  a count and never ends, so that `NETCHECK_LOOP` is not reached.
- `LuaReception`: the answer `LUA_OK` is in the message registers while
  the command runs, and a command that makes IPC calls overwrites it. The
  caller is told `LUA_ERROR` for a command that was received and run. The
  opposite mistake, `LUA_OK` for one that was not received, cannot happen
  (`NoFalseOk`).
- `TaskEarlyExit`: a task that exits before `exec` gets to `running()` makes the
  server thread drop a reference that `running()` has not taken yet. It is
  the one of `exec`, so that the object is deleted while `exec` uses it. The
  properties of `TaskSafety` leave out tasks that exited early. `CapsFreedOnce`
  also leaves out a `kill` that meets the exit signal inside `terminate`, and
  `Protected` the look for an observer after the reference was dropped.

### Bounds, and why they are enough

- `L4fs`: an error in a loop shows at the first or second buffer of an iovec, an
  error at an end at a file of two cells; handles can be mixed up by two
  clients with one object and the root each. 3 descriptors are fewer than two
  clients and a killed one leave open. `HandleIsolation`, `StableHandles`,
  `TypeOK` and (for one client) `RequestsForwarded` are proved for all sizes.
- `BinaryChannel`: 3 units with chunks of 2 give a full and a partial chunk; 1
  unit is less than a chunk; 0 and -1 are the special sizes. Three calls let an
  upload follow a failed one and exhaust 2 descriptors. `MaxUploads`, `MaxOpen`
  and `MaxFile` are the only bounds; the last two are limits the system has too.
  `LongNames` has one member: what counts of a path is whether it fits.
- `LuaChannel`: the commands tell apart all that `dispatch` looks at, and lengths up to
  Ned's message, up to the handler's buffer (`BufLen`) and beyond it. Two calls
  each let the second meet what the first has left in Ned's buffer.
- `TaskLifecycle`: each thread works on one task at a time, so that two tasks
  give every combination of the same and of different ones. `TypeOK`,
  `CountIsHolders` and `Protected` are proved for all sets of tasks.
- `KernelStart`: the layouts put regions on page 0, at the hint of the loader stack,
  next to each other, and in the last page of all, and areas before and behind
  them, in all combinations. The heap and the slots are small enough to run
  out in some layouts. `HeapPages` and `MaxCaps` are limits of the code; the
  model's own bounds are `Sizes` and `Touched`.
- `DomStartup`: two descriptors go to listeners, so that two callers, or a caller and
  the client, use up and reuse the rest. A third would add no new meeting.
  The command lines cover both refusals, a port that is no port, one port for
  both services, a disabled channel, and a client that connects and disconnects in several
  orders, so that a stray close hits handlers, listeners and the client itself, and a
  second one follows the first. `JunkFds` and `JunkPorts` are bounds.
- `NedConfig`: four operations make an object, a clone or cast of it, register it and
  start a program, in every order; three slots run out. `MaxOps` and `MaxK` are
  the bounds.

### Fairness

- `L4fs`: weak fairness of `Dispatch(c)` and `TakeReply(c)` for each client. The
  server is one loop that only waits for requests, and senders queue at its
  IPC gate. Nothing is assumed about invocations.
- `BinaryChannel`: weak fairness of the client's and of the handler's steps:
  threads that can run do run. That units in `toServer` arrive is TCP.
- `LuaChannel`: weak fairness of the threads and of Ned, and strong fairness of
  `NedReceive(t)`: a waiting caller is in the queue of Ned's IPC gate, and
  a caller that calls again goes to the end of it. That a command ends is an
  assumption about the command (`wait` ends when the task does).
- `TaskLifecycle`: weak fairness of both threads inside an operation, and of the
  exit of each task: `wait` waits for as long as its task runs. That Lua calls
  `exec`, `wait` or `kill` is not assumed.
- `KernelStart`: weak fairness of the main thread's steps, of its server loop and of
  the application thread's steps; none of the program's requests. The main thread
  has the highest priority, and waits whenever the other has something to do.
- `DomStartup`: weak fairness of `main`, of each listener's setup, of accepting
  a caller that waits (connections queue) and of a handler that was started. None
  of the peers, of the end of connections or of the client's operations.
- `NedConfig`: weak fairness of `main` up to the script and of the server thread. None of
  the script or of other programs.

Deadlock is checked for `L4fs`. The channels stop when the calls of the bound are
made, Ned is idle when all tasks are gone or its operations are used up, a task may
exit or fault for good, and Dom0 exits when it refuses its options; so the runs of these
do not check it. That nobody waits for ever is stated by the liveness properties.

## 4. Proofs

`L4fsProofs` is about `L4fs` with arbitrary constants. The assumptions are those
`FsTypes` names: names are cells, descriptors are natural numbers, "no node" is
not a node, the buffer holds at least one cell.

- `TypeCorrect`: `Spec => []TypeOK`. `TypeOK` is not inductive: that a byte count
  stays a natural number depends on what replies to vectored calls carry. The
  inductive invariant is `TypeInv`, `TypeOK` with `CallShapes`: for every call in
  progress, its position is inside the iovec, the buffer it is at fits, the
  reply to it is no more than its length, an object that is being closed holds
  an open handle, an answered open carries a descriptor or -1. There is one
  lemma per action; `OthersKeepShape` reduces each to the client that moves.
- `HandlesIsolated`: `Spec => []HandleIsolation`, inductive relative to
  `TypeInv`. Most steps are *quiet*: they leave the descriptor table alone and
  give the moving client no handle it did not hold (`QuietKeeps`). Two are not:
  an open hands out a descriptor that is free, so that nobody holds it, and a
  close takes one away that, by the invariant, only the closing object holds.
- `HandlesStable`: `Spec => StableHandles`, from the same invariant: of the two
  steps that change the table, one changes a free entry, the other the entry of
  an object that no longer holds it.
- `ExclusiveForwarding`: with at most one client, `Spec => []RequestsForwarded`.
  The assumption is needed: see `L4fsShared`.
- `Refinement`: `Spec => ImplementsFileService`, if there is one client
  (`OneClient`) or nobody calls `preadv`, `pwritev` or `rename` (`Unbuffered`);
  `link` and `symlink` fill the buffer too, but the server reads it for neither. It is
  assumed because it is false otherwise: the cells of a read pending in the buffer
  change when another client writes there, and the server renames to what the buffer holds.
  The step simulation needs, besides `TypeInv` and `HandleIsolation`, that a
  call about an object is about one of the client's (`SlotCalls`) and, for one client,
  `RequestsForwarded`. It goes in three parts. A step of one client is a step of that
  client alone in `FileService` too (`AloneIsAbsAlone`): the other clients' handles stay, and
  with `FdtSteps` so do the nodes behind them. What a `Send`, `Return` or
  `Answer` does to phase, call and outcome is said once each (`AfterSend`,
  `AfterReturn`, `AfterAnswer`, `RoundIs`), and so is what happens to the
  references (`NoReplyRefs`, `ReplyRefs`, `OpenRefs`, `AnswerRefs`). Then
  there is one lemma for each action of `L4fs` with the action of `FileService` that it is:
  `SrvOpenIs` (a free node is one nobody refers to, `FreeIsUnreferenced`),
  `SrvCloseIs`, `SrvPreadIs` (what goes through the buffer comes out of it,
  `CopiedThrough`), `SrvPwriteIs`, `MountReplyIs` and so on. The Init call of a mount and the
  next IPC of a vectored call change nothing there.

`TaskLifecycleProofs` is about `TaskLifecycle` with any set of tasks. The
assumption, `TasksAssumption`, is that "no task" is not a task and "unset" is not
an exit code.

- `TypeCorrect`: `Spec => []TypeOK`, with reference counts in `Nat`.
- `CountCorrect`: `Spec => []CountIsHolders`.
- `ObjectsProtected`: `Spec => []Protected`.

All three follow from one inductive invariant, `IInv`. For each task it says: the
state, the history and where the threads are fit together (`Shape`); the count
is the references taken minus those dropped, an early exit's included
(`Balanced`); for a task that did not exit early, the object is
there as long as a reference is (`Kept`), and no thread that needs it has found
it deleted (`Safe`). `Balanced` has to cover early exits as well: without it a
count could not be shown to stay in `Nat`. Each action is a lemma about the one
task it moves; the others are untouched by it.

- `CapabilitiesFreed`: `Spec => []CapsFreedOnce`, and `WaitIsRight`:
  `Spec => []WaitReportsExit`.

These two need `JInv`, which adds to `IInv` for each task: the capabilities are in the
object or have been freed once, and what a `terminate()` has seen of them is still
so when it frees them (`Freed`); a task is a zombie from its exit signal on, it has its
exit code unless the handler is about to set it, and `wait` is only woken then
(`Waited`). `Freed` is where two `terminate()` at the same time have to be excluded:
each sees the capabilities before the other has freed them.

`BinaryChannelProofs` is about `BinaryChannel` with any connections, binaries of any
size, any receive buffer and any `Word`. Assumed: "no file" is not the content of a
file, there is a name (`NamesAssumption`), and what `WordAssumption` says of 2^32.

- `BinaryInvariant`: `Spec => []BInv`; `TypeCorrect` and `HandlerInStep`
  (`Spec => []InStep`) follow. `InStep` compares all that is on its way, unit by unit, with
  the upload the handler is at; only while that is a file that could not be loaded it
  says nothing of it.
- `FilesInOrder` and `HeadersKeptOut`: `Spec => []StoredInOrder` and
  `Spec => []OnlyContentStored`.

`BInv` says of each connection (`Kept`) what is on its way, unit by unit (`Stream`): the
rest of the content that the handler is to receive, then the header that the client
has sent after it, without what the handler has taken of it; on a lost connection a
prefix of that. `GoPending` is the moment in which the client has not yet seen the GO.
`Chunks` relates the counters to the content: `left`, `buf`, `received`, `written` and
`pos` are all at one place of it, or the connection is lost and `received` is an errno
that no later step takes for a length. A step of one connection leaves `Kept` of
the others (`Frame`). `StoredInOrder` has
an invariant of its own on top (`Stored`): a file that only one client sends to
agrees with what that client has sent, element by element, up to the handler's
position. `OnlyContentStored` is inductive together with `BInv`: what a handler has in its
buffer when it writes a binary that could be loaded is, by `Chunks`, a part of its
content, and what was sent stays sent (`MissingStays`).

`LuaChannelProofs` is about `LuaChannel` with any callers, commands and number of calls.

- `LuaInvariant`: `Spec => []LInv`, also when a long command ends Dom0; `TypeCorrect` and `OkIsTrue` (`Spec => []NoFalseOk`)
  follow.
- `RunsInOrder`: `Spec => []ExecutedInOrder`.
- `AnswersAreForRuns`: `Spec => []AnsweredIsExecuted`.

The last two speak of a matching, a function from Ned's runs for a caller to the positions
of that caller's commands that is increasing and takes each run to an equal command. `LInv`
says which command is on its way and where (`OneInFlight`): before, in or behind its
thread, but at one place, and not run before Ned has accepted it. Two equal commands in
a row are why the matching is needed: that a command has run cannot be seen from the
list of runs alone.

`KernelStartProofs` is about `KernelStart` with any address space, layouts, hints and
sizes (`LayoutAssumption`: addresses are natural numbers, sizes at least 1;
`RemoteAssumption`: the regions of the remote map are not empty and do not overlap, as
its server keeps them).

- `PrioIsOwn`: `Spec => []RaisesOwnPrio`. The inductive part, `TurnInv`, says that the
  application thread has no answer, and so is not past its first request, until
  main is in its loop.
- `StackDetached`: `Spec => OnlyStackDetached`. This needs the whole of `KInv`: no two
  regions of the local map overlap (`RegionsInv`; every attach looks first), a
  pending request is the one of the loader's place (`RequestInv`), and the loader
  stack and the binary are in the map until the loader detaches them (`StackInv`,
  `TempInv`). The detach of the binary cannot take the stack with it, because the
  two do not overlap; nor can the last detach take anything else.
- `SlotsOfTheirOwn`: `Spec => []SlotsDistinct`; `SlotInv` says where the first free slot
  is at each step of `main`.
- `MapIsMirrored`: `Spec => []RegionsMirrored`. `MirrorInv` says that every region that
  ends before the address the loop is at is in the local map or was lost; the step
  to the page behind a region keeps it because regions do not overlap.
- `StackInBothMaps`: `Spec => []StackIsShared`. `ShareInv` says that the place found
  in the local map is free in the remote one as far as the local map knows it. It uses
  that everything in the remote map has been looked at by then, so it is proved
  together with the others, as `MInv`.

`DomStartupProofs` is about `DomStartup` with any command lines, descriptors and peers
(`FdsAssumption`: descriptors are natural numbers).

- `SocketsOwned`: `Spec => []HandlersOwnSockets`. The inductive invariant, `SInv`, covers
  the descriptor in a handler's box as well as the one it has read, and the sockets of
  the listeners: each is its user's, or that user has been robbed of it (`Holds`).
- `StraysFromDisconnect`: `Spec => StraysStartInDisconnect`, from the same invariant, of
  every stray close and not only the first: a handler closes what it owns unless it was
  robbed, and nobody else but `disconnect` closes anything.
- `TypeCorrect`, `ServedAsCalled` (`Spec => []ServedByKind`) and `VerdictIsRight`
  (`Spec => []ConnectVerdict`), from `DInv`. `ServiceInv` says that a listener that read its
  arguments in time has the function and the port of its kind, and a peer it
  accepted has called that port; it ends when a listener's socket is taken away, which
  can never be undone (`RobbedForEver`). `ClientInv` says that a socket `connect` is done with
  is connected, was taken away since, or its verdict is an error: the other one's descriptor is another,
  since it was free when it was taken. That two errors are combined into 1 only if one
  of them is odd is a lemma about `&` of negative numbers.

`NedConfigProofs` is about `NedConfig` with any table, names, objects and slots. Assumed are
what `lua.h` says of the priorities (35-36: the capability types come before the environment) and that
`lua_next` gives each name of a table once (`TableAssumption`).

- `HandshakeHolds`: `Spec => []Handshake`. The invariant `StartInv` says where the two
  threads can be with respect to each other: the mutex is unlocked once, after the
  registry is set, and destroyed after that.
- `SlotsAreCounted`: `Spec => []RefsAreObjects`, from `HeapInv`. Its main part, `Sound`, is a
  predicate on the heap as a value: every slot has as many references as live objects that
  use it and a capability if there are any (`Counted`), clones share their slot
  (`Shared`), and a class that was found out is that of the kernel object (`Classed`).
  There is a lemma for each elementary change (`SweepSound`, `AddSound`, `CloneSound`,
  `CastSound`, `LeakSound`, `ClassSound`, `KernelSound`), and each action, which collects
  and then changes several things, is a chain of them.
- `ClassesStayRight`: `Spec => []ClassIsRight`, with `LibInv` besides: the list of
  libraries is sorted by priority, whatever the order of insertion, so that the environment is
  initialised when all classes are there.
- `LogStaysOwn`: `Spec => []LogIsOwn`. Without queries, nothing between `exec` and the
  mapping of the log collects or allocates (`LogInv`), so that its slot keeps it.
- `ProgramsCaps`: `Spec => []NamesAreMapped`. `TablesInv` says that the first pass gives the
  places 0, 1, ... in the order of the table (`Placed`), and that the second one, as long
  as no query has answered otherwise, is at the place its position counts to. An
  answer that differs shifts all that follow, hence the restriction.

All these invariants were model-checked before they were proved. `NatFacts` derives
from the library that a nonempty set of natural numbers has a least element, which the
searches (`FindFree`, `First`, the lowest descriptor, the first free slot or object) rest
on.

Only model-checked: liveness (`CallsReturn`, `UploadsReturn`,
`ReportedIsReceived`, `EveryCallAnswered`, `WaitReturns`, `StartSettles`,
`RequestsServed`, `ServicesUp`, `CallsAccepted`, `GetsReady`), which is out
of the prover's reach.

## 5. What is not modelled

- Of Ned's `exec`, the loading itself: attaching and copying segments and building the
  stack are calls of the L4Re loader library, which is not in this repository; what
  the task finds at which address is therefore not modelled.
- Of name spaces, `link`, nested tables and the `cast` of a query; of factories, the
  arguments of `create`, which are copied into the message and change nothing in Ned.
- `lua_info.cc`, which only reads; reading scripts, and the interactive console.
- The list of objects to reap in `server.h`: nothing in the repository adds to it.

The test programs and the network example
are clients and stand alone. The L4Re libraries (VFS, loader, IPC streams, lwip)
and tmpfs are not in this repository; where they matter they are modelled by how
the code uses them and marked external in `PROJECT.json`. Memory that is leaked is
not counted.

## 6. Plan

1. *(done)* The file service, its abstract specification, the refinement;
   `TypeOK`, isolation and stability of handles, forwarding for one client, proved.
2. *(done)* The binary channel and the Lua channel.
3. *(done)* `TaskLifecycle`: `App_task` states and reference counts on Ned's two
   threads; the reference count proved.
4. *(done)* `KernelStart`: `insert_regions` and the areas at the edges of the address
   space, the page heap, the loader and its requests; two theorems.
5. *(done)* `DomStartup`: `main`, the lifetime of `ListenerArgs`, `connect` and `disconnect`
   with reuse of socket descriptors; two theorems.
6. *(done)* `NedConfig`: the start handshake, capability objects and rights, the two
   passes over a task's initial capabilities; one theorem.
7. *(done)* Proofs of all the safety invariants that runs check.
8. *(done)* The step simulation of `ImplementsFileService`.
9. Nested name spaces and `link` in `NedConfig`.
