# Verification of the Radmin VPN driver emulator

The repository runs the Windows VPN service of Radmin under Wine without its
kernel driver.  A library injected into the service (`hooklib.dll`) answers the
service's system calls the way the driver, its registry keys and its network
adapter would, and a native process (`linux_tap`) carries the Ethernet frames to
and from a Linux TAP interface over UDP on 127.0.0.1.

This directory holds TLA+ models of that program, their TLC configurations and
machine-checked proofs.  Paths below are relative to the repository; module
names are files here.

## 1. Inventory

| Component | Source | State it keeps | Operations | Talks to |
|---|---|---|---|---|
| Emulated device `\\.\RVPNNETMP` | `inject.c` | `g_HandleList` of `HANDLE_CONTEXT`s (handle, MAC filter, pending reads), `g_NextHandleId`, `g_isAnyTAPDriverActive`, the `Internal` field of the caller's `OVERLAPPED`s, one UDP socket per read | hooks of `CreateFileW`, `CloseHandle`, `ReadFile`, `WriteFile`, `DeviceIoControl`, `GetOverlappedResult`; `InitDriver` | service threads (calls, events), bridge (datagrams) |
| Queue of pending reads | `inject.c:75-90, 353-370, 586-612, 660-680` | `pending_head`, `pending_tail`, `next` | append, search and unlink, re-append | the hooks above, under `g_HandleListLock` |
| UDP client of the bridge | `tap_client_udp.c` | address of the bridge | six control commands, each from a temporary socket | bridge |
| Linux TAP bridge | `linux_tap.c` | `clients[MAX_CLIENTS]`, the TAP interface's addresses and link | one poll loop: frame to every client, datagram to the TAP interface or to a control handler | library (UDP), kernel (TAP, ioctl, `ip`) |
| Emulated registry | `register.c` | key tree, handle table, handle cache, `register.reg` and its temporary | hooks of the `Reg*` functions, load at start, save after every change | service threads, disk |
| Network configuration | `emulate_driver_running.c` (netsh, `GetAdapters*`, WMI properties) | the `fake_` variables: addresses, mask, MAC, GUID; the command being parsed | netsh command lines turned into control commands; reports of the adapter | UDP client |
| COM objects | `emulate_driver_running.c` (WMI, NLM, `INetConnection`) | reference counts, the object an object holds, enumerator positions, `g_FakeRadminConnection`, the patched locator vtable | `CoCreateInstance`, `QueryInterface`/`AddRef`/`Release`, the methods that make objects, `Next`/`Reset` | service threads |
| Service control, security, waits | `emulate_driver_running.c` | none that changes | constant answers | service threads |
| Library start-up | `inject.c:740-770`, `hooklib.c`, `iat_helpers.c`, `emulate_driver_running.c` (`Install*`) | patched import tables, trampolines, `Real_` pointers | install hooks, `InitDriver`, `InitFakeMac` | everything above |
| Launcher and injector | `start_rvpn.c`, `inject_exe.c` | the processes started | start, find, wait, terminate; load the library into the suspended service | operating system |
| Configuration, log | `config.c`, `log.c`, `reg_read.c` | one file each | read a setting, write a line | disk |
| Variants not built, forwarding stubs | `inject2.c`, `proxy_real.c`, `register_proxy.c`, `register_limited.c`, `netshell_inject.c`, `adapter_info.c`, `*_proxy.c` | - | - | - |

What is hard in it:

* **Threads.** The service calls the hooks from several threads.
  `g_HandleListLock` protects the lists and not what the hooks do with a pointer
  found in them: `GetHandleContext` hands out a `HANDLE_CONTEXT` that
  `CloseHandle` may free, a read is out of its queue while it is worked on, and
  `Internal` and the MAC filter are written without the lock.
* **Datagrams.** Nothing sent between library and bridge is acknowledged.
  Registration, frames and control commands may be lost; the bridge may be down,
  or restart with no client and no address.
* **Bounds.** The bridge knows `MAX_CLIENTS` ports and forgets the first; every
  datagram from a new port counts, also from the temporary sockets of writes.
* **Partial failure.** An address is set with two ioctls; the registry file is
  rewritten and renamed; several errors end the bridge and others only a turn
  of its loop.  A hook is installed in up to four steps, and a launcher that
  gives up has already started something.
* **Reference counts** without locks: racing `Release`s, a lazily made global, a
  vtable that all objects of a class share.

What makes each component correct:

* device: a read outstanding is kept, once, in the queue of its own handle; its
  socket belongs to it alone; it completes only with a frame, and does complete
  once an acceptable frame is there; a hook works on the handle it was given;
* queue: pointers and queue agree after any sequence of calls on reused nodes;
* bridge: the table stays within bounds, without duplicates, and forgets only
  the clients that it must; address and mask belong together; datagrams do not starve;
* together: a pipe for frames: what goes in at one end comes out only at the other, a
  frame of the service once, a frame of the host at most once per outstanding read;
* registry: a path names one key, a saved value survives a restart, the file on disk
  is whole, a handle means the key it was opened for;
* network configuration: the bridge configures what the service is shown, and the
  service is always shown the same adapter;
* COM objects: a count is the number of references, nothing points to a freed
  object, one thread tears an object down;
* start: the service's code does not run while hooks are being installed, and a hook
  reaches the original function at every step; end: no process is left behind.

The hazards, line by line, are in `PROJECT.json`.

## 2. Modules

| Module | Models | EXTENDS / INSTANCE |
|---|---|---|
| `PendingQueue` | abstract: a queue searched by OVERLAPPED | |
| `PendingList` | the linked list of pending reads, one pointer step at a time | implements `PendingQueue` |
| `Loopback` | the UDP sockets of both sides (external code) | |
| `FakeDevice` | every hook of `inject.c`, interleaved | `Loopback` |
| `TapBridge` | the loop of `linux_tap.c` | `Loopback` |
| `EthernetPipe` | abstract: what the service and the host may expect of frames | |
| `Tunnel` | device + sockets + bridge | `FakeDevice`, `TapBridge`; implements `EthernetPipe` |
| `RegistryStore` | abstract: a store with a copy on disk and a restart | |
| `Registry` | the emulated registry of `register.c` | implements `RegistryStore` |
| `ComObjects` | the COM objects of `emulate_driver_running.c` and the threads that share them | |
| `Startup` | launcher, injector, and the loading of `hooklib.dll` | |
| `Adapter` | netsh commands, the made-up adapter, what the bridge is told of it | |
| `Session` | a session: the processes with the adapter | `Startup`, `Adapter` |
| `PendingList_proofs`, `FakeDevice_proofs`, `TapBridge_proofs`, `Tunnel_proofs`, `Registry_proofs`, `RegistryFile_proofs`, `ComObjects_proofs`, `Session_proofs` | theorems | the module each is named after; `Tunnel_proofs` also `FakeDevice_proofs`, `RegistryFile_proofs` also `Registry_proofs` |
| `MCFakeDevice`, `MCTapBridge`, `MCTunnel`, `MCRegistry`, `MCComObjects`, `MCSession` | values of the constants, symmetry | |

### PendingList

`head`, `tail`, `next`, `ov` are `ctx->pending_head`, `ctx->pending_tail`,
`req->next`, `req->ov`; `prev`, `req`, `target` the locals of the search.  A node
freed by `HeapFree` may be handed out again with stale contents.
`ReadFileEnqueue` is `inject.c:353-370`, `Reinsert` 664-676, `SearchBegin`,
`SearchNext`, `SearchFound` and `SearchFailed` the loop at 586-612.  All of it
runs under `g_HandleListLock`, so no other thread interferes between the steps of
a search, but the loop gets an invariant (`CursorInPlace`) of its own.  `q` and
`pos` are auxiliary.

### FakeDevice

One step of a thread is one critical section of `g_HandleListLock`, one socket
operation, or one write of shared memory outside the lock.  `pc[t]` names the
next step and `arg[t]` holds the locals of the hook, above all the **block** that
`GetHandleContext` returned.  Contexts are heap blocks (`ctx[b]`, `list` the ones
linked) because a block can be freed and handed out again under a hook; the
queue in a block is a sequence, which `PendingList` justifies.

| Code | Actions |
|---|---|
| `Hook_CreateFileW`, `AddFakeHandle` | `CreateFileW` |
| `Hook_CloseHandle`, `RemoveFakeHandle` | `CloseHandle`, `CloseRemove` |
| `Hook_ReadFile` | `ReadFile`, `ReadSocket`, `ReadEnqueue`, `ReadPending` |
| `Hook_GetOverlappedResult` | `GetOverlappedResult`, `ResultAlready`/`ResultPending`, `ResultUnlink`, `ResultRecv`/`ResultNoFrame`, `ResultDone`, `ResultClose`, `ResultReinsert` |
| `Hook_WriteFile` | `WriteFile` |
| `Hook_DeviceIoControl` (0x228014) | `DeviceIoControl`, `IoctlCopy`, `IoctlSet` |
| `send_control` | `TapClientControl` |
| `InitDriver`, exit and restart of the service | `InitDriver`, `ServiceRestart` |

A frame is a model value with a destination address `dst[f]`; lengths and
contents are abstracted.  The MAC copied by `memcpy` while another thread
compares it is the value `Torn`.  `issued` and `orphans` are auxiliary: what the
service believes outstanding, and the sockets that a close drops.

Two constants state what the service does, which the repository cannot know:
`QuietClose` (it closes a handle only when no call on it runs) and `SharedOv`
(a thread woken by a read's event may poll it while another thread's call with
the same OVERLAPPED has not returned).  The passing runs take the careful
service (`QuietClose = TRUE`, `SharedOv = FALSE`).  The other values show what
breaks without it: with `SharedOv`, `Internal` is set (`inject.c:372`) after the
event is armed (342) and the request queued, so that a thread woken in between
reports a completed read that received nothing (`NoFalseCompletion` fails); without
`QuietClose`, a handle closed under a running hook leaves it with a freed block,
then with the MAC filter of the handle the block is reused for
(`ContextIsTheHandles` fails).

### TapBridge

`clients` is `clients[0..nclients-1]`; `turn` what is left of one turn of the
loop: `Poll`, then `TapRead` if the TAP interface is readable, then one datagram.
`Register` is `linux_tap.c:300-317`, `Control` the command handlers with their
failing ioctls, `Dies` every `break` out of the loop.  A `read` failing with EIO or
ENETDOWN is `TapReadFails`: it skips the datagram of that turn.  `age` is
auxiliary and counts the clients registered after a port.

### Tunnel

`DeviceNext` and the bridge's steps over the shared sockets.  `sent`, `atHost` and
`atService` are auxiliary: what was put in, and how often each frame has come out at
the host's network and how often it has completed a read of the service.

`EthernetPipe` has the two ends apart.  A frame of the service can only come out at
the host, and once; a frame of the host is offered to some of the reads outstanding
at that moment, and a read takes one frame it was offered and is over.  The mapping
(`ToHost`, `ToService`, `Reads`, `Due`): on their way to the host are the frames in the
bridge's socket, on their way to the service those at the TAP interface; the
outstanding reads are those issued and not yet answered by a hook that has a frame
for them; what a read was offered is in its socket.  The pipe may lose every frame:
that a datagram is lost, that a waiting read is no longer known to the bridge
(`Eviction`) or that the bridge has ended on an error is no contradiction to it.

### Registry

`node` holds the `RegKey`s by heap block, so that a freed key keeps its stale
contents and its block can be handed out again; `table` is `g_fakeKeyTable` with
`g_fakeKeyPaths`, `cache` is `g_handleCache`, `file` and `tmp` the two files as
sequences of key records in the order they are written.  Names are model values:
comparing without case, splitting at backslashes and the 512-character buffers
are abstracted.  All predefined roots share one tree; only paths under
`HKEY_LOCAL_MACHINE` are redirected (`Redirect`).  `List(b)` is the sibling list from
a key on, as the least set closed under the pointer, so that it means something
also for a list bent by a stale handle; `Tree` follows the lists from the root for as
many levels as there are blocks.

| Code | Actions |
|---|---|
| `Register_InstallHooks` | `Restart`, then `LoadRoot`, `LoadKey`, `LoadReturn`, `DumpBegin`, `DumpOpen`, `DumpClose` |
| `RegOpenKeyW`, `RegOpenKeyExW`, `RegCreateKeyW`, `RegCreateKeyExW` | `OpenUnderRoot` or `OpenUnderHandle`, `Navigate` per component, `CreateKey`, `AllocHandle`, `CacheLookup`, `CacheAdd` |
| `RegGetValueW` with a subkey | the same, then `CloseKey` |
| `RegSetValueExW`, `RegDeleteValueW`, `RegDeleteKey*W`, `RegDeleteTreeW` | actions of these names |
| `SaveRegistryToFile`, `SaveKeyToFile` | `SaveBegin`, `WriteKey`, `WriteNext`, `SaveMove` |

Only the save holds a lock, so each helper is a step of its own.  An open that has
found its key takes three: `AllocHandle`, the search of `CacheLookup`, and the
addition of a path the search did not find (`CacheAdd`), which takes the place the
search saw room for, whatever came in between; with two threads it gives two handles
to one path and may go beyond the cache's limit, which is why `OneHandlePerPath` and
the limit in `TypeOK` are checked and proved for one thread. Inside `AllocHandle` the
table's own counter is not split, nor is the start, where no other thread runs yet
(`OpenAlone`).  Inside one key the model is coarser than the code: a list of values
changes in one step and a key's record is written in one.  `DumpRegistryTree` is part
of the start because the library patches its own import table too: its `RegOpenKeyExW`
is the hook, which gives every key of the service a handle and a place in the cache.
The hooks that only read are left out.  So are the key `RVPNNETMP`, whose constant
handle the hooks answer or ignore, and the branch of `RegQueryValueExW` that creates a
missing key, which no entry of the table reaches.

Two constants state what the repository cannot know: `DeleteCached` (the service
deletes keys it has opened before) and `Threads`.  The passing run takes a
careful service of one thread; `StaleHandle` and `TwoThreads` show what breaks
without it.  `Faults` chooses which failures occur.

### ComObjects

Every object is a heap block with its class, `refCount`, the object it holds (`child`:
`fakeObject` of an enumerator, `fakeConnection` of a collection) and
`alreadyReturned`.  A class is mortal (the last `Release` frees it) or immortal (its release is
`Safe_Release`, which reads the count and decrements it later if it was above 1), and
lists the methods that make objects, change a count or move an enumerator; all other
slots of the vtables answer constants and are left out.  A step of a thread is one
interlocked operation with the local work around it, one access to shared memory, or
one `HeapFree`; `work[t]` is the rest of its call.

| Code | Actions |
|---|---|
| `Hook_CoCreateInstance`, `PatchWbemLocator` | `CoCreateInstance`; `CreateLocator` then `PatchWbemLocator` |
| `ConnectServer`, `GetObject`, `CreateInstanceEnum`, `ExecQuery` | actions of these names |
| `GetOrCreateFakeRadminConnection` in `SM_get_EnumEveryConnection` | `EnumEveryConnection`, `Publish`, `Collect` |
| `Coll_get__NewEnum`, `Coll_Invoke`, `get_INetSharingConfiguration`, `GetNetworkConnections`, `GetNetwork` | actions of these names |
| `Next` and `Reset` of the three enumerators | `NextObject` then `NextReturned`; `Reset` |
| `QueryInterface`, `AddRef`, `Release` | `AddRef`; `ReleaseMortal`, `ReleaseChild`, `HeapFree`; `ReleaseImmortal`, `Drop` |

The service owes COM's rules: it calls through pointers it holds, gives each back
once and not while a call through it runs, uses an enumerator from one thread at a
time, and a new locator only when it has been returned.  `HeapAlloc` may fail
everywhere.  Two calls end the process: one through the empty slot of a locator
while another is created (`EmptySlotCall`: all locators share the vtable that
`emulate_driver_running.c:3029` empties and 3032 fills), and one with a connection
there was no memory for (`NullConnection`); the service is then started again
(`Restart`).  `kept` and `given` are
auxiliary.  An object whose enumerator could not be made is referred to by nothing
and stays for ever, as in the code; `CountIsReferences` is about mortal objects
and not about these immortal ones.  A connection that another thread's overwrites in
`g_FakeRadminConnection` is counted as referenced for ever (`kept`): that it is never
freed is in the model, and no property speaks of it.

The comment on `Safe_Release` (`emulate_driver_running.c:630`) says "refcount never <
1".  Of two threads that release an object with a count of 2, both can read 2 before
either decrements: the count is 0.  The model has these steps (`ReleaseImmortal`,
`Drop`), and no property says what the comment says.  Nothing frees these objects and
nothing acts on the count.

### Startup

`launcher` and `injector` say where the two `main` functions are, `up` which processes
run, `main` whether the service's main thread was resumed.  `load` and `at` are the
place in `run_injection`, `real`, `iat` and `entry` what has been hooked.  Six
functions stand for the six ways a function is hooked; `Plan` is the order of the
steps.  One of the six is `RegCloseKey`, for the twenty functions of the registry
whose import table entries are patched (`emulate_driver_running.c:5923-5942`) before
`Register_InstallHooks` fetches the originals (5948): in between the hook is called
with a null pointer, which it tests and answers without the original
(`register.c:1184`, `Late`).  A step may be without effect (no export, no import table
entry, no memory for the trampoline) for at most `HookFaults` functions.

| Code | Actions |
|---|---|
| `main` of `start_rvpn.c` | `LaunchGui`, `LaunchInjector`, `FindService`, `OpenService`, `Watch`, `Kill` |
| `main` of `inject_exe.c` | `CreateService`, `Inject`, `WaitForLoad`, `Resume`, `InjectorReturns` |
| `run_injection`, `Install*Hooks` | `InstallHook` per step of `Plan`, `InitDriver`, `Loaded` |
| processes that end or are killed | `ProcessExits`, `LauncherDies` |

The launcher is started anew only when no process of an earlier session is left.

When `LoadLibraryA` fails in the service, `inject.exe` prints so, resumes the main
thread all the same and reports "Injection done" (`inject_exe.c:91-99`): the service
runs without one hook (`load = "missing"`).  `AllHooksOrNone` therefore says that its
code runs with all hooks but those that could not be installed, or with none, and
never in between.

### Adapter and Session

`mem` holds the `fake_` variables, `cmd` the netsh command that
`Hook_CreateProcessW` is working on, with the datagrams still to send; `bridge` is
what `linux_tap` has configured: an address and a mask, which two ioctls set and of which
the second may fail alone (`linux_tap.c:92-105`), a set of IPv6 addresses, to which
`ip -6 addr replace` (133) adds without removing an earlier one, and the MAC.  A
datagram is handled, lost or fails, and is never answered.  `doubt` (auxiliary) names the
settings that the bridge may not have: a datagram was lost, a system call failed, a
command is being worked on or has no complete address, the link was taken down, or a
process is new.  `wmi` holds the GUIDs of the `Win32_NetworkAdapter` objects: an object
keeps the one it was made with, of the query or of the path it was asked for by, or
that of zeros.  `named` (auxiliary) are those the service gave itself, and `seen`
(auxiliary) is what it was shown of GUID and MAC.  Commands follow one
another, because the service waits for each.

`ParseAddress` stores an address where the parser finds it in the line, `StoreRest` the
mask at the end, `SendNext` sends one datagram.  `WbemClassGet`, `NetAdapterGet`,
`GetAdaptersInfo`, `GetAdaptersAddresses` and `ConnGetProperties` are what the five
places report; `ReportMac` are the functions that call `InitFakeMac` first, `ReportGuid`
those that do not, so that for these only the order
of the start-up keeps the GUID of zeros from the service.  `SettingID` has a flag of its
own and asks the real registry (`InitSettingID`).  That is why `Session`
composes the two: `Identify` is the end of the start-up and the beginning of the
adapter, the service asks only when its main thread runs, and its memory goes
with its process.

## 3. Runs

| Run | Asks | Instance |
|---|---|---|
| `PendingList` | does the pointer list implement the queue? | 3 nodes, 2 OVERLAPPEDs |
| `FakeDevice` | are reads and sockets kept, not lost, doubled or shared? | 2 threads, 2 handles, 2 blocks, 2 OVERLAPPEDs, 2 ports, 2 MACs, all faults |
| `DeviceServes` | does a read with an acceptable frame complete? | 2 threads, 1 handle, 2 MACs with a frame for each, 2 OVERLAPPEDs, 2 frames per socket, no restart |
| `TapBridge` | table, addresses and progress of the bridge | 3 ports, `MAX_CLIENTS` 2, all commands, all faults |
| `Tunnel` | is the whole a pipe for frames, between two ends? | 1 thread, 2 OVERLAPPEDs, 3 ports, 1 frame each way, exits and restarts of both sides |
| `Eviction` (violated) | does the bridge know every waiting read? | as `Tunnel`, no faults |
| `Registry` | does the registry keep its store, its handles and its file? | 1 thread, 3 keys besides the root, 2 names, 1 value, 2 handles, 1 of them cached; failing saves, crashes anywhere |
| `StaleHandle` (violated) | does a handle mean the key at its path? | `DeleteCached = TRUE`, 3 handles, 2 cached |
| `DiskFull` (violated) | does a restart bring back what was saved? | 2 keys, failing writes |
| `TwoThreads` (violated) | does a path name one key? | 2 threads, no faults |
| `ComObjects` | are objects counted, freed once, and never used after? | 2 threads, 4 blocks, 3 pointers of the service |
| `Session` | does the service run hooked, with one adapter that the bridge agrees with, and does a session end? | one function that cannot be hooked, masks of 4 bits, one IPv4 address besides the default, 2 IPv6 addresses, 2 GUIDs besides that of zeros, one DeviceID, 5 commands |

**Bounds.** Three nodes give a list with a first, a middle and a last element and
one that is free; two OVERLAPPEDs give a match and a mismatch, and one OVERLAPPED
on several nodes.  Two threads and two handles are enough for every pair of hooks
to interleave, on the same handle or on different ones; two blocks let a block be
reused for another handle while the first is open.  `MaxHandles` bounds the
handles created by one run of the process and is reached, after which a restart
starts afresh.  In `FakeDevice` two frames, one unicast and one broadcast, are told
apart by the filters of two MAC addresses; in `DeviceServes` each of two frames is for
one of the two, so that whatever the filter one of them is rejected, and may stand
before the other in a socket that holds both.  Three ports overflow a table of two clients.
`InLimit` and `RxLimit` bound the socket buffers: a full one loses datagrams, which
is what the operating system does.  In `Registry` three keys give a path of three
components, a list of two siblings and a deleted key whose block is reused; the
one relative path is redirected under one root and not under the other; a
second handle comes when the cache is full; and each restart starts with new
handles, of which the dump takes some.  `FakeDevice` runs with `InLimit = 0`: alone, it
sends into nothing.  In `ComObjects` the deepest chain of objects is an
enumerator with its object, or `g_FakeRadminConnection` with a collection and an
enumerator of it; four blocks hold that and an object lost by a race, or a block
reused; three pointers are a caller, a result and a copy.  In `Session` the five
commands are one with address, mask and link, one with only an address, two with
an IPv6 address each and one that takes the link down; of the masks of 4 bits the
default has 2 and the command's 3; two GUIDs let a second `InitFakeMac` show.  The state
constraint `Followed` bounds the product of the two parts: the service's commands and
requests, and what they leave at the bridge, are followed while the launcher watches,
all three processes run and every function is hooked.  States outside are still
generated and checked for the invariants (a process ends while the adapter is
configured), and what follows them is not; it is what the same processes do with a
fresh adapter, which is followed everywhere.  The theorems of section 4 have no such
bound.  Symmetry is used in runs of invariants and of the
refinement, never in a run of a liveness property.

`CHECK_DEADLOCK FALSE` is set in `DeviceServes` only: with one handle closed and
no restart the service really has nothing left to do.

**Fairness.** `DeviceServes`: weak fairness of every thread inside a hook (Windows
schedules runnable threads); strong fairness of receiving a frame, that is,
`recv` does not fail for ever on one socket that has data; strong fairness of the
service polling a read whose event is set, which is what the event is for
(`inject.c:342`).  `TapBridge`: weak fairness of `Poll`, strong fairness of reading
the TAP interface and of taking a datagram, since an error that does not end the
process (EIO, ENETDOWN, a failing `recvfrom`) is a passing one.  `Session`: weak fairness of
the launcher, a process whose waits end when the one it waits for does; none is
needed of the others, which the launcher terminates.  Nothing is assumed
about the service's calls otherwise, nor about the network.

**What the violated runs show.**

* `Eviction`: writes and control commands use temporary ports, which register
  as clients and push the socket of a waiting read out of the table.
* `StaleHandle`: a key deleted and created again is reached through the cached
  handle of the freed one.
* `DiskFull`: errors of `WriteFile` are ignored, and the truncated temporary
  file replaces the good one.
* `TwoThreads`: the search for a key and its creation are not under a lock, and
  two threads create it twice.

## 4. Proofs

`PendingList_proofs`, for any sets of nodes and OVERLAPPEDs, from `NilIsNoRead`:

* The inductive invariant `IInv` is the types, `NoRequestTwice`,
  `ListRepresentsQueue` and `CursorInPlace`.  `ListRepresentsQueue` alone is not
  inductive: unlinking needs that `prev` precedes `req` in the queue (the cursor)
  and that no node is in it twice, or else the assignment to `next[prev]`
  would change another element.
* `Invariance`, and from it `ListIsQueue`, `RequestsNotShared` and
  `SearchIsComplete` (ERROR_INVALID_PARAMETER means that no request matches).
* `Refinement`: every step of the pointer list is a step of `PendingQueue` or a
  stutter.  `FirstAt` of the abstract `Take` comes from the fourth conjunct of
  `CursorInPlace`.

`FakeDevice_proofs`, for any finite set of OVERLAPPEDs and any threads, handles,
blocks, ports, addresses and faults, from the assumptions of `Loopback` and
`FakeDevice`, for the careful service (`QuietClose`, `~SharedOv`: the other values
are the ones whose failures section 2 describes):

* `IInv` is the types; `Contexts` (no two linked contexts have one handle);
  `Locals` (what a thread in the middle of a hook relies on: its block is linked and
  its handle's, the read it works on is outstanding on that handle);
  `Apart` (two threads never work with one OVERLAPPED, nor on a handle being closed);
  `Places`, `Sockets` and `Internals`.  `OutstandingReadIsKept` counts the places of a
  read and is not inductive: an unlink moves a read from a queue to a hook, so the
  proof needs that no hook had it before, and that the queue it came from is that of
  the handle the hook was called with.  `Places` says this place by place.  `Sockets`
  says it of the requests, `Internals` of the field the hooks test without the lock.
* `TypeCorrect`, `PointersStayGood`, `CompletionsAreReal`, `ReadsAreKept`,
  `SocketsAreOwned`.  What the two hypotheses leave out is the very race of each:
  `CompletionsAreReal` says nothing of a poller that runs beside `ReadFile`
  (`inject.c:372`), and `PointersStayGood` nothing of a handle closed under a hook
  (163).  Sockets that `CloseHandle` drops are excused by `SocketsHaveOneOwner`.  The
  bound of the queues in `TypeOK` is a consequence of `Places`: a queue with two
  positions for one OVERLAPPED would have two places for its read.

`TapBridge_proofs`, for any `MAX_CLIENTS` > 0, any ports, frames, commands and
faults, from the three assumptions of `Loopback` and `TapBridge`:

* `IInv` is the types, `AddressHasItsMask` and `Ages`: the i-th client is the one
  that has seen `Len(clients) - i` clients register after it, and every port
  not in the table has seen at least `MAX_CLIENTS`.  `Ages` is what makes
  `ClientsDistinct` and `ClientUntilDisplaced` inductive: it fixes the order of
  the table.
* `BridgeInvariance`, `BridgeTypes`, `NoClientTwice`, `ClientsLast`,
  `MaskOfItsAddress`.

`Tunnel_proofs`, under the same two hypotheses, for any `MAX_CLIENTS` > 0 and any
frames, with `TunnelAssumption`:

* `TunnelIsAPipe`: `TunnelSpec` implements `EthernetPipe`.  A step of the device maps to
  the end of some reads, the beginning or the completion of one, lost frames or a
  stutter; one of the bridge to a frame carried to the host, one handed out to reads,
  lost frames or a stutter.
* `TunnelInv` is `IInv` of the device, `BridgeSound` (a turn serves only a descriptor that
  has something), `Counts` (types), `ServiceFrames` (a frame of the service is in the
  bridge's socket at most once, and was sent) and `HostFrames` (the same of the host's
  frames at the TAP interface).  Without the two "at most once" a frame that the bridge
  has taken could still be on its way, and would come out again.
* `Effect` says what any step of the device does to the reads: each hook step is
  proved to be one of `Fewer`, `Begins`, `Ends`, `Finishes`.  That a completed read
  was outstanding and had the frame in its own socket rests on `Sockets` and `Places`
  of `FakeDevice_proofs`: two reads never share a socket, and a thread in a hook works
  on a read that is outstanding.

`Registry_proofs`, for any finite set of blocks, any names, values and paths, any
handles and size of the cache and every failure, from `RegistryAssumption`, for a registry
that one thread uses (`OneThread`):

* `Typed` strengthens `TypeOK`: no list leads to a block that never was a key
  (`Heap`), which is what makes every path the dump joins a path of names; what
  a saving thread has written before its first key (`Local`), so that only the first
  record of a file is without a name (`Named`) and the loader finds a name in every
  other.  It says nothing of which keys a service deletes, and holds also of the trees
  that a stale handle bends.
* `Cached`: a path has one place in the cache, every handle the service holds for a
  path in the cache is the one there, and while the cache has room every path the
  service has a handle for is in it.  The last conjunct is why a path that comes into
  the cache late cannot have a second handle.
* `Opens`: between the search of the cache and the addition the path is still missing
  and there is still room, and the new handle is the path's.  This is what `OneThread` is
  needed for: the two steps hold no lock, and another thread's addition in between makes
  both false.
* `TypeCorrect`, `OneHandle`.

Its second part is about the tree, with every failure, for a service of one thread
that also deletes no key whose path is still in the cache
(`~DeleteCached`).  Both are needed: `TwoThreads` and `StaleHandle` are the violations
without them.

* `Shape(L, W)` says that the keys `L` that are reached from the root are a tree: `W`
  has one way down to each, two ways that end in one key are one, every list of
  siblings is straight (each key is followed by keys that are not before it), and
  none of them is free.  `LinesReach` shows that the recursive `Lines` finds exactly
  these ways, so that `Tree` is `L` with its paths: `NotTooLong` by counting, since a
  way down visits no key twice and cannot be longer than there are blocks.
* `AddTree`, `UnlinkTree` and `ValuesTree` are the three changes of the tree: a new
  key at the head of a list, a key cut from any place of one, a value.  `UnlinkTree`
  is the hard one: the list before the cut is a list of the new siblings
  (`UnlinkMiddle`), and what disappears is the key and what is below it.
* `Reached` is the inductive invariant: the tree is sound, what the service and the
  cache hold resolves (`Held`; the cache as well, since an open can be answered from
  it), what a call has walked to is the live key at the part of its path it has used
  (`Calling`), the keys being loaded are in the tree (`Loading`), and the walk of a
  dump is a way down with its paths (`Dumping`).  It is proved action by action.
* `HandlesFind`, `TreeIsLive` (the first conjunct of `TreeIsSound`).

`RegistryFile_proofs`, for any blocks, names, values, paths and handles, with crashes,
failing renames and temporary files that cannot be made, for the service above when
it does not open the root itself (`<<>> \notin Subs`, section 5) and the disk has room
(`"write" \notin Faults`: `DiskFull` is the violation without it).  `Careful` is the
conjunction of the four hypotheses; the run `Registry` satisfies it.

* A save, in two predicates.  `Visits(f, v, u)`: the records `f` are those of the keys `v`,
  no key twice, and record `j` is of a key below that of record `u[j]`; the keys
  between the two have all their subkeys before `j`.  `Walks(w, m, n, v, s)`: below each
  key of the walk the rest of a list of siblings is left to write, below all other
  written keys nothing.  `VisitsOne`, `WalksOne` and `WalksNext` are the three things
  `SaveKeyToFile` does; back at the root nothing is left (`AllFromRoot`), so that
  the file has every key (`SavedReads`).
* What the file then means, without the heap it came from: `Reads(f, p, u, C)`, record
  `j` is the key at path `p[j]`, its count is the number of records whose `u` is `j`,
  and the order is that of a walk of the tree.
* A start, in one predicate: `Loads(f, n, stack, p, u, K, s)`, the first `n` records are
  the tree, as the keys `K`, and the counts on the loader's stack are the numbers of
  records that are still to come below each.  `LoadsTop` is the heart: while the last
  count is not zero, the next record is below that key and no other, because of the
  order in `Reads`; so the file cannot end too early and the loader never reads
  beyond it.
* `Stored` is the invariant that joins them: paths name one key (`Distinct`), the file
  is what was saved last (`Filed`), a start is bringing it back (`Starts`), what is in
  memory is saved when nobody works (`Settled`), and each thread is where it should be
  in its save (`Works`).
* `TreeStaysSound`, `ChangesAreSaved`, `StartsRestore`.
* `RegistryIsAStore`: `Spec` implements `RegistryStore`.  `CreateKey` and `DeleteKeyW` map
  to the creation and the deletion of a path (`UnlinkBelow`: what is gone is exactly
  what is below the path), the value hooks to an assignment, the rename to the save,
  `Restart` to the restart, and each other step, those of a start among them, to a
  stutter.

`Session_proofs`, for any commands, addresses of any width, GUIDs and number of
failing hooks, from the assumptions of `Startup` and `Adapter`:

* Of the processes: `Loading` ties the injector's place to the library's (the main
  thread has been resumed only after `LoadLibraryA` came back, and an injector
  that is gone resumes nothing), `Hooking` says how far the hooks are and that a
  function whose address was fetched before has no jump yet, `Ending` that what the
  launcher has still to terminate is all that runs.  `AllHooksOrNone`,
  `HooksReachOriginals` and `NoneLeft` follow; none is inductive alone, since each
  speaks only of the end of a sequence.
* Of the adapter: `AdapterTypes`, `Parsing` (what a command in progress has changed
  and still has to send, and which settings it puts in doubt), `Known` (what the
  bridge has of settings not in doubt) and `Shown`.  `BridgeAgrees` needs that the
  mask of a prefix of a mask is that mask, which is proved for every width.
* `Invariance`, `SessionTypes`, `AllOrNothing`, `OriginalsReached`, `NothingLeft`,
  `SameIdentity`, `BridgeInStep`.

`ComObjects_proofs`, for any finite sets of threads, blocks and pointers, from
`ComAssumption`:

* `Balance` counts: what an object's count is above the service's pointers, the
  objects that hold it, the global and the decrements under way is zero for a
  mortal object and not negative for an immortal one.  `Live` says that every
  pointer leads to a block in use and that a held object holds nothing, which bounds
  a teardown to two levels.  `WorkSound` is what a thread in the middle of a call
  relies on, `Exclusive` that one thread tears a given object down and one is in
  `Next` of a given enumerator, `Gives` how often an object was handed out.
* The counting rests on three lemmas (`RefsMove`, `HoldersMove`, `LateMoves`): a step
  moves one pointer, one child or one thread, which changes a cardinality by one.
  The steps are then proved by what they do to the objects, a new one, a pair of
  new ones, a shared pointer, a release, a teardown, instead of one by one.
* `Invariance`, and from it `ObjectTypes`, `CountsAreReferences`, `NothingDangles`,
  `OneTearsDown`, `GivesOnce`; `LocatorsConnect` separately.

Induction is used where it is reachable: over sets of natural numbers
(`SetInduction`, from `NatLessThanWellFounded`), for the depth of the registry's
tree and for the shortest path that would survive a deletion, and along a list of
siblings by the least set it is (`ListInduction`).  That a save writes all keys is no
induction: it is an invariant of the walk.

Every safety property that a passing run checks, and each of the three refinements,
is also a theorem.  Only model-checked: liveness (`ReadyReadsComplete`,
`DatagramsAreServed`, `SessionEnds`), which is out of the prover's reach.

## 5. Not modelled

Frame lengths and contents, lengths of paths, values of the registry's root (no
known call opens it: values set on it would make the loader read them as keys,
`register.c:570`), IOCTLs that report constants, log output.  `TapClientSendFrame`
and `TapClientShutdown` are called by no code built in emulation mode.

Of the adapter: the display name, the gateway and DNS, which stay in the library's
memory and are never sent; the prefix length that `GetAdaptersAddresses` reports
(`emulate_driver_running.c:5299-5307`, in builds for Windows Vista and later): it is
counted from the high bit of `inet_addr`'s result, whose octets are in network order,
so that the default mask of 255.0.0.0 gives 0 and not 8, and `BridgeAgrees` does not
speak of it; the lengths of the buffers it fills (5246).  `rand` is never seeded, so
the MAC `InitFakeMac` makes is the same in every process and a single value in the
model.  `Hook_CreateProcessAsUserW` answers a netsh command without parsing it, which
changes nothing.  The text of the command lines is abstracted to what they hold.

Code of `emulate_driver_running.c` that nothing reaches: the earlier versions of the
objects and hooks (`75-142`, `161-193`, `812-1260`, `1433-1886`, `INetCfg` in
`3047-3308` and `3454-3537`, calls inside the service in `4042-4118` and `4807-5125`);
and the flag that `ExecMethod` writes and nobody reads.

The components with status `not_modelled` are the reading of a configuration
file and the log, which are straight-line code over one file, the sources that no
target builds, and the generated forwarding stubs.

## 6. Plan

1. **Frame format**: the length arithmetic of `inject.c:390-400, 620-650`, with
   integers of 32 bits.
2. **Proofs**: the safety half of what the liveness properties rest on, for instance
   that a read whose datagram has arrived is answered by the next
   `GetOverlappedResult` that asks for it.
