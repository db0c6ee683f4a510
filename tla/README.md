# Formal models of OCaml_Study

This directory holds TLA+ models of the programs in this repository, TLC
configurations that check them on small instances, and theorems about them
that TLAPS checks. The main program is **NanoOS** (`src/nano_os`), a small
unikernel: a flat file system on a block device, a reliable transport over
datagrams, a shell, the loop that connects them, and what they stand on: a block
device on a file, the thread pool of Lwt that makes its calls, a UDP socket, and a
network adapter for Mirage. **Mini Redis** (`src/mini_redis`) and the small programs
around it are modelled as well; the end of the inventory lists the rest.

The repository's own code is OCaml, about 3,400 lines of it. Nearly everything else
under `src` is vendored (`nano_os/mirage/duniverse`), most of it tables and C code of a
cryptography library that the program does not call. The one vendored file that is
modelled is `lwt_unix_stubs.c`, since the program's behaviour depends on its
interleavings.

## 1. Inventory

### NanoOS

| part | code | state | operations |
|---|---|---|---|
| file system | `lib/fs.ml` | superblock and data sectors on disk; `cache` in memory | `connect ~repair`, `is_formatted`, `format`, `create_file`, `write_file`, `read_file`, `delete_file`, `ls` |
| boot | `lib/app.ml` | none | `boot_with_devices`: mount, repair, format, run |
| request loop | `lib/unikernel.ml` | the handlers in flight | `run`: one `Lwt.async` handler per message |
| shell | `lib/shell.ml` | none | `eval`: ls, cat, write, touch, rm, help |
| transport | `lib/stack.ml` | `next_seq`, `pending_acks`, `seen_data` | `create`, `send`, `listen` |
| packet codec | `lib/packet.ml` | none | `encode_data`, `encode_ack`, `decode` |
| UDP network | `lib/unix/socket_net.ml` | a socket | `write`, `listen` |
| file-backed disk | `lib/unix/file_disk.ml` | one file descriptor and its offset | `connect`, `read`, `write` |
| thread pool | Lwt (vendored): `lwt_unix_stubs.c`, `lwt_unix.cppo.ml` | the state of each job, `pool_queue`, `thread_waiting_count`, the notification buffer | `start_job`, `check_job`, `worker_loop`, `send_notification`, `recv_notifications` |
| Mirage adapter | `mirage/unikernel.ml` | `host_mac` | `write`, `listen` of the network; wrappers for the other devices |
| RAM disk | `lib/ram_disk.ml` | a byte array | `read`, `write` |
| client | `bin/client.ml` | a transport | a prompt that sends one line after the other |

**How they interact.** A datagram reaches `Stack.listen`, which acknowledges it,
drops it if its `(src_port, seq)` was seen within the dedupe window, and calls
the callback of `Unikernel.run`. That starts a handler with `Lwt.async` and
returns at once. The handler evaluates the command with `Shell.eval`, which calls
the file system, which calls the block device; then it sends the answer
with `Stack.send`. The OCaml code has no threads: Lwt runs one piece of code until it
waits for a device, a timer or a packet, and then another. Every call of a device
is therefore a point where the handlers interleave, and everything read before
it may be stale after it. The device calls of the Unix build do run on other
threads: Lwt hands each of them to a pool of system threads, looks once whether it
is done, and is otherwise notified by the thread through a buffer and a descriptor.

**What is hard.**
- Handlers load the directory, wait, and write it back.
- `cat` uses an extent it looked up before it waits.
- The superblock spans several sectors, and a crash may cut its write.
- `connect ~repair` rewrites a superblock it had to correct, and can itself be cut.
- Sequence numbers wrap at 256 while receivers remember them for 30 seconds.
- The timer of an attempt races the acknowledgement, and every map entry of a
  finished send must be gone before its number is used again.
- Two calls of the file-backed disk share one file offset.
- The main thread and a worker of the pool each look at the other's variables once,
  some of them without a mutex, and a job is freed as soon as its result was read.
- Frames reach the adapter padded, with IP options, and in fragments.

**What makes each part correct.**
- *File system*: a caller sees a map from names to contents on which each request
  takes effect whole and at one instant; what was acknowledged is on disk;
  the directory has no overlapping extents and no extent outside the disk;
  data that the directory names is never overwritten; the cache is the directory.
- *Transport*: a message is delivered at most once, `send` returns Ok only when it
  was delivered, and it always returns.
- *Codec and network*: a packet arrives as it was sent or is rejected.
- *Disk*: a call reads and writes the sectors it names.
- *Thread pool*: a job runs once and its caller is answered after that; it is
  not freed before its last use; the pool keeps its size, and a queued job has a
  thread that will take it.
- *Mirage adapter*: a datagram for the kernel's port reaches the callback as it was
  sent; the host understands every frame the kernel sends.
- *Request loop*: a command runs at most once per life of the kernel, its response
  belongs to an execution of it, and what was taken is executed and answered
  unless the kernel restarts.

### Mini Redis

`lib/mini_redis.ml` is a RESP codec and a command layer over a hash table;
`bin/main.ml` serves each connection with a loop that keeps the bytes it could
not yet decode (`accum_buffer`). The state is the store, shared by all
connections, and one buffer per connection. What is hard: a read may end anywhere in a
request and may hold several, and connections interleave at each flush. It
is correct if the commands of a client are executed once, in order, in one step
each, and if every request is answered with its own result.

### Small programs

- `json_parser` (repeated in `json_parser_custom` and `simple_lwt`): a recursive-descent
  parser over tokens and a printer. Correct if it accepts the texts of its grammar
  with their values, rejects all others, and reads what it prints. One kind of text that
  is not JSON is accepted: `[1,]` is read as an array, because `parse_comma_separated_value` looks for
  the closing bracket before each value. `json_parser.mli:16` promises a failure there
  (run `json_comma`).
- `date_processor`: order and validity of dates. Correct if each year has the days of
  the Gregorian calendar, in the order of `is_before`.
- `modula/module_exercise.ml`: a queue of two lists. Correct if it is first-in first-out.

### The rest

`simple_lwt` has an echo and an HTTP server, `unikv` a store behind a log call, and
`modula`, `review` and the files at the top are exercises of the language. Section 5
says why they are not modelled.

## 2. Modules

| module | what it is |
|---|---|
| `NanoFS` | the file system with its boot and its handlers, one action per piece of code between two device calls |
| `FileStore` | what the file system promises: an atomic map, with crashes |
| `NanoFSStore` | the refinement mapping from `NanoFS` to `FileStore` |
| `NanoFSProofs` | theorems about `NanoFS` with any number of handlers, and in its second part with one that changes files |
| `NanoFSStoreProofs` | the theorem that `NanoFSStore` implements `FileStore` |
| `NanoStack` | the transport with its timers over a network that loses, duplicates and reorders |
| `Delivery` | what the transport promises: at most one delivery, and Ok only after it |
| `NanoStackProofs` | theorems about `NanoStack`, among them that it implements `Delivery` |
| `Kernel` | client, transport and request loop composed: it extends `NanoStack` with the prompt, the handlers and restarts |
| `RemoteShell` | what a user of the client is promised |
| `KernelProofs` | the theorem that `Kernel` implements `RemoteShell` |
| `ShellSession` | a user at the prompt, the transport, the handlers and the files composed: it extends `NanoStack` with the steps of `eval` |
| `Console` | what a user who waits for each answer is promised |
| `ShellSessionProofs` | the theorem that `ShellSession` implements `Console` |
| `FileDisk` | the file-backed disk: seek, then transfer, on a shared offset |
| `Packet` | the packet codec and the size limits of the UDP network, and a packet that is sent |
| `LwtPool` | the thread pool of Lwt: one action per piece of code between two points where another thread matters |
| `JobService` | what `run_job` promises: called once, then answered |
| `MirageNet` | the network adapter of the unikernel, on frames byte by byte, and a host that sends correct ones |
| `DeviceProofs` | theorems about `LwtPool`, among them the safety part of `JobService`, about `FileDisk`, `Packet` and `MirageNet` |
| `Resp`, `RespCodec`, `RespEncoder` | the values and the commands of Mini Redis; its decoder and a step of its encoder; the encoder |
| `MiniRedis` | its store and its connection loop, with the codec as a parameter |
| `KeyValue` | what Mini Redis promises: atomic commands, answered in order |
| `JsonParser` | the parser as functions of the tokens that are left, a step of the printer, and the grammar they follow |
| `JsonPrinter` | the printer, a recursive operator |
| `JsonProofs` | the theorems that the parser follows the grammar and reads what is printed |
| `Calendar` | the operations on dates, and a walk from day to day |
| `FunctionalQueue`, `Fifo` | the queue of two lists, and what it promises |
| `ProgramProofs` | the theorems that `FunctionalQueue` implements `Fifo` and `MiniRedis` implements `KeyValue`, and theorems about `Calendar` and `RespCodec` |
| `MC...` | the instances for TLC |

Seven pairs are refinements, stated with `INSTANCE ... WITH`: `NanoFSStore`
implements `FileStore`, `NanoStack` implements `Delivery`, `Kernel` implements
`RemoteShell`, `ShellSession` implements `Console`, `MiniRedis` implements `KeyValue`, `LwtPool` implements `JobService`,
`FunctionalQueue` implements `Fifo`.

### NanoFS and `fs.ml`

| action | code |
|---|---|
| `Connect`, `Repair`, `Check`, `Format` | `connect ~repair:true`, `is_formatted`, `format`, in the order of `boot_with_devices`; the results of repair and format are ignored there, and so are they here |
| `Start` | `Shell.eval` up to the first device call; `touch` and `cat` consult the cache here |
| `Load` | the continuation of the superblock read in `load_entries`, with the rest of `write_file` or `delete_file` up to their next device call |
| `WriteData` | the write of the content at the old `next_free` |
| `WriteSuper` | the effect of the device call of `write_superblock` |
| `Publish` | its continuation: `update_cache` and the answer |
| `Fetch` | the read of `read_file` at the extent found before |
| `Crash` | the process stops; the write in flight may be partly done |

`parse_superblock` is translated whole: the capped count, the rejected entries, the first
entry of a name winning, the recomputed `next_free` and the dirty flag.
`update_cache` keeps the last entry of a name, as `Hashtbl.replace` does.

Abstractions. A content is a value with a size that occupies its sectors as numbered
pieces, so that a mixture of two contents shows up as `Garbage`. Names are
values; `OnDiskName` gives what the 56-byte field keeps of a name. A
superblock write may be cut at the end of a sector, which lies inside an
entry: that entry has its new name and its old extent. The constant `Cuts`
holds the slots where that may be (counted from 1); it assumes that the name bytes of the straddling entry lie before
the end of the sector, which holds for names of up to 48 bytes. The 32-bit
widths of the fields do not matter on a disk of 2048 sectors
and are left out, as is a superblock that holds more entries than `MaxFiles`
(the program never writes one; it is in the parser of the model but not reached).

`NanoFSStore` maps this to `FileStore`. The files of the abstract store are those the cache leads
to while the kernel runs (until `Publish` a `cat` sees the old file) and those on disk while it does not, so
a crash between `WriteSuper` and `Publish` is the instant of the request it interrupts. A `cat` takes effect
when it starts, although it reads the disk later: overwrites never touch the sectors it reads, and nor does a removal
of another file. Once its own file is removed, a later load may give the sectors away, and then the code shows
what they hold, which may be the content of another file; so `FileStore` lets such a `cat` answer anything (`Anything`). The history variable `shown` holds what a `cat` in progress may answer.

### NanoStack and `stack.ml`

`Send` is `send` up to the first write; `Write`, `WriteError` and `Timeout`
are the branches of `send_until_ack`; `ReceiveAck` and `ReceiveData` those
of the callback of `listen`; `Restart` is a new process with new tables and a
random `next_seq`. Time is counted in periods of one attempt: the back-off and
the jitter scale a period but do not change what can overtake what. A
packet in the network is lost, or received any number of times until `Lifetime` ends.
`prune_seen` is the age in `seen_data` that passes `Window`. A restart fails
all open sends of a host together, which `Delivery` has as `Fail`.

`Paced` restricts the callers: a number is used again only when no send and no packet has it (`Unused`)
and no receiver still remembers it (`Free`). This is an assumption about the callers, which
the code does not enforce, and each half of it is needed. In run `stack_wrap` the number is unused but
still remembered (`UnusedSpec`), and the message is dropped as a duplicate. If an old acknowledgement is still under way it wakes the new send,
as `listen` looks for the waiter by the number alone, and `send` returns Ok for a message that may be lost.

### Kernel and `unikernel.ml`, `client.ml`

The actions of `NanoStack` are used as they are and extended: `Receive` starts a handler when the
callback of `listen` is called with a command; `Handle` is the end of `Shell.eval` and
the start of the `send` of the response, which follow each other without a
wait: the response takes the next number, whether that is in use or not. `Type` is a line at the prompt,
which comes back when the previous `send`
returned; only these sends are paced. `Reboot` is a restart of the kernel, at any time. What evaluation does to the
files is left to `NanoFS`. Evaluation is one step at any time after
the start of the handler, so handlers of two commands may finish in either order: the
code promises no order, and no property claims one.

### ShellSession: client, transport, shell and files

`Kernel` says how often a command runs, `NanoFS` what one run does to the disk.
`ShellSession` asks what the two mean together for a person at the prompt: `Type` is
a line, `Receive` starts `eval`, which looks into the cache at once (`ls`, `create_file`,
`read_file`); `Load` is the continuation of `load_entries`; `WriteSuper` the
effect of the device call of `write_superblock`; `Publish` its continuation, with
`update_cache` and the answer; `Reply` the answer of a command that writes nothing.
The way back is one step (`Show`) that may never happen. A restart (`Reboot`) may come at any time: between
any two of these steps, so that a change is on disk whose answer
nobody sees, and while packets and retries of a command that was executed are still under way. The kernel that comes back
has forgotten the numbers, is given the command again and runs it again.

`Console` says what is left of the promise then. `here` is the set of the commands that this life of the kernel has taken;
`Phase` says how far each of them has come. In one life a command is taken and takes effect at most
once. Two commands are under way together only if one of them took effect in an earlier life (`Before`): a
`write` that is run again can meet the `rm` that was typed after it, and what the two then do to the files and answer is promised to nobody
(`overlap`). In a life in which none met, each command takes effect at one instant and is answered from the files of that instant.

One assumption about the user is part of the statement, since without it commands meet at any time: he
waits for the answer before the next line (`Type`). The prompt itself comes back
when a command was *acknowledged*, and a second line may then start a second handler on the same
directory, as in run `fs_lost_update`.

### FileDisk and Packet

`Begin`, `Seek`, `Transfer` are the call, the continuation of `lseek` and
that of `read` or `write`. The offset belongs to the descriptor. A read that meets the end of the file is an
error, a write at the end extends the file, and a write may end early with an error, as in `read_loop` and
`write_loop`. It is cut between sectors here; a loop of partial transfers that reaches its end is taken as one transfer.

`Packet` is byte-exact, with the byte size as a constant. `encode`, `decode`, `write` and
`listen` are the functions of the code, `Transmitted` is what the peer makes of a packet. `SendPacket`
is the choice of a packet as `Stack` builds it: a kind, two numbers of one byte, a port of two and
any payload; the constant `Packets` is a set of such packets.

### LwtPool and `lwt_unix_stubs.c`

The main thread runs `start_job` (`Created` with one of `RunHere`, `Launch`,
`LaunchFails`, `Enqueue`, then `ReadState` and `Join`), `check_job` after the pause of
`run_job_aux`, and `recv_notifications` (`RecvEvent`, `RecvAgain`, `RecvAll`) with the
calls of the notifiers (`CallNotification`). A worker runs `worker_loop` (`NextJob`,
`Wait`) and `execute_job` (`Execute`, `Run`, `Finish`, `TestFast`, `Notify`). A section
under a mutex is one action unless it is left in between or another thread reads its
variables without the mutex: `start_job` reads the state of the job that way, so
`Finish` and `TestFast` are two actions and `ReadState` may see the old value.
`condition_wait` may return without a signal (`SpuriousWakeup`); the worker then counts
itself twice, and `thread_waiting_count` is too high from then on. That does not
strand a job: one that is queued for a worker that does not exist is taken by
one that is at work or about to look at the queue (`QueueServed`). Answering and freeing a
job are one step, as the result function of each job does both.

### MirageNet and `mirage/unikernel.ml`

`Net_write` builds a frame, `Net_listen` takes one through the checks of the callback
of `Netif.listen`: an ARP request is answered, a datagram for port 8080 is cut out of
its frame and given to the callback, and both teach the kernel the address of the
host. The host is external. It sends ARP requests, and datagrams with and without IP
options and padding; of a datagram that is larger than the link allows it sends the
first fragment (the later ones are left out). Offsets are those of the code. A frame above the mtu is
refused by `Netif.write` and nothing is sent, so `Net_write` has the limit as its guard. With a first fragment `Cstruct.sub` raises in a callback that `Netif` started with `Lwt.async`, which ends the kernel (`stopped`).

### MiniRedis

`Send` puts an encoded request on the wire; `read_more` takes a piece of it and
runs `handle_loop`, which executes a complete request and goes to `Flush`, waits
for more bytes, or ends the connection; `Flush` sends the response and runs
`handle_loop` on the rest. The loop takes its codec as a parameter, as all it needs
is `CodecSound`: a request is decoded as what it is, whatever follows it, and is
incomplete until its last byte is there; an answer is decoded as itself; the line
typed by hand never is. `decode` of `RespCodec` is the decoder of the code; it calls itself on the elements
of an array, which are shorter than the array, so it is a function by recursion over the number of bytes
(`decode_with` is its body). `encode` goes down the depth of a value and is a recursive operator of its
own module, around the step `Encoded`. The run uses both, and TLC evaluates `CodecSound` for them on the rests that
`MCRests` lists (`CodecAssumption`). Numbers are decimal numerals, as `string_of_int` prints them; the
hexadecimal and other forms that `int_of_string` takes as well, and numbers beyond 63 bits, are left out. Command
names have one letter; the texts of errors are left out.

### JsonParser, Calendar, FunctionalQueue

These are functions in the code and operators here, under their own names. A number,
`true`, `false` and `null` are one token, as no parse function tells them apart.
The parse functions of the code call each other. Here each takes the functions that parse the rest of a list
of items or fields as its argument `shorter`, and `list_parsers` ties the knot: the functions for lists of *n* tokens at most are made with
those for *n - 1*. `parse_json` starts with as many as the text has tokens; a list that is parsed inside
another is always behind a token that was taken, so the parsers do not run out before the text does, and running
out would be a failure that `ParserFollowsGrammar` notices. The code collects the items of a list in `acc`; here they are
put in front of what the rest of the list gives (`InFront`). `to_string` calls itself on the values inside, and is a recursive operator of
its own module around the step `Printed`, as the encoder of Mini Redis is; `JsonParser` has it as the parameter `Show`.
`Derived` builds all pairs of a text and its value (`Grammar`), of the values and of the lists in them, by the length of the text and from the inside
out, and shares nothing with the parser. `Calendar` walks: the next day is the first
of three candidates that `is_valid_date` accepts, so that a missing day or one too
many shows up in the count of the days of its year.

## 3. Runs

| run | shows | properties |
|---|---|---|
| `fs_store` | one handler that changes files and one that reads, also while its file is overwritten or removed; crashes: the file system is the promised map | `TypeOK`, `AckedWriteStored`, `ImplementsFileStore` |
| `fs_faults` | failing devices, three files | `DirectorySound`, `FilesHoldTheirData`, `TornWriteShowsOldOrNew`, `TornRemoveKeepsFront` |
| `fs_torn` | four files, superblock writes cut inside the first or second entry | `LiveDataKept`, `CacheCoherent`, `MountKeepsFiles`, `MountLeavesClean` |
| `fs_lost_update` | two writers with stale copies of the directory: a violation | `AckedWriteStored` |
| `fs_long_name` | a name over 56 bytes: a violation | `AckedWriteStored` |
| `stack_chain` | a client that restarts, a server that is also a sender, numbers used again | `TypeOK`, `NoStaleWaiter`, `WaiterRegistered`, `ImplementsDelivery`, `SendReturns` |
| `stack_wrap` | more messages than numbers, each gone before the next: a violation | `AckedIsDelivered` |
| `kernel` | two commands, responses that share a number, one restart of the kernel | `ImplementsRemoteShell`, `TakenIsAnswered` |
| | one caller of the disk | `AccessBySector` |
| | packets of every size | `PacketsArriveWhole`, `DamageNoticed` |
| | three jobs on a pool of two threads | `ImplementsJobService`, `NoUseAfterFree`, `PoolBounded`, `QueueServed` |
| | frames of the host and of the Mirage adapter | `PacketsReachCallback`, `HostUnderstands` |
| `session` | two commands of one user, chosen from all kinds, one restart of the kernel at any time | `ImplementsConsole` |
| `disk_race` | two callers of the disk: a violation | `AccessBySector` |
| `programs` | Redis: a stream cut at any byte, pipelining, a client that goes away | `ImplementsKeyValue`, `RequestsAnswered` |
| | JSON texts, and what differs from one by a token | `ParserFollowsGrammar`, `ParserReadsPrinter` |
| | fourteen years, day by day | `YearsAreWhole`, `OrderOfDays` |
| | the queue of two lists | `ImplementsFifo` |
| `json_comma` | texts of a few tokens that are not JSON: a violation | `ParserRaisesOnInvalid` |

The joined runs (`kernel`, `programs`) take one part per behaviour; the others stay in
their initial states, where no fairness condition asks anything of them.

**Bounds.** File system: sectors of two bytes, a directory of one sector, two or
three entries, three or four data sectors. Contents have zero, two and three bytes, so they
take no, one and two sectors, the last one partly filled. The disk can become full by sectors
(three are in use after a few overwrites, since space is only given back by
recomputing `next_free`) and by entries; overwriting in a full directory is reached. Two handlers are enough
for every pairwise race. Transport: three messages, one sequence number
(so that every second message of a host reuses it), one retry,
packets that live one tick and a window of two: an old packet can arrive
after its send returned, and a window can end. Kernel: two commands with two possible executions
each, one attempt per message, packets that live for the current tick (and arrive any number of times in it) and a window of one tick;
there is one number, so that two responses
always share it, and one removes or takes over the waiter of the other. Retries are in the runs of the transport and of the session,
where commands are executed as well; theorem `RemoteShellKept` has any number of them. Session: a file is made by `write` or
`touch` and any command follows; two numbers, one retry, packets that live for the current tick and a
window of one: in one tick a command can be executed, acknowledged and answered, the kernel restart, the next line be typed and
a copy of the first command arrive. Packets: bytes of four values make length and checksum
wrap at sixteen, and the twelve-byte buffer cuts packets that the network carries.
Redis: requests with a value that is a line break, a value whose length has two digits and an array in an
array; two of the first client's may be pipelined on a stream cut at each byte, next to a second client on the same key that may send a line
that is not RESP. Thread pool: three jobs and two threads, so that a job meets a full
pool, a waiting thread and a finished one; the system could start a third thread, and
the counter of waiting threads may be one above its highest right value. Mirage: an
mtu of 56 bytes and packets around the sizes that matter: 17 to 19 bytes (a shorter
frame is padded), 24 and 28 (what fits with and without IP options), and 29. JSON: all
texts of the grammar up to eight tokens, enough for an array in an object in an array,
and every text that differs from one of them by one token. Dates: from 1896 through
1900, which is not a leap year, and from 1996 through 2000, which is. Queue: up to five
elements of two kinds. Each property was seen to fail on a mutant of the code named in
`PROJECT.json`.

**Deadlock.** `CHECK_DEADLOCK FALSE` is set because these systems may stop: the
requests, messages or calls are bounded, and a connection may be closed.

**Fairness.** `NanoFS`, `ShellSession` and `FileDisk` state safety only. In `NanoStack` time goes on and a
send takes its next step: Lwt runs a timer that is due and a promise that is
resolved. Nothing is assumed of the network, so `SendReturns` holds when every
packet is lost. In `Kernel` handlers finish as well. In `MiniRedis` a loop with bytes to read or a response to flush
goes on; clients owe nothing. That condition is written with the
enabling condition spelled out (`Ready`). In `LwtPool` every thread that has a step
takes it, jobs end, and the loop of `Lwt_main` comes to every paused promise and every
readable descriptor (`PoolFairness`); a spurious wakeup is owed to nobody, so the
answers do not depend on one.

### What the violations mean

- `fs_lost_update`: `write_file` reads the directory, waits for the
  disk and writes back what it had read. Two handlers can read the same
  directory, and the later write of the superblock removes the file of the earlier one, which
  was acknowledged. The messages are empty, so that no data is written and nothing but the directory matters.
  It stays sound (`DirectoryCorrect`); a file is lost. With messages that need a sector two such handlers also have the
  same first free sector, and the data of the second lands on that of the first.
- `fs_long_name`: the name is cut to 56 bytes on disk and compared whole in memory,
  so a second write of such a name adds an entry that the next load drops.
- `stack_wrap`: 256 messages later the receiver still remembers the number. Every earlier message was
  acknowledged and none of their packets is left; the new message is acknowledged, dropped as a duplicate, and its send returns Ok.
- `disk_race`: the offset set by one call is used by the other.
- `json_comma`: an array with a comma in front of its closing bracket is accepted.

## 4. Proofs

`NanoFSProofs` proves, for every geometry, every set of names and contents and
every number of handlers:

- `TypeCorrect`: `Spec => []TypeOK`. The inductive invariant `TypeInv` adds that a
  handler that is not idle has a request (`Serving`). The hard part is that
  `Entries`, the list that `parse_superblock` keeps, is a list of valid entries of length at most
  `MaxFiles`, whatever the disk holds; this rests on the lemmas about
  `Sublist` and about the maximum of a bounded set (`MaxOfBounded`, `PositionOfRank`,
  `SublistProperties`, `NextFreeProperties`).
- `DirectoryCorrect`: if superblock writes are atomic (`Cuts = {}`), then
  `Spec => []DirectorySound`, with any number of handlers that write stale copies. `DirectorySound`
  is not inductive: a handler may hold a directory it loaded long ago. The
  invariant `DirectoryInv` says of every planned directory what it says of the one
  on disk, that its extents are apart and below its own `next_free`. A new
  file is placed at `next_free`, behind every other extent (`PlaceApart`), and a removal keeps a
  sublist (`KeptApart`).

The second part of `NanoFSProofs` adds what is true with one handler that changes files and any number of
readers (`OneWriter`; run `fs_lost_update` shows what a second writer does). `ShortNames` says that no name is longer than its field (run
`fs_long_name`).

- `CopyOnWrite`: `Spec => []LiveDataKept`, also after torn superblock writes and device
  errors. The invariant `WriterInv` says that the writer's plan comes from the superblock that is on
  the disk (`Plans`), so that what it writes lies behind the highest end of any extent a load accepts.
- `FilesStayWhole`: `Spec => []FilesHoldTheirData`, with failing devices, if superblock writes are
  atomic. `HeldInv` says of each entry of the raw superblock that its sectors hold a content submitted for
  its name, and of a plan whose data is written the same of the plan.
- `MountKeepsTheFiles`, `MountCleans`: `Spec => MountKeepsFiles` and `Spec => MountLeavesClean`, with
  torn writes and any handlers, if devices do not fail. `BootInv` says what each stage of the boot has
  established: a disk that is being formatted was not formatted, one that was checked is clean. The core is
  that `parse_superblock` of a repaired superblock gives the entries it was made from
  (`RepairedSuper`).
- `CacheFollowsDisk`: `Spec => []CacheCoherent`, with torn writes, if devices do not fail. `CacheInv` says
  where the cache is the directory of the disk: while the kernel runs, except between the device call of
  `write_superblock` and its continuation.
- `AckedWritesStay`: `Spec => []AckedWriteStored`, if reads do not fail. `AckInv` says that an
  answered write stands in a clean superblock with its data, through crashes and mounts. A read that fails
  makes `is_formatted` answer false, and the boot formats the disk; so the assumption is needed.
- `TornWriteIsOldOrNew`, `TornRemoveKeepsTheFront`: a superblock write that is cut in any slot, on a disk of whole
  superblocks. `NeatInv` says that such a superblock has no entry that the parser rejects and nothing behind
  its last one, so that slots and entries are the same, and a cut in a slot is a cut in the list.

`NanoFSStoreProofs` proves `StoreImplemented`: `StoreSpec => ImplementsFileStore`, if
superblock writes are atomic and devices do not fail. A write takes effect in `Publish`, or in the `Crash` that comes
before it; a `cat` takes effect when it starts. Nothing is assumed of when files are removed. The invariant `StoreInv` is `CoreInv`, the parts of the
above that this needs, `History`, which ties the observations to the requests, and `ReadsShown` for the
readers: a `cat` whose file was not removed since its call will read sectors that hold what the cache gave then, and that end where
the file ends now, or before (`ReadSafe`). The last is what makes them safe: an overwritten file only moves towards the end of the disk (`CacheGrows`), so
the writer, which writes behind every file it keeps, writes behind these sectors as well.

`NanoStackProofs` proves about the transport, for any hosts, messages, numbers and bounds:

- `TypeCorrect`: `Spec => []TypeOK`.
- `WaitersSound` and `NoWaiterLeft`: `Paced => []WaiterRegistered` and
  `Paced => []NoStaleWaiter`, with restarts. The invariant `WaiterInv` adds to the two that two open sends of a host never
  share a number; that is where `Free` is needed. It is proved for any set of hosts that are paced while the
  others take any number (`WaitersOf`, `PacedFrom`), as `Kernel` is such a system.
- `Reliable`: `Paced => ImplementsDelivery`, if receivers do not restart and
  `MaxRetries + Lifetime <= Window`. The argument is one about ages (`DeliveryInv`): the
  receiver's entry for an open send is at most as old as the sender has waited
  (`EntriesYoung`), and at most `MaxRetries` older than any packet of it
  (`PacketsRemembered`), so a packet that still arrives is still remembered; and while
  hosts are paced, whatever bears the number of an open send belongs to it (`OwnPackets`,
  `OwnAcks`, `OwnEntries`). Both assumptions are needed: run `kernel` has a receiver that
  restarts, and its commands do run twice. In the code the kernel remembers a number for
  30 seconds and the client for 10. The last retry of a send is written at most 7.2
  seconds after the first attempt by the Unix kernel, which has 6 retries (`bin/main.ml:11`), at most 5.2 seconds by a kernel
  with the 5 of `default_config`, and 1.6 seconds by the client
  (`bin/client.ml` has its own configuration). So the second assumption says that the network
  keeps a response no longer than the 2.8 seconds, or 4.8, that are left.

`KernelProofs` proves `RemoteShellKept`: `KernelSpec => ImplementsRemoteShell`, for any script and any
number of restarts, if `MaxRetries + Lifetime <= Window`. The kernel restarts, so `DeliveryInv` does not
hold; its place is taken by `TransportInv`, which says of a message that *this life* of the kernel took
(`here`) what `DeliveryInv` says of one that was ever delivered: its number is remembered for as long as packets of it
may come (`HereYoung`, `HereRemembered`), and what is remembered under the number of an open send was taken in
this life (`EntriesHere`). `HandlersInv` says that a command has at most one handler, of this life
(`HandlersHere`), and that a response whose number is above the count of the executions was not sent
(`ResponsesSent`), so that answers belong to executions. That the client is paced is part of the model
(`Type` uses `PacedSend`); the kernel takes the next number for a response, whatever has it (`Handle`). So
the invariants of the transport are stated of the clients (`WaitersOf(Clients)`, `OwnCommands`, `AcksTaken`), whose numbers no
response can confuse.

`ShellSessionProofs` proves `ConsoleKept`: `SessionSpec => ImplementsConsole`, for any script of the four
commands, any number of restarts, any modulus and number of retries, if `MaxRetries + Lifetime <= Window`.
A command takes effect in `WriteSuper`, or in `Reply` if it does not write. The handler read the directory
before, two waits ago, and as long as no two commands met in this life it has to be current still: `Undisturbed` says that a handler is the only one
and that what it has read is what is on the disk (`ReadsCurrent`). A second handler of the same
command could only come from a second delivery in the same life, and that is where the
transport comes in. `NanoStackProofs` calls a message *kept* (`Kept`) while its receiver will
recognise every packet of it that is under way or can still be written; every step but a restart preserves this
(`KeptNext`), a kept message is not delivered (`KeptKnown`), and one that was just delivered is kept
(`GivenIsKept`). `HereKept` says that every command that this life of the kernel took is kept, and `OneHandler` that a command has at most one
handler, of this life. A restart empties `here`, as it forgets the numbers and the handlers, so nothing is asked of when it comes. Handlers of different
commands: lines are typed in order, each when the answers before it were seen (`TypedInOrder`), so of two commands the first was answered (`Alone`), and a
command that was answered took effect (`AnswersReal`). If it is under way again it did so in an earlier life, which
is what `Console` asks of two commands that meet (`MetBefore`).

`DeviceProofs` proves of the pool `PoolMemory` (`PoolSpec => []NoUseAfterFree`), `PoolStaysBounded`,
`PoolServesQueue` and `JobsRunOnce` for any number of jobs and threads, any `pool_size` and any number
of spurious wakeups. The invariant has three parts beside the types. `PoolShape` is about threads:
they are finite in number and within the bound, a positive counter means that there is one, and a queued
job has one that does not wait. `JobInv` is about places: a job is in
the queue or in the hands of one worker and in no more than one of them (`InOnePlace`), its
state and `fast` say how far the worker has come (`HandsAndState`, `SlowIsAsleep`), a notification is sent last
(`NotedIsDone`), and so no freed job is in anyone's hands (`FreedIsNowhere`). `RunsInv` is about what
each place says of the past: the function of a queued job was not called, that of a noted or DONE one was
called once, and the hands of a worker tell by its place. With that
every step maps to one of `JobService` or to none, which is `JobsRunOnce`:
`PoolSpec => Service!Init /\ [][Service!Next]_phases`.

It proves of the disk `OneByOneBySector`: `Spec /\ []OneAtATime => AccessBySector`. The invariant is that a
caller that is about to transfer finds the offset where it has put it (`AtItsSector`); the rest is arithmetic on
positions in the file (`OverlaidIs`). `OneAtATime` cannot be dropped (run `disk_race`).

`ProgramProofs` proves `QueueIsFifo`, the whole refinement, from the
invariant that an empty front list means an empty queue (`QueueInv`); and for dates from any positive year on
`YearsStayWhole` and `DaysAreOrdered`. The count of days is tied to the
date by the day of the year (`DaysCounted`), and a year of `date.ml` to the rule for years, which divides by 4,
100 and 400, by `Multiples` and `YearLength`.

It proves `CommandsInOrder`, that Mini Redis implements `KeyValue`, for any
clients, requests and reads and every codec that is `CodecSound`. The invariant ties the bytes of a
connection to requests (`Streams`): the buffer, what is on its way and what a client that
went away has taken with it are together the encodings of a sequence of requests, perhaps with the line typed
by hand behind them, and these are the requests that were asked and have no answer. Nothing is said of where a
read was cut: the bytes in hand either begin with the whole first request, which is
then decoded and leaves a shorter stream of the same kind, or are a part of it and wait
(`TwoCuts`, `FrontOfStream`). An answer counts from the moment its response is being flushed.

`DecoderLosesNothing` proves `CodecSound` of the program's decoder, for requests and answers of any length
and depth, and `CommandsInOrderByDecoder` puts the two together. What is decoded need not be complete: `Agree` says of a
buffer that its bytes are those of an encoding as far as both go, and `Outcome` that decoding it gives the value and the bytes
behind it, or that bytes are missing. `NumberReadBack` reads a numeral back, from what is left of
the number without its last digits (`LeftsShrink`). `HeaderFound` says that a first line is found only when it is
whole, `ScalarRead` and `BulkRead` are about values that are no arrays, and `ElementsRead` takes the elements of an array one after
the other, by the lengths of their partial concatenations (`FlattenIs`, `AgreeJoined`). `DecodeReads` goes up from
short buffers to long ones: the elements of an array are in a buffer that its header has made shorter. The hypotheses are that lines
hold no CR (`Transmissible`; a simple string with a CR in it is not RESP, and is not read back), and that `Encode` does to
each value what `Encoded` does (`EncodedBy`), which is how `RespEncoder` defines it.

`DeviceProofs` also proves what arrives at the other end of the wire.

- `PacketsStayWhole` and `OneByteIsNoticed`: `PacketSpec => []PacketsArriveWhole` and
  `PacketSpec => []DamageNoticed`, for any packets and any size of a byte, of the buffer and of a datagram. `Layout` says
  where the fields of an encoded packet stand and `AllButSum` which bytes are summed. The sum is a function defined by
  recursion over the length. That it exists and what it is at each length is taken from a least
  counterexample (`Recursion`, `LeastElement`), in place of an induction. Sums of bytes that differ in one place stay
  apart from there on (`ChecksumTells`). A packet that was cut is noticed by its length field (`CutIsNoticed`): a payload whose
  length wraps there makes a datagram that `sendto` refuses.
- `DatagramsReachCallback`: `NetSpec => PacketsReachCallback`, for any payloads and any mtu. A frame
  is put together from a dozen parts. `Part` gives a part its length, `StandsAt` says that a buffer has a part
  from an offset on, `Peel` and `Glue` take a part off the front and put one there; with that each
  field is where the callback looks for it, in a frame with options and padding or without (`IpArrives`,
  `ArpArrives`). No fragment is taken for a whole datagram: what it holds is shorter than its UDP header says (`InFirstIs`, `Delivered`).
- `FramesAreUnderstood`: `NetSpec => HostUnderstands`. The header checksum is a folded one's
  complement; `SumOfHeader` writes the sum of the ten words out, and `FoldedComplement` says that header and
  complement add up to a multiple of 65535. The invariant `NetInv` says that a frame waits only while the kernel runs and that
  the learned address is the broadcast address until the host was heard, and the host's own afterwards.

`JsonProofs` proves `ParserKeepsToGrammar` and `PrinterIsRead`:
`TextSpec => []ParserFollowsGrammar` and `TextSpec => []ParserReadsPrinter`, for any strings and any bound on the
texts. Parser, grammar and printer are three recursions over a number; that each function exists, and
what holds at each number, is taken from a least counterexample (`ParsersExist`, `DerivedExists`, `ListEndsExist`, `LeastElement`).

- What the parser accepts is of the grammar, or has a comma in front of a bracket: `Sound` says of the parsers of level *n* that a value or list they return
  is derived by a text that is what was taken from the front, or is not longer than that and what was taken has such a comma (`Near`). A text
  put together from parts has the comma if a part has it (`CommaStays`), and the one place that takes one is `ReadsTrailing`. `LevelsSound` goes up the levels, to `ParserSound`.
- What is of the grammar is parsed, with anything behind it: `Complete` says that a level parses the lists that are no longer,
  with their closing bracket, than the level is high (`LevelsComplete`, `ParserComplete`). That a
  text has one value is not assumed of the grammar: it follows, since the parser returns each of them.
- What is printed of a derived value is a derived text of that value, no longer than the text that it came from
  (`Prints`, `AllPrint`). So the parser
  reads it, by the first two. `ListedCons` takes the first item off what is printed of a list.
- `TextsInRoom` says that a near miss is at most one token longer than its text, so that the grammar up to
  `MaxText + 1` decides about it (`ParserIs`).

The assumptions on constants are `GeometryAssumption`, `NameAssumption`,
`ContentAssumption` and `RequestAssumption` of `NanoFS`, `StackAssumption` of `NanoStack`,
`KernelAssumption` of `Kernel` (commands go to the kernel from other hosts; each response is a message of its
own, and goes back), `SessionAssumption` of `ShellSession` (the script is a sequence of messages, and each line
one of the four commands), `PoolAssumption` of `LwtPool`, `DiskAssumption` of `FileDisk` (the file and the buffers are
sequences of sectors), `PacketAssumption` of `Packet` (a buffer holds a header, a datagram's length has two bytes,
packets have the widths of their fields), `NetAssumption` of `MirageNet` (an mtu of 46 bytes, the least that Ethernet carries, up to
65535; payloads are bytes, and a datagram with options fits the length field of IP), `RequestAssumption`,
`ReadAssumption` and `ByteAssumption` of `MiniRedis` (a request names the command that
`parse_command` makes of it, a read returns at least a byte, the bytes of the protocol are bytes), `CalendarAssumption` of
`Calendar` (years are positive), `TextAssumption` and `ShowAssumption` of `JsonParser` (no string is a bracket, a comma or a colon;
`Show` puts together what it shows of the values inside, which is how `JsonPrinter` defines `to_string`). TLC evaluates each of them
in the runs of its module. `CodecSound` is a hypothesis
of `CommandsInOrder`; TLC evaluates an instance of it (`CodecAssumption` of `MCPrograms`), and that the values of
the run are of the kind that `DecoderLosesNothing` asks for (`ValueAssumption`).

A proof that does not go through says something about the model. Two definitions by
cases had guards that overlap, `Says` of `Console` and `Phase` of `LwtPool`: TLC takes the first case that
holds, the prover may take none for granted. Both say now what they meant.

**Only model-checked.** Liveness and `ENABLED` are out of reach of the prover: `SendReturns`, `TakenIsAnswered`,
`RequestsAnswered`, and of `ImplementsJobService` that every job is answered in the end. Every other property of a run that is expected to pass is
stated by a theorem. Two definitions are recursive operators, which the provers do not take: `encode` of `RespEncoder` and
`to_string` of `JsonPrinter`. The theorems are about every function that does one step of them (`EncodedBy`,
`ShowAssumption`). Induction over data has no theorem to cite, as the provers cannot instantiate those of the library; where
a recursion is one over a number, as in the two checksums, the decoder of Mini Redis and the JSON parser, a least counterexample does the same.

## 5. Not modelled, and why

- A removal that is cut inside an entry gives one file the extent of its neighbour,
  since the entries behind the removed one move. No check of `parse_superblock` can
  notice it; `TornWriteShowsOldOrNew` excludes `rm`, and `TornRemoveKeepsFront` says
  which files are safe: those in front of the removed one.
- `is_formatted` answers false when the superblock cannot be read, and boot then
  formats the disk. The model has this step (`Check`, `Format`), and
  `MountKeepsFiles` is about mounts whose reads succeed.
- A repair that is itself cut. If it moves entries, because a write that was cut before left
  one that is rejected, a second cut may again give a file the extent of its neighbour. `MountKeepsFiles` covers
  repairs that end, and cut ones that move no entry.
- An exception of `sendto` ends the process through the hook of `Lwt.async`, and an error of
  `recvfrom` ends the listening loop and with it the kernel. For the peers both
  are a restart of the kernel, which `Kernel` has at every point; what they do inside is left out.
- The wording of the shell's answers; what the file-existed flag of `write` is worth when two
  handlers run at once; the texts of errors of Mini Redis; logging; entry points and wiring.
- *RAM disk*: one copy between byte arrays, without a scheduling point, for tests.
- *Unikv*: one step (the log call and the store follow each other without a wait), and nothing is persisted.
- *Echo and HTTP servers*: a loop over a line, and a table that is read and changed without a scheduling point.
- *The lexer* of the JSON parsers, and `member` and `index`.
- *Other exercises*: evaluators, lists and a heterogeneous map, without state.
- *Mirage*: the wrappers for block device, clock and randomness, `config.ml`, and all
  vendored libraries except the thread pool. Of that, signals, cancellation and the Windows branches are left out.

## 6. Plan

What would come next, in this order.

1. *The lexer* of the JSON parsers, from characters to the tokens of `JsonParser`, so that what
   `to_string` does not escape can be stated.
2. *The two hazards without a property*: the flag of `write` under two handlers, and the name of an unknown command in
   an answer of Mini Redis.
3. *A repair that is cut*, with the condition under which it gives a file the extent of its neighbour.
