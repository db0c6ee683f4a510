-------------------------------- MODULE NanoFS --------------------------------
(***************************************************************************)
(* The flat file system of NanoOS (nano_os/lib/fs.ml) on its block device, *)
(* mounted by App.boot_with_devices (nano_os/lib/app.ml) and used by the   *)
(* request handlers that Unikernel.run starts with Lwt.async.              *)
(*                                                                         *)
(* Every call of the block device is a point where Lwt may run another     *)
(* handler, so a step of this model is the code between two such points:   *)
(* a read takes effect when its continuation runs, and a superblock write  *)
(* has one step for its effect on the disk and one for the continuation    *)
(* that refreshes the cache.                                               *)
(*                                                                         *)
(* A content is atomic: it has a size in bytes and occupies its sectors as *)
(* numbered pieces.  OnDiskName[n] is the name that comes back after name  *)
(* n was cut at 56 bytes by write_superblock and at the first NUL by       *)
(* parse_name; NoName stands for the empty name of an unused slot.         *)
(***************************************************************************)
EXTENDS Integers, Sequences, FiniteSets, FiniteSetsExt

CONSTANTS
    Clients,      \* the request handlers in flight
    Requests,     \* Requests[c]: the requests handler c may serve
    Names,        \* file names a request can carry
    NoName,       \* the empty name
    OnDiskName,   \* what the 56-byte name field keeps of a name
    Contents,     \* file contents
    Empty,        \* the content of a touched file
    ContentSize,  \* the size of each content in bytes
    Garbage,      \* bytes that are no content anyone wrote
    SectorSize,   \* 512 in the code
    DirSectors,   \* directory_sectors
    DiskSectors,  \* info.size_sectors
    MaxFiles,     \* max_files
    Cuts,         \* slots where a superblock write may be cut
    Faults        \* device operations that may report an error

ASSUME GeometryAssumption ==
    /\ SectorSize \in Nat \ {0}
    /\ DirSectors \in Nat \ {0}
    /\ DiskSectors \in Nat
    /\ DirSectors <= DiskSectors
    /\ MaxFiles \in Nat
    /\ Cuts \subseteq 1 .. MaxFiles
    /\ Faults \subseteq {"read", "write"}

ASSUME NameAssumption ==
    /\ NoName \notin Names
    /\ OnDiskName \in [Names -> Names \cup {NoName}]
    /\ \A n \in Names : OnDiskName[n] \in Names => OnDiskName[OnDiskName[n]] = OnDiskName[n]

ASSUME ContentAssumption ==
    /\ ContentSize \in [Contents -> Nat]
    /\ Empty \in Contents
    /\ \A x \in Contents : ContentSize[x] = 0 <=> x = Empty
    /\ Garbage \notin Contents

Kinds == {"write", "touch", "rm", "cat"}

Request == [kind : Kinds, name : Names, content : Contents]
NoRequest == [kind |-> "none", name |-> NoName, content |-> Empty]

ASSUME RequestAssumption == Requests \in [Clients -> SUBSET Request]

VARIABLES
    super,   \* the superblock on disk, sectors 0 .. DirSectors-1
    data,    \* the data sectors on disk
    cache,   \* fs.cache: name -> extent
    boot,    \* where App.boot_with_devices is
    pc,      \* where each handler is
    req,     \* the request each handler serves
    plan,    \* the local variables a handler keeps across a device call
    reply    \* the answer to the last request of each handler

vars == <<super, data, cache, boot, pc, req, plan, reply>>
disk == <<super, data>>
handlers == <<pc, req, plan, reply>>

-------------------------------------------------------------------------------
(* The layout of the disk. *)

Slot == [name : Names \cup {NoName}, start : Nat, size : Nat]
Entry == [name : Names, start : Nat, size : Nat]
Extent == [start : Nat, size : Nat]
ZeroSlot == [name |-> NoName, start |-> 0, size |-> 0]
SuperBlock == [formatted : BOOLEAN, count : 0 .. MaxFiles, next_free : 0 .. DiskSectors,
               slots : [1 .. MaxFiles -> Slot]]
DataSectors == DirSectors .. (DiskSectors - 1)
Blank == [formatted |-> FALSE, count |-> 0, next_free |-> 0,
          slots |-> [i \in 1 .. MaxFiles |-> ZeroSlot]]

sectors_for_size(size) == (size + SectorSize - 1) \div SectorSize

(* The first sector after an extent, and the sectors of it. *)
Finish(e) == e.start + sectors_for_size(e.size)
SectorsOf(e) == e.start .. (Finish(e) - 1)

(* The sublist of list l at the positions in I, in order. *)
Sublist(l, I) ==
    [k \in 1 .. Cardinality(I) |->
        l[CHOOSE i \in I : Cardinality({j \in I : j <= i}) = k]]

(* Mutant: no check of the name and the start. *)
ValidateFinishOnly(e) == Finish(e) <= DiskSectors

validate_entry(e) ==
    /\ e.name # NoName
    /\ DirSectors <= e.start
    /\ Finish(e) <= DiskSectors

(* parse_superblock: count is capped, an invalid slot and a later slot of   *)
(* the same name are dropped, and next_free is computed again.              *)
SlotsRead(sb) == 1 .. (IF sb.count > MaxFiles THEN MaxFiles ELSE sb.count)
ValidSlots(sb) == {i \in SlotsRead(sb) : validate_entry(sb.slots[i])}
FirstSlots(sb) ==
    {i \in ValidSlots(sb) :
        \A j \in ValidSlots(sb) : j < i => sb.slots[j].name # sb.slots[i].name}

Entries(sb) == Sublist(sb.slots, FirstSlots(sb))

(* Mutant: the end of the last entry instead of the highest end. *)
EndOfLast(es) == IF es = <<>> THEN DirSectors ELSE Finish(es[Len(es)])

ComputedNextFree(es) == Max({DirSectors} \cup {Finish(es[i]) : i \in 1 .. Len(es)})

NextFree(sb) ==
    LET computed == ComputedNextFree(Entries(sb))
    IN  IF computed > DiskSectors THEN DiskSectors ELSE computed

Dirty(sb) ==
    \/ sb.count > MaxFiles
    \/ FirstSlots(sb) # SlotsRead(sb)
    \/ sb.next_free # NextFree(sb)

(* The superblock write_superblock lays out for a list of entries. *)
SuperOf(es, nf) ==
    [formatted |-> TRUE, count |-> Len(es), next_free |-> nf,
     slots |-> [i \in 1 .. MaxFiles |->
                  IF i <= Len(es)
                  THEN [es[i] EXCEPT !.name = OnDiskName[es[i].name]]
                  ELSE ZeroSlot]]

(* What a superblock write that did not complete may leave: nothing of it,  *)
(* all of it, or its first sectors.  The end of a sector (but the last) is  *)
(* inside an entry, between its name and its extent.                        *)
Torn(old, new, cut) ==
    [new EXCEPT !.slots = [i \in 1 .. MaxFiles |->
        IF i < cut THEN new.slots[i]
        ELSE IF i = cut THEN [old.slots[i] EXCEPT !.name = new.slots[i].name]
        ELSE old.slots[i]]]
Interrupted(old, new) == {old, new} \cup {Torn(old, new, cut) : cut \in Cuts}

(* update_cache: the last entry of a name wins. *)
NamesIn(es) == {es[i].name : i \in 1 .. Len(es)}
CacheOf(es) ==
    [n \in NamesIn(es) |->
        LET last == CHOOSE i \in 1 .. Len(es) :
                        /\ es[i].name = n
                        /\ \A j \in 1 .. Len(es) : es[j].name = n => j <= i
        IN  [start |-> es[last].start, size |-> es[last].size]]

NoFiles == [n \in {} |-> ZeroSlot]

(* Mutant: the table is not cleared first. *)
UpdateWithoutClear(es) ==
    cache' = [n \in DOMAIN cache \cup NamesIn(es) |->
                IF n \in NamesIn(es) THEN CacheOf(es)[n] ELSE cache[n]]

update_cache(es) == cache' = CacheOf(es)

(* The sectors of e, or those in some of them, once content x is written. *)
WithPieces(x, start, some) ==
    [s \in DataSectors |-> IF s \in some THEN <<x, s - start>> ELSE data[s]]

(* The content that the sectors of an extent hold on disk d. *)
Holds(d, e, x) ==
    /\ ContentSize[x] = e.size
    /\ \A s \in SectorsOf(e) : d[s] = <<x, s - e.start>>
ContentAt(d, e) ==
    IF \E x \in Contents : Holds(d, e, x)
    THEN CHOOSE x \in Contents : Holds(d, e, x)
    ELSE Garbage

-------------------------------------------------------------------------------
(* Handlers. *)

Results == {"ok", "No_space", "File_not_found", "File_exists",
            "Block_error", "Corrupt_filesystem", "none"}
Reply == [result : Results, content : Contents \cup {Garbage}]
NoReply == [result |-> "none", content |-> Garbage]

NoPlan == [entries |-> <<>>, next_free |-> 0, start |-> 0, size |-> 0]

Goto(c, label, p) ==
    /\ pc' = [pc EXCEPT ![c] = label]
    /\ plan' = [plan EXCEPT ![c] = p]
    /\ reply' = [reply EXCEPT ![c] = NoReply]

Answer(c, result, x) ==
    /\ pc' = [pc EXCEPT ![c] = "idle"]
    /\ plan' = [plan EXCEPT ![c] = NoPlan]
    /\ reply' = [reply EXCEPT ![c] = [result |-> result, content |-> x]]

Fail(c, result) == Answer(c, result, Garbage)

Init ==
    /\ super = Blank
    /\ data = [s \in DataSectors |-> <<Garbage, 0>>]
    /\ cache = NoFiles
    /\ boot = "down"
    /\ pc = [c \in Clients |-> "idle"]
    /\ req = [c \in Clients |-> NoRequest]
    /\ plan = [c \in Clients |-> NoPlan]
    /\ reply = [c \in Clients |-> NoReply]

-------------------------------------------------------------------------------
(* Mounting: App.boot_with_devices. *)

(* connect ~repair:true: an unreadable or foreign superblock leaves the     *)
(* cache empty, a dirty one is written back.                                *)
Connect ==
    /\ boot = "down"
    /\ \/ /\ super.formatted
          /\ update_cache(Entries(super))
          /\ boot' = IF Dirty(super) THEN "repair" ELSE "check"
       \/ /\ ~super.formatted \/ "read" \in Faults
          /\ cache' = NoFiles
          /\ boot' = "check"
    /\ UNCHANGED <<disk, handlers>>

(* Mutants: a repair that formats, and one that keeps the old next_free. *)
RepairByFormat == SuperOf(<<>>, DirSectors)
RepairKeepsNextFree == SuperOf(Entries(super), super.next_free)

RepairedSuper == SuperOf(Entries(super), NextFree(super))

(* The write-back of connect, whose result is ignored. *)
Repair ==
    /\ boot = "repair"
    /\ boot' = "check"
    /\ \/ super' = RepairedSuper
       \/ "write" \in Faults /\ super' \in Interrupted(super, RepairedSuper)
    /\ UNCHANGED <<data, cache, handlers>>

(* is_formatted answers false when the superblock cannot be read. *)
Check ==
    /\ boot = "check"
    /\ \/ super.formatted /\ boot' = "run"
       \/ (~super.formatted \/ "read" \in Faults) /\ boot' = "format"
    /\ UNCHANGED <<disk, cache, handlers>>

FreshSuper == SuperOf(<<>>, DirSectors)

(* format, whose result App.boot_with_devices ignores. *)
Format ==
    /\ boot = "format"
    /\ boot' = "run"
    /\ \/ super' = FreshSuper /\ update_cache(<<>>)
       \/ /\ "write" \in Faults
          /\ super' \in Interrupted(super, FreshSuper)
          /\ UNCHANGED cache
    /\ UNCHANGED <<data, handlers>>

-------------------------------------------------------------------------------
(* The operations, each up to its next device call. *)

(* read_file looks the extent up in the cache before it reads the disk,     *)
(* create_file looks for the name there before it calls write_file.         *)
Start(c, r) ==
    /\ boot = "run"
    /\ pc[c] = "idle"
    /\ req' = [req EXCEPT ![c] = r]
    /\ \/ r.kind \in {"write", "rm"} /\ Goto(c, "load", NoPlan)
       \/ r.kind = "touch" /\ r.name \notin DOMAIN cache /\ Goto(c, "load", NoPlan)
       \/ r.kind = "touch" /\ r.name \in DOMAIN cache /\ Fail(c, "File_exists")
       \/ r.kind = "cat" /\ r.name \notin DOMAIN cache /\ Fail(c, "File_not_found")
       \/ /\ r.kind = "cat" /\ r.name \in DOMAIN cache
          /\ Goto(c, "fetch", [NoPlan EXCEPT !.start = cache[r.name].start,
                                             !.size = cache[r.name].size])
    /\ UNCHANGED <<disk, cache, boot>>

Body(r) == IF r.kind = "touch" THEN Empty ELSE r.content

Located(es, name) == {i \in 1 .. Len(es) : es[i].name = name}

(* Mutant: no limit on the number of files. *)
NeverFull(es, name) == FALSE

DirectoryFull(es, name) == Located(es, name) = {} /\ Len(es) >= MaxFiles

(* Mutant: the old blocks are reused. *)
AllocateInPlace(es, name, nf) ==
    IF Located(es, name) = {} THEN nf ELSE es[CHOOSE i \in Located(es, name) : TRUE].start

Allocate(es, name, nf) == nf

(* Mutant: an overwrite adds a second entry. *)
PlaceAtEnd(es, new) == Append(es, new)

Place(es, new) ==
    IF Located(es, new.name) = {} THEN Append(es, new)
    ELSE [i \in 1 .. Len(es) |-> IF es[i].name = new.name THEN new ELSE es[i]]

(* write_file after load_entries: where the data goes and the directory     *)
(* that will point to it.                                                   *)
PlanWrite(c, es, nf) ==
    LET name == req[c].name
        new == [name |-> name, start |-> Allocate(es, name, nf),
                size |-> ContentSize[Body(req[c])]]
    IN  \/ /\ DirectoryFull(es, name) \/ Finish(new) > DiskSectors
           /\ Fail(c, "No_space")
        \/ /\ ~DirectoryFull(es, name)
           /\ Finish(new) <= DiskSectors
           /\ Goto(c, "data", [entries |-> Place(es, new), next_free |-> Finish(new),
                               start |-> new.start, size |-> new.size])

(* Mutant: the entries behind the removed one are dropped with it. *)
KeptBefore(es, name) == Sublist(es, {i \in 1 .. Len(es) : \A j \in Located(es, name) : i < j})

(* Mutant: the list is rebuilt back to front. *)
KeptReversed(es, name) ==
    LET kept == Sublist(es, (1 .. Len(es)) \ Located(es, name))
    IN  [i \in 1 .. Len(kept) |-> kept[Len(kept) + 1 - i]]

Kept(es, name) == Sublist(es, (1 .. Len(es)) \ Located(es, name))

(* delete_file after load_entries: next_free is kept. *)
PlanDelete(c, es, nf) ==
    LET kept == Kept(es, req[c].name)
    IN  \/ Len(kept) = Len(es) /\ Fail(c, "File_not_found")
        \/ /\ Len(kept) # Len(es)
           /\ Goto(c, "super", [NoPlan EXCEPT !.entries = kept, !.next_free = nf])

Load(c) ==
    /\ pc[c] = "load"
    /\ \/ "read" \in Faults /\ Fail(c, "Block_error")
       \/ ~super.formatted /\ Fail(c, "Corrupt_filesystem")
       \/ /\ super.formatted
          /\ IF req[c].kind = "rm"
             THEN PlanDelete(c, Entries(super), NextFree(super))
             ELSE PlanWrite(c, Entries(super), NextFree(super))
    /\ UNCHANGED <<disk, cache, boot, req>>

(* Mutant: the error of the data write is ignored. *)
WriteDataIgnoringError(c) ==
    /\ pc[c] = "data"
    /\ Goto(c, "super", plan[c])
    /\ \/ data' = WithPieces(Body(req[c]), plan[c].start, SectorsOf(plan[c]))
       \/ "write" \in Faults /\ UNCHANGED data
    /\ UNCHANGED <<super, cache, boot, req>>

(* The write of the content at the old next_free. *)
WriteData(c) ==
    /\ pc[c] = "data"
    /\ \/ /\ data' = WithPieces(Body(req[c]), plan[c].start, SectorsOf(plan[c]))
          /\ Goto(c, "super", plan[c])
       \/ /\ "write" \in Faults
          /\ \E some \in SUBSET SectorsOf(plan[c]) :
                data' = WithPieces(Body(req[c]), plan[c].start, some)
          /\ Fail(c, "Block_error")
    /\ UNCHANGED <<super, cache, boot, req>>

PlannedSuper(c) == SuperOf(plan[c].entries, plan[c].next_free)

(* write_superblock: the effect of its device call. *)
WriteSuper(c) ==
    /\ pc[c] = "super"
    /\ \/ super' = PlannedSuper(c) /\ Goto(c, "publish", plan[c])
       \/ /\ "write" \in Faults
          /\ super' \in Interrupted(super, PlannedSuper(c))
          /\ Fail(c, "Block_error")
    /\ UNCHANGED <<data, cache, boot, req>>

(* write_superblock: its continuation, update_cache. *)
Publish(c) ==
    /\ pc[c] = "publish"
    /\ update_cache(plan[c].entries)
    /\ Answer(c, "ok", Body(req[c]))
    /\ UNCHANGED <<disk, boot, req>>

(* read_file: its device call, at the extent looked up before. *)
Fetch(c) ==
    /\ pc[c] = "fetch"
    /\ \/ Answer(c, "ok", ContentAt(data, plan[c]))
       \/ "read" \in Faults /\ Fail(c, "Block_error")
    /\ UNCHANGED <<disk, cache, boot, req>>

-------------------------------------------------------------------------------
(* A crash loses the memory of the program; the device call of one handler  *)
(* or of the mount may be cut short.                                        *)
Reset ==
    /\ boot' = "down"
    /\ cache' = NoFiles
    /\ pc' = [c \in Clients |-> "idle"]
    /\ plan' = [c \in Clients |-> NoPlan]
    /\ reply' = [c \in Clients |-> IF pc[c] = "idle" THEN reply[c] ELSE NoReply]
    /\ UNCHANGED req

Crash ==
    /\ boot # "down"
    /\ Reset
    /\ \/ UNCHANGED disk
       \/ /\ boot = "repair" /\ super' \in Interrupted(super, RepairedSuper)
          /\ UNCHANGED data
       \/ /\ boot = "format" /\ super' \in Interrupted(super, FreshSuper)
          /\ UNCHANGED data
       \/ \E c \in Clients :
             /\ pc[c] = "super" /\ super' \in Interrupted(super, PlannedSuper(c))
             /\ UNCHANGED data
       \/ \E c \in Clients :
             /\ pc[c] = "data" /\ UNCHANGED super
             /\ \E some \in SUBSET SectorsOf(plan[c]) :
                   data' = WithPieces(Body(req[c]), plan[c].start, some)

Handler(c) ==
    \/ \E r \in Requests[c] : Start(c, r)
    \/ Load(c) \/ WriteData(c) \/ WriteSuper(c) \/ Publish(c) \/ Fetch(c)

Mount == Connect \/ Repair \/ Check \/ Format

Next == Mount \/ Crash \/ \E c \in Clients : Handler(c)

Spec == Init /\ [][Next]_vars

(* Without crashes: how long one boot of the program behaves.              *)
Steady == Init /\ [][Mount \/ \E c \in Clients : Handler(c)]_vars

-------------------------------------------------------------------------------
(* Properties. *)

Labels == {"idle", "load", "data", "super", "publish", "fetch"}
Plan == [entries : Seq(Entry), next_free : 0 .. DiskSectors, start : Nat, size : Nat]

(* The type of the state, for any interleaving, crash or device error.  It  *)
(* includes that a directory to be written fits the buffer that             *)
(* write_superblock allocates for it.                                       *)
TypeOK ==
    /\ super \in SuperBlock
    /\ data \in [DataSectors -> (Contents \cup {Garbage}) \X Nat]
    /\ DOMAIN cache \subseteq Names
    /\ \A n \in DOMAIN cache : cache[n] \in Extent
    /\ boot \in {"down", "repair", "check", "format", "run"}
    /\ pc \in [Clients -> Labels]
    /\ req \in [Clients -> Request \cup {NoRequest}]
    /\ plan \in [Clients -> Plan]
    /\ \A c \in Clients : Len(plan[c].entries) <= MaxFiles
    /\ reply \in [Clients -> Reply]

(* A directory whose files are inside the data region, below next_free and  *)
(* do not share a sector or a name.                                         *)
Sound(es, nf) ==
    /\ Len(es) <= MaxFiles
    /\ DirSectors <= nf /\ nf <= DiskSectors
    /\ \A i \in 1 .. Len(es) :
          /\ DirSectors <= es[i].start
          /\ Finish(es[i]) <= nf
          /\ \A j \in 1 .. Len(es) :
                i # j => /\ es[i].name # es[j].name
                         /\ SectorsOf(es[i]) \cap SectorsOf(es[j]) = {}

(* What the next mount or load will read is a sound directory, however      *)
(* many handlers write it from stale copies and whatever device calls fail, *)
(* as long as no superblock write is torn: parse_superblock checks bounds   *)
(* and names but not overlaps.                                              *)
DirectorySound == Sound(Entries(super), NextFree(super))

(* write_file never overwrites a sector of a file in the directory: the old *)
(* content stays readable until the superblock points to the new one.       *)
LiveDataKept ==
    \A c \in Clients : pc[c] = "data" =>
        \A i \in 1 .. Len(Entries(super)) :
            SectorsOf(plan[c]) \cap SectorsOf(Entries(super)[i]) = {}

(* The files a mount of the disk would find, with what their sectors hold.  *)
FilesOn(sb, d) ==
    LET es == Entries(sb)
    IN  [n \in NamesIn(es) |->
            ContentAt(d, es[CHOOSE i \in 1 .. Len(es) : es[i].name = n])]
Files == FilesOn(super, data)

(* Between two requests the cache is the directory on disk: ls and cat,     *)
(* which never read the directory, answer what a remount would.             *)
CacheCoherent ==
    (boot = "run" /\ \A c \in Clients : pc[c] # "publish")
        => cache = CacheOf(Entries(super))

(* The superblock write of a write or touch, cut anywhere after its first   *)
(* sector, shows for every file the content before it or the one after it.  *)
(* (That of rm does not: it moves the entries behind the removed one.)      *)
TornWriteShowsOldOrNew ==
    \A c \in Clients : pc[c] = "super" /\ req[c].kind # "rm" =>
        \A cut \in 1 .. MaxFiles :
            LET torn == FilesOn(Torn(super, PlannedSuper(c), cut), data)
                new == FilesOn(PlannedSuper(c), data)
            IN  \A n \in DOMAIN Files \cup DOMAIN torn :
                    \/ n \in DOMAIN Files \cap DOMAIN torn /\ torn[n] = Files[n]
                    \/ n \in DOMAIN new \cap DOMAIN torn /\ torn[n] = new[n]

(* The superblock write of rm, cut anywhere, keeps every file listed before *)
(* the removed one.  (Behind it a file may be lost, or show the content of  *)
(* the file in front of it.)                                                *)
TornRemoveKeepsFront ==
    \A c \in Clients : pc[c] = "super" /\ req[c].kind = "rm" =>
        \A cut \in 1 .. MaxFiles :
            LET torn == FilesOn(Torn(super, PlannedSuper(c), cut), data)
                removed == Located(Entries(super), req[c].name)
                front == {i \in 1 .. Len(Entries(super)) : \A j \in removed : i < j}
            IN  \A i \in front :
                    LET n == Entries(super)[i].name
                    IN  n \in DOMAIN torn /\ torn[n] = Files[n]

Submitted(n) ==
    {Body(r) : r \in {q \in UNION {Requests[c] : c \in Clients} :
                        q.kind \in {"write", "touch"} /\ OnDiskName[q.name] = n}}

(* No file of the directory ever holds the data of another file, a mixture  *)
(* of two writes or sectors nobody wrote, whatever was cut short.           *)
FilesHoldTheirData == \A n \in DOMAIN Files : Files[n] \in Submitted(n)

(* "write <file> <msg>" (nano_os/README.md:78): once it answered, and until *)
(* its caller asks for something else, the file on disk has that content,   *)
(* also after a crash.                                                      *)
AckedWriteStored ==
    \A c \in Clients :
        (pc[c] = "idle" /\ req[c].kind = "write" /\ reply[c].result = "ok")
            => LET n == OnDiskName[req[c].name]
               IN  n \in DOMAIN Files /\ Files[n] = req[c].content

(* Mounting, with its repair and its format, loses and changes no file, and *)
(* nor does a mount that is cut short, if the superblock had no slot to     *)
(* drop.  (A repair that drops one moves those behind it, so it is as       *)
(* exposed as rm: cut, it can give a file the content of its neighbour.)    *)
MountKeepsFiles ==
    [][(boot # "run" /\ (boot' # "down" \/ FirstSlots(super) = SlotsRead(super)))
            => FilesOn(super', data') = Files]_vars

(* The superblock that a mount leaves behind needs no repair.               *)
MountLeavesClean == [][(boot # "run" /\ boot' = "run") => ~Dirty(super')]_vars

===============================================================================
