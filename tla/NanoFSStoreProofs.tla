--------------------------- MODULE NanoFSStoreProofs ---------------------------
(***************************************************************************)
(* NanoFS implements FileStore, with one handler that changes files and    *)
(* any that read them: the inductive invariant that ties the cache, the    *)
(* disk and the plans of the handlers to the promised map, and one step of *)
(* that map, or none, for every step of the file system.                   *)
(***************************************************************************)
EXTENDS NanoFSStore, NanoFSProofs

-------------------------------------------------------------------------------
(* Files as functions. *)

CacheFiles(t, d) == [n \in DOMAIN t |-> ContentAt(d, t[n])]

LEMMA FilesOnIsFunction ==
    ASSUME NEW sb, NEW d
    PROVE  FilesOn(sb, d) = [n \in DOMAIN FilesOn(sb, d) |-> FilesOn(sb, d)[n]]
BY DEF FilesOn

(* What a caller sees through a fresh cache is what a mount would find.    *)
LEMMA FreshFiles ==
    ASSUME NEW sb \in SuperBlock, NEW d
    PROVE  CacheFiles(CacheOf(Entries(sb)), d) = FilesOn(sb, d)
<1> DEFINE es == Entries(sb)
<1> DEFINE t == CacheOf(es)
<1>1. Listing(es) /\ DistinctNames(es) /\ \A k \in 1 .. Len(es) : es[k] \in Entry
  <2>1. Listing(es) /\ DistinctNames(es)
    BY EntriesListing, EntriesProperties DEF DistinctNames
  <2>2. \A k \in 1 .. Len(es) : es[k] \in Entry
    <3> HIDE DEF es
    <3> QED BY <2>1 DEF Listing
  <2> QED BY <2>1, <2>2
<1>2. /\ DOMAIN FilesOn(sb, d) = NamesIn(es)
      /\ \A k \in 1 .. Len(es) : FilesOn(sb, d)[es[k].name] = ContentAt(d, es[k])
      /\ FilesOn(sb, d) = [n \in DOMAIN FilesOn(sb, d) |-> FilesOn(sb, d)[n]]
  BY FilesOnProperties, FilesOnIsFunction
<1> HIDE DEF es
<1>3. /\ DOMAIN t = NamesIn(es)
      /\ \A k \in 1 .. Len(es) : t[es[k].name] = [start |-> es[k].start, size |-> es[k].size]
  BY <1>1, CacheOfProperties
<1> HIDE DEF t
<1>4. ASSUME NEW n \in NamesIn(es)
      PROVE  ContentAt(d, t[n]) = FilesOn(sb, d)[n]
  <2>1. PICK k \in 1 .. Len(es) : n = es[k].name
    BY DEF NamesIn
  <2>2. OnDisk(es[k])
    <3>1. es[k] \in Entry
      BY <1>1
    <3> QED BY <3>1 DEF Entry, OnDisk
  <2>3. ContentAt(d, es[k]) = ContentAt(d, t[n])
    <3>1. t[n] = [start |-> es[k].start, size |-> es[k].size]
      BY <1>3, <2>1
    <3>2. es[k].start = t[n].start /\ es[k].size = t[n].size
      BY <3>1
    <3> QED BY <2>2, <3>2, ContentAtSame
  <2> QED BY <1>2, <2>1, <2>3
<1>5. CacheFiles(t, d) = [n \in NamesIn(es) |-> ContentAt(d, t[n])]
  BY <1>3 DEF CacheFiles
<1> QED BY <1>2, <1>4, <1>5 DEF t, es

(* The change that a request makes to a map of files. *)
Changed(r, f, g) ==
    IF r.kind = "rm"
    THEN r.name \in DOMAIN f /\ g = Store!Without(f, r.name)
    ELSE r.kind \in {"write", "touch"} /\ g = Store!With(f, r.name, Body(r))

LEMMA PlaceChanges ==
    ASSUME NEW sb \in SuperBlock, NEW tb \in SuperBlock, NEW w \in Entry, NEW d,
           Entries(tb) = Place(Entries(sb), w)
    PROVE  FilesOn(tb, d) = Store!With(FilesOn(sb, d), w.name, ContentAt(d, w))
<1> DEFINE es == Entries(sb)
<1> DEFINE l == Place(es, w)
<1> DEFINE f == FilesOn(sb, d)
<1> DEFINE g == FilesOn(tb, d)
<1>1. Listing(es) /\ DistinctNames(es)
  BY EntriesListing, EntriesProperties DEF DistinctNames
<1>2. /\ DOMAIN f = NamesIn(es)
      /\ \A k \in 1 .. Len(es) : f[es[k].name] = ContentAt(d, es[k])
  BY FilesOnProperties
<1>3. /\ DOMAIN g = NamesIn(l)
      /\ \A k \in 1 .. Len(l) : g[l[k].name] = ContentAt(d, l[k])
      /\ g = [n \in DOMAIN g |-> g[n]]
  BY FilesOnProperties, FilesOnIsFunction
<1> HIDE DEF es, f, g
<1>4. /\ \A k \in 1 .. Len(l) : l[k] = w \/ (k \in 1 .. Len(es) /\ l[k] = es[k] /\ es[k].name # w.name)
      /\ \E k \in 1 .. Len(l) : l[k] = w
      /\ \A i \in 1 .. Len(es) : es[i].name # w.name => i \in 1 .. Len(l) /\ l[i] = es[i]
  BY <1>1, PlaceProperties
<1> HIDE DEF l
<1>5. NamesIn(l) = NamesIn(es) \cup {w.name}
  BY <1>4 DEF NamesIn
<1>6. g[w.name] = ContentAt(d, w)
  BY <1>3, <1>4
<1>7. ASSUME NEW n \in NamesIn(es), n # w.name PROVE g[n] = f[n]
  BY <1>2, <1>3, <1>4, <1>7 DEF NamesIn
<1>8. g = [n \in DOMAIN f \cup {w.name} |-> IF n = w.name THEN ContentAt(d, w) ELSE f[n]]
  BY <1>2, <1>3, <1>5, <1>6, <1>7
<1> QED BY <1>8 DEF Store!With, es, l, f, g

LEMMA KeptChanges ==
    ASSUME NEW sb \in SuperBlock, NEW tb \in SuperBlock, NEW name, NEW d,
           Entries(tb) = Kept(Entries(sb), name)
    PROVE  FilesOn(tb, d) = Store!Without(FilesOn(sb, d), name)
<1> DEFINE es == Entries(sb)
<1> DEFINE l == Kept(es, name)
<1> DEFINE f == FilesOn(sb, d)
<1> DEFINE g == FilesOn(tb, d)
<1>1. Listing(es) /\ DistinctNames(es)
  BY EntriesListing, EntriesProperties DEF DistinctNames
<1>2. /\ DOMAIN f = NamesIn(es)
      /\ \A k \in 1 .. Len(es) : f[es[k].name] = ContentAt(d, es[k])
  BY FilesOnProperties
<1>3. /\ DOMAIN g = NamesIn(l)
      /\ \A k \in 1 .. Len(l) : g[l[k].name] = ContentAt(d, l[k])
      /\ g = [n \in DOMAIN g |-> g[n]]
  BY FilesOnProperties, FilesOnIsFunction
<1> HIDE DEF es, f, g
<1>4. /\ \A k \in 1 .. Len(l) : \E i \in 1 .. Len(es) : l[k] = es[i] /\ es[i].name # name
      /\ \A i \in 1 .. Len(es) : es[i].name # name => \E k \in 1 .. Len(l) : l[k] = es[i]
  BY <1>1, KeptProperties
<1> HIDE DEF l
<1>5. NamesIn(l) = NamesIn(es) \ {name}
  <2>1. \A k \in 1 .. Len(l) : l[k].name # name /\ \E i \in 1 .. Len(es) : l[k].name = es[i].name
    BY <1>4
  <2>2. \A i \in 1 .. Len(es) : es[i].name # name =>
           \E k \in 1 .. Len(l) : l[k].name = es[i].name
    BY <1>4
  <2>3. ASSUME NEW n \in NamesIn(l) PROVE n \in NamesIn(es) \ {name}
    BY <2>1 DEF NamesIn
  <2>4. ASSUME NEW n \in NamesIn(es), n # name PROVE n \in NamesIn(l)
    BY <2>2, <2>4 DEF NamesIn
  <2> QED BY <2>3, <2>4
<1>6. ASSUME NEW n \in NamesIn(l) PROVE g[n] = f[n]
  <2>1. PICK k \in 1 .. Len(l) : n = l[k].name
    BY DEF NamesIn
  <2>2. PICK i \in 1 .. Len(es) : l[k] = es[i]
    BY <1>4
  <2> QED BY <1>2, <1>3, <2>1, <2>2
<1>7. g = [n \in DOMAIN f \ {name} |-> f[n]]
  BY <1>2, <1>3, <1>5, <1>6
<1> QED BY <1>7 DEF Store!Without, es, l, f, g

(* A superblock write makes the change of its request to the files on disk. *)
LEMMA PlanChanges ==
    ASSUME ShortNames, WriterInv, NEW c \in Clients, pc[c] = "super"
    PROVE  Changed(req[c], FilesOn(super, data), FilesOn(PlannedSuper(c), data))
<1> DEFINE tb == PlannedSuper(c)
<1>1. /\ super \in SuperBlock /\ tb \in SuperBlock /\ req[c] \in Request
      /\ Entries(tb) = plan[c].entries
      /\ \/ RemovePlan(req[c], super, plan[c])
         \/ WritePlan(req[c], super, plan[c]) /\ Holds(data, plan[c], Body(req[c]))
  BY WrittenSupers, PlannedEntries DEF WriterInv, TypeInv, TypeOK, Serving, Plans
<1> HIDE DEF tb
<1>2. CASE RemovePlan(req[c], super, plan[c])
  <2>1. FilesOn(tb, data) = Store!Without(FilesOn(super, data), req[c].name)
    BY <1>1, <1>2, KeptChanges DEF RemovePlan
  <2>2. req[c].name \in DOMAIN FilesOn(super, data)
    BY <1>1, <1>2, FilesOnProperties DEF RemovePlan, Located, NamesIn
  <2> QED BY <1>2, <2>1, <2>2 DEF Changed, RemovePlan, tb
<1>3. CASE WritePlan(req[c], super, plan[c]) /\ Holds(data, plan[c], Body(req[c]))
  <2> DEFINE w == Written(req[c], super)
  <2>1. /\ w \in Entry /\ w.name = req[c].name /\ OnDisk(w) /\ Body(req[c]) \in Contents
        /\ plan[c].entries = Place(Entries(super), w)
        /\ plan[c].start = w.start /\ plan[c].size = w.size /\ OnDisk(plan[c])
    BY <1>1, <1>3, WrittenProperties, PlanProperties
  <2> HIDE DEF w
  <2>2. ContentAt(data, w) = Body(req[c])
    <3>1. ContentAt(data, plan[c]) = Body(req[c])
      BY <1>3, <2>1, ContentAtIs
    <3> QED BY <2>1, <3>1, ContentAtSame
  <2>3. FilesOn(tb, data) = Store!With(FilesOn(super, data), req[c].name, Body(req[c]))
    BY <1>1, <2>1, <2>2, PlaceChanges
  <2> QED BY <1>3, <2>3 DEF Changed, WritePlan, tb
<1> QED BY <1>1, <1>2, <1>3

-------------------------------------------------------------------------------
(* The invariant.                                                          *)

(* An extent that no write can reach: it ends where the space that is given *)
(* away next begins, or before.                                             *)
Placed(e, sb) == OnDisk(e) /\ DirSectors <= e.start /\ Finish(e) <= NextFree(sb)

Publishing == {c \in Clients : pc[c] = "publish"}

RunFormatted == boot = "run" => super.formatted
Quiet == \A c \in Clients : pc[c] # "idle" => reply[c] = NoReply

LEMMA FinishNat ==
    ASSUME NEW e, OnDisk(e)
    PROVE  Finish(e) \in Nat
BY SectorsNat DEF OnDisk, Finish

(* A file that is still listed ends where the cache has it, or further on:  *)
(* what replaces it is written behind it.                                   *)
Rooted(e) == OnDisk(e) /\ DirSectors <= e.start
NotBefore(e, n) ==
    \A k \in 1 .. Len(Entries(super)) :
        Entries(super)[k].name = n => Finish(e) <= Finish(Entries(super)[k])
CacheGrows ==
    boot = "run" => \A n \in DOMAIN cache : Rooted(cache[n]) /\ NotBefore(cache[n], n)
TouchesNew ==
    \A c \in Clients :
        pc[c] \in Writing /\ req[c].kind = "touch" => req[c].name \notin DOMAIN cache
PublishesChange ==
    \A c \in Publishing : Changed(req[c], CacheFiles(cache, data), FilesOn(super, data))

CoreInv ==
    /\ CacheInv /\ RunFormatted /\ Quiet /\ CacheGrows /\ TouchesNew /\ PublishesChange

(* What the invariants in it say of the state. *)
LEMMA CoreFacts ==
    ASSUME CoreInv
    PROVE  /\ TypeInv /\ WriterInv /\ BootInv /\ Serves /\ DataType
           /\ super \in SuperBlock /\ NamesCut(super)
           /\ pc \in [Clients -> Labels] /\ plan \in [Clients -> Plan]
           /\ req \in [Clients -> Request \cup {NoRequest}] /\ reply \in [Clients -> Reply]
           /\ \A c \in Clients : pc[c] # "idle" => req[c] \in Request /\ req[c] \in Requests[c]
           /\ boot # "run" => \A c \in Clients : pc[c] = "idle"
           /\ boot = "run" => CacheFresh \/ Publishing # {}
BY DEF CoreInv, CacheInv, WriterInv, BootInv, TypeInv, TypeOK, Serving, Serves, DataType, Publishing

(* The extents of a fresh cache are those of the entries. *)
LEMMA FreshPlaced ==
    ASSUME NEW sb \in SuperBlock, NEW n \in DOMAIN CacheOf(Entries(sb))
    PROVE  /\ Placed(CacheOf(Entries(sb))[n], sb)
           /\ \A k \in 1 .. Len(Entries(sb)) : Entries(sb)[k].name = n =>
                 Finish(CacheOf(Entries(sb))[n]) = Finish(Entries(sb)[k])
           /\ \E k \in 1 .. Len(Entries(sb)) : Entries(sb)[k].name = n
<1> DEFINE es == Entries(sb)
<1> DEFINE t == CacheOf(es)
<1>1. Listing(es) /\ DistinctNames(es)
  BY EntriesListing, EntriesProperties DEF DistinctNames
<1>2. \A k \in 1 .. Len(es) : Placed(es[k], sb)
  BY EntriesPlaced DEF Placed
<1> HIDE DEF es
<1>3. /\ DOMAIN t = NamesIn(es)
      /\ \A k \in 1 .. Len(es) : t[es[k].name] = [start |-> es[k].start, size |-> es[k].size]
  BY <1>1, CacheOfProperties
<1>4. n \in DOMAIN t
  BY DEF es
<1> HIDE DEF t
<1>5. ASSUME NEW k \in 1 .. Len(es), es[k].name = n
      PROVE  /\ t[n].start = es[k].start /\ t[n].size = es[k].size /\ Finish(t[n]) = Finish(es[k])
  <2>1. t[n] = [start |-> es[k].start, size |-> es[k].size]
    BY <1>3, <1>5
  <2>2. t[n].start = es[k].start /\ t[n].size = es[k].size
    BY <2>1
  <2> QED BY <2>2 DEF Finish
<1>6. PICK k \in 1 .. Len(es) : es[k].name = n
  BY <1>3, <1>4 DEF NamesIn
<1>7. Placed(t[n], sb)
  <2>1. Placed(es[k], sb) /\ t[n].start = es[k].start /\ t[n].size = es[k].size
        /\ Finish(t[n]) = Finish(es[k])
    BY <1>2, <1>5, <1>6
  <2> QED BY <2>1 DEF Placed, OnDisk
<1> QED BY <1>5, <1>6, <1>7 DEF t, es

(* No step changes a placed extent. *)
LEMMA PlacedKept ==
    ASSUME CoreInv, Cuts = {}, [Next]_vars, NEW e, Placed(e, super)
    PROVE  (\A s \in SectorsOf(e) : data'[s] = data[s]) /\ ContentAt(data', e) = ContentAt(data, e)
<1>1. \A s \in SectorsOf(e) : data'[s] = data[s]
  <2>1. CASE UNCHANGED data
    BY <2>1
  <2>2. ASSUME NEW c \in Clients, pc[c] = "data", NEW some \in SUBSET SectorsOf(plan[c]),
               data' = WithPieces(Body(req[c]), plan[c].start, some)
        PROVE  \A s \in SectorsOf(e) : data'[s] = data[s]
    BY <2>2, DataKept, CoreFacts DEF Placed
  <2> QED BY <2>1, <2>2, DiskStep
<1> QED BY <1>1, ContentAtSame DEF Placed

LEMMA FilesKept ==
    ASSUME CoreInv, Cuts = {}, [Next]_vars
    PROVE  FilesOn(super, data') = FilesOn(super, data)
<1>1. super \in SuperBlock
  BY CoreFacts
<1>2. \A k \in 1 .. Len(Entries(super)) : Placed(Entries(super)[k], super)
  BY <1>1, EntriesPlaced DEF Placed
<1>3. \A k \in 1 .. Len(Entries(super)) :
         \A s \in SectorsOf(Entries(super)[k]) : data'[s] = data[s]
  BY <1>2, PlacedKept
<1> QED BY <1>1, <1>3, FilesOnSame

(* What a step of one part of the system leaves alone. *)
LEMMA MountFrame ==
    ASSUME CoreInv, Mount
    PROVE  /\ boot # "run" /\ UNCHANGED <<data, pc, req, plan, reply>>
           /\ \A c \in Clients : pc[c] = "idle" /\ pc'[c] = "idle"
<1>1. boot # "run" /\ UNCHANGED <<data, pc, req, plan, reply>>
  BY DEF Mount, Connect, Repair, Check, Format, disk, handlers
<1> QED BY <1>1, CoreFacts

LEMMA HandlerFrame ==
    ASSUME CoreInv, NEW c \in Clients, Handler(c)
    PROVE  /\ boot = "run" /\ boot' = "run"
           /\ \A d \in Clients \ {c} : /\ pc'[d] = pc[d] /\ req'[d] = req[d]
                                       /\ plan'[d] = plan[d] /\ reply'[d] = reply[d]
<1>1. /\ boot' = boot /\ (boot = "run" \/ pc[c] # "idle")
      /\ \A d \in Clients \ {c} : /\ pc'[d] = pc[d] /\ req'[d] = req[d]
                                  /\ plan'[d] = plan[d] /\ reply'[d] = reply[d]
  BY CoreFacts DEF Handler, Start, Load, PlanWrite, PlanDelete, WriteData, WriteSuper, Publish,
                   Fetch, Goto, Fail, Answer
<1> QED BY <1>1, CoreFacts

(* While one handler writes, the others only read. *)
LEMMA ReaderFrame ==
    ASSUME OneWriter, CoreInv, NEW c \in Clients, Handler(c),
           NEW d \in Clients \ {c}, pc[d] \in Writing
    PROVE  UNCHANGED <<super, data, cache>>
<1>1. pc[c] \notin Writing
  BY WriterAlone, CoreFacts
<1> QED BY <1>1 DEF Handler, Start, Load, WriteData, WriteSuper, Publish, Fetch, disk, Writing

LEMMA RunFormattedStep ==
    ASSUME Faults = {}, CoreInv, [Next]_vars
    PROVE  RunFormatted'
<1>1. super' = super \/ super'.formatted
  BY SuperStep, CoreFacts
<1>2. CASE boot = "run"
  BY <1>1, <1>2 DEF CoreInv, RunFormatted
<1>3. ASSUME boot # "run", boot' = "run" PROVE super'.formatted
  <2>1. ~\E c \in Clients : Handler(c)
    BY <1>3, HandlerFrame
  <2>2. CASE Mount
    BY <1>3, <2>2 DEF Mount, Connect, Repair, Check, Format, disk, FreshSuper, SuperOf, update_cache
  <2>3. CASE Crash
    BY <1>3, <2>3 DEF Crash, Reset
  <2>4. CASE UNCHANGED vars
    BY <1>3, <2>4 DEF vars
  <2> QED BY <2>1, <2>2, <2>3, <2>4 DEF Next
<1> QED BY <1>2, <1>3 DEF RunFormatted

LEMMA QuietStep ==
    ASSUME CoreInv, [Next]_vars
    PROVE  Quiet'
<1>1. CASE Mount
  BY <1>1, MountFrame DEF Quiet
<1>2. CASE Crash
  BY <1>2 DEF Crash, Reset, Quiet
<1>3. ASSUME NEW c \in Clients, Handler(c) PROVE Quiet'
  <2>1. pc'[c] # "idle" => reply'[c] = NoReply
    <3>1. \/ pc' = [pc EXCEPT ![c] = "idle"]
          \/ reply' = [reply EXCEPT ![c] = NoReply]
      BY <1>3 DEF Handler, Start, Load, PlanWrite, PlanDelete, WriteData, WriteSuper,
                  Publish, Fetch, Goto, Fail, Answer
    <3> QED BY <3>1, CoreFacts
  <2> QED BY <1>3, <2>1, HandlerFrame DEF CoreInv, Quiet
<1>4. CASE UNCHANGED vars
  BY <1>4 DEF vars, CoreInv, Quiet
<1> QED BY <1>1, <1>2, <1>3, <1>4 DEF Next

LEMMA TouchesNewStep ==
    ASSUME OneWriter, CoreInv, [Next]_vars
    PROVE  TouchesNew'
<1>1. CASE Mount
  BY <1>1, MountFrame DEF TouchesNew, Writing
<1>2. CASE Crash
  BY <1>2 DEF Crash, Reset, TouchesNew, Writing
<1>3. ASSUME NEW c \in Clients, Handler(c) PROVE TouchesNew'
  <2>1. ASSUME NEW d \in Clients \ {c}, pc'[d] \in Writing, req'[d].kind = "touch"
        PROVE  req'[d].name \notin DOMAIN cache'
    BY <1>3, <2>1, HandlerFrame, ReaderFrame DEF CoreInv, TouchesNew
  <2>2. ASSUME pc'[c] \in Writing, req'[c].kind = "touch"
        PROVE  req'[c].name \notin DOMAIN cache'
    <3>1. CASE \E r \in Requests[c] : Start(c, r)
      BY <2>2, <3>1, CoreFacts DEF Start, Goto, Fail, Answer, Writing
    <3>2. CASE Load(c) \/ WriteData(c) \/ WriteSuper(c)
      <4>1. pc[c] \in Writing /\ req' = req /\ cache' = cache
        BY <3>2 DEF Load, WriteData, WriteSuper, Writing
      <4> QED BY <2>2, <4>1 DEF CoreInv, TouchesNew
    <3>3. CASE Publish(c) \/ Fetch(c)
      BY <2>2, <3>3, CoreFacts DEF Publish, Fetch, Fail, Answer, Writing
    <3> QED BY <1>3, <3>1, <3>2, <3>3 DEF Handler
  <2> QED BY <2>1, <2>2 DEF TouchesNew
<1>4. CASE UNCHANGED vars
  BY <1>4 DEF vars, CoreInv, TouchesNew
<1> QED BY <1>1, <1>2, <1>3, <1>4 DEF Next

(* A superblock write starts from a fresh cache. *)
LEMMA WritesFromFresh ==
    ASSUME OneWriter, CoreInv, NEW c \in Clients, pc[c] \in {"load", "data", "super"}
    PROVE  boot = "run" /\ Publishing = {} /\ CacheFresh
<1>1. Publishing = {}
  BY WriterAlone, CoreFacts DEF Publishing, Writing
<1> QED BY <1>1, CoreFacts

LEMMA SuperWritten ==
    ASSUME CoreInv, Faults = {}, NEW c \in Clients, Handler(c), pc'[c] = "publish"
    PROVE  /\ pc[c] = "super" /\ super' = PlannedSuper(c)
           /\ UNCHANGED <<data, cache, req>>
<1>1. ~(\E r \in Requests[c] : Start(c, r)) /\ ~Load(c) /\ ~WriteData(c) /\ ~Publish(c) /\ ~Fetch(c)
  BY CoreFacts DEF Start, Load, PlanWrite, PlanDelete, WriteData, Publish, Fetch, Goto, Fail, Answer
<1> QED BY <1>1 DEF Handler, WriteSuper

LEMMA PublishesChangeStep ==
    ASSUME OneWriter, ShortNames, Faults = {}, CoreInv, [Next]_vars
    PROVE  PublishesChange'
<1>1. CASE Mount
  BY <1>1, MountFrame DEF PublishesChange, Publishing
<1>2. CASE Crash
  BY <1>2 DEF Crash, Reset, PublishesChange, Publishing
<1>3. ASSUME NEW c \in Clients, Handler(c) PROVE PublishesChange'
  <2>1. ASSUME NEW d \in Clients \ {c}, pc'[d] = "publish"
        PROVE  Changed(req'[d], CacheFiles(cache', data'), FilesOn(super', data'))
    <3>1. pc[d] = "publish" /\ req'[d] = req[d]
      BY <1>3, <2>1, HandlerFrame
    <3>2. UNCHANGED <<super, data, cache>>
      BY <1>3, <3>1, ReaderFrame DEF Writing
    <3> QED BY <3>1, <3>2 DEF CoreInv, PublishesChange, Publishing
  <2>2. ASSUME pc'[c] = "publish"
        PROVE  Changed(req'[c], CacheFiles(cache', data'), FilesOn(super', data'))
    <3>1. pc[c] = "super" /\ super' = PlannedSuper(c) /\ UNCHANGED <<data, cache, req>>
      BY <1>3, <2>2, SuperWritten
    <3>2. CacheFiles(cache, data) = FilesOn(super, data)
      BY <3>1, WritesFromFresh, FreshFiles, CoreFacts DEF CacheFresh
    <3>3. Changed(req[c], FilesOn(super, data), FilesOn(PlannedSuper(c), data))
      BY <3>1, PlanChanges, CoreFacts
    <3> QED BY <3>1, <3>2, <3>3
  <2> QED BY <2>1, <2>2 DEF PublishesChange, Publishing
<1>4. CASE UNCHANGED vars
  BY <1>4 DEF vars, CoreInv, PublishesChange, Publishing
<1> QED BY <1>1, <1>2, <1>3, <1>4 DEF Next

(* The directory that a superblock write lays out has entries that were     *)
(* there, and the one that is written, behind all of them.                  *)
LEMMA PlannedEntry ==
    ASSUME OneWriter, ShortNames, CoreInv, NEW c \in Clients, pc[c] = "super",
           NEW k \in 1 .. Len(Entries(PlannedSuper(c)))
    PROVE  \/ \E i \in 1 .. Len(Entries(super)) : Entries(PlannedSuper(c))[k] = Entries(super)[i]
           \/ /\ Entries(PlannedSuper(c))[k].start = NextFree(super)
              /\ OnDisk(Entries(PlannedSuper(c))[k])
<1> DEFINE es == Entries(super)
<1> DEFINE l == Entries(PlannedSuper(c))
<1>1. /\ super \in SuperBlock /\ req[c] \in Request /\ l = plan[c].entries
      /\ RemovePlan(req[c], super, plan[c]) \/ WritePlan(req[c], super, plan[c])
  BY PlannedEntries, CoreFacts DEF WriterInv, TypeInv, Serving, Plans
<1>2. Listing(es) /\ DistinctNames(es)
  BY <1>1, EntriesListing, EntriesProperties DEF DistinctNames
<1>3. CASE RemovePlan(req[c], super, plan[c])
  <2>1. l = Kept(es, req[c].name)
    BY <1>1, <1>3 DEF RemovePlan
  <2> HIDE DEF l, es
  <2>2. \E i \in 1 .. Len(es) : l[k] = es[i]
    BY <1>2, <2>1, KeptProperties DEF l
  <2> QED BY <2>2 DEF l, es
<1>4. CASE WritePlan(req[c], super, plan[c])
  <2> DEFINE w == Written(req[c], super)
  <2>1. l = Place(es, w) /\ w \in Entry /\ w.start = NextFree(super) /\ OnDisk(w)
    BY <1>1, <1>4, PlanProperties, WrittenProperties
  <2> HIDE DEF l, es, w
  <2>2. l[k] = w \/ \E i \in 1 .. Len(es) : l[k] = es[i]
    BY <1>2, <2>1, PlaceProperties DEF l
  <2> QED BY <2>1, <2>2 DEF l, es
<1> QED BY <1>1, <1>3, <1>4

LEMMA CacheGrowsStep ==
    ASSUME OneWriter, ShortNames, Faults = {}, CoreInv, [Next]_vars, CacheInv'
    PROVE  CacheGrows'
<1> SUFFICES ASSUME boot' = "run", NEW n \in DOMAIN cache'
             PROVE  /\ Rooted(cache'[n])
                    /\ \A k \in 1 .. Len(Entries(super')) :
                          Entries(super')[k].name = n => Finish(cache'[n]) <= Finish(Entries(super')[k])
  BY DEF CacheGrows, NotBefore
<1>1. CASE cache' = CacheOf(Entries(super'))
  <2>1. super' \in SuperBlock
    BY DEF CacheInv, WriterInv, TypeInv, TypeOK
  <2>2. Placed(cache'[n], super') /\ \A k \in 1 .. Len(Entries(super')) :
           Entries(super')[k].name = n => Finish(cache'[n]) = Finish(Entries(super')[k])
    BY <1>1, <2>1, FreshPlaced
  <2>3. Finish(cache'[n]) \in Nat
    BY <2>2, FinishNat DEF Placed
  <2> QED BY <2>2, <2>3 DEF Placed, Rooted
<1>2. CASE cache' # CacheOf(Entries(super'))
  <2>1. PICK c \in Clients : pc'[c] = "publish"
    BY <1>2 DEF CacheInv, CacheFresh
  <2>2. ~Mount /\ ~Crash
    BY <2>1, MountFrame DEF Crash, Reset
  <2>3. ASSUME NEW d \in Clients \ {c}, Handler(d)
        PROVE  boot = "run" /\ UNCHANGED <<super, cache>>
    <3>1. pc[c] = "publish" /\ boot = "run"
      BY <2>1, <2>3, HandlerFrame
    <3> QED BY <2>3, <3>1, ReaderFrame DEF Writing
  <2>4. ASSUME boot = "run", UNCHANGED <<super, cache>>
        PROVE  /\ Rooted(cache'[n])
               /\ \A k \in 1 .. Len(Entries(super')) :
                     Entries(super')[k].name = n => Finish(cache'[n]) <= Finish(Entries(super')[k])
    BY <2>4 DEF CoreInv, CacheGrows, NotBefore
  <2>5. ASSUME Handler(c)
        PROVE  /\ Rooted(cache'[n])
               /\ \A k \in 1 .. Len(Entries(super')) :
                     Entries(super')[k].name = n => Finish(cache'[n]) <= Finish(Entries(super')[k])
    <3>1. pc[c] = "super" /\ super' = PlannedSuper(c) /\ UNCHANGED <<data, cache, req>>
      BY <2>1, <2>5, SuperWritten
    <3>2. boot = "run" /\ CacheFresh
      BY <3>1, WritesFromFresh
    <3>3. Rooted(cache[n]) /\ NotBefore(cache[n], n)
      BY <3>1, <3>2 DEF CoreInv, CacheGrows
    <3>4. Placed(cache[n], super)
      BY <3>1, <3>2, FreshPlaced, CoreFacts DEF CacheFresh
    <3>5. ASSUME NEW k \in 1 .. Len(Entries(super')), Entries(super')[k].name = n
          PROVE  Finish(cache[n]) <= Finish(Entries(super')[k])
      <4>1. CASE \E i \in 1 .. Len(Entries(super)) : Entries(super')[k] = Entries(super)[i]
        BY <3>3, <3>5, <4>1 DEF NotBefore
      <4>2. CASE Entries(super')[k].start = NextFree(super) /\ OnDisk(Entries(super')[k])
        <5>1. sectors_for_size(Entries(super')[k].size) \in Nat
          BY <4>2, SectorsNat DEF OnDisk
        <5>2. Finish(cache[n]) \in Nat /\ NextFree(super) \in Nat
          BY <3>4, CoreFacts, EntriesPlaced, FinishNat DEF Placed
        <5>3. Finish(Entries(super')[k]) = NextFree(super) + sectors_for_size(Entries(super')[k].size)
          BY <4>2 DEF Finish
        <5>4. Finish(cache[n]) <= NextFree(super)
          BY <3>4 DEF Placed
        <5> QED BY <5>1, <5>2, <5>3, <5>4
      <4> QED BY <3>1, <4>1, <4>2, PlannedEntry
    <3> QED BY <3>1, <3>3, <3>5
  <2>6. CASE UNCHANGED vars
    BY <2>4, <2>6 DEF vars
  <2> QED BY <2>2, <2>3, <2>4, <2>5, <2>6 DEF Next
<1> QED BY <1>1, <1>2

LEMMA CoreStep ==
    ASSUME OneWriter, ShortNames, Faults = {}
    PROVE  CoreInv /\ [Next]_vars => CoreInv'
<1> SUFFICES ASSUME CoreInv, [Next]_vars PROVE CoreInv'
  OBVIOUS
<1>1. CacheInv'
  BY CacheStep DEF CoreInv
<1>2. RunFormatted' /\ Quiet' /\ TouchesNew' /\ PublishesChange'
  BY RunFormattedStep, QuietStep, TouchesNewStep, PublishesChangeStep
<1>3. CacheGrows'
  BY <1>1, CacheGrowsStep
<1> QED BY <1>1, <1>2, <1>3 DEF CoreInv

LEMMA CoreInit == Init => CoreInv
<1> SUFFICES ASSUME Init PROVE CoreInv
  OBVIOUS
<1>1. CacheInv
  BY WriterInit, BootInit DEF CacheInv, Init
<1>2. RunFormatted /\ Quiet /\ CacheGrows /\ TouchesNew /\ PublishesChange
  BY DEF Init, RunFormatted, Quiet, CacheGrows, TouchesNew, PublishesChange, Publishing, Writing
<1> QED BY <1>1, <1>2 DEF CoreInv

-------------------------------------------------------------------------------
(* The refinement.                                                         *)

History ==
    /\ files = Visible(boot, cache, super, data)
    /\ call = Calls(pc, req)
    /\ shown = [c \in Clients |-> shown[c]]
    /\ \A c \in Clients : ~Store!Reading(call[c]) => shown[c] = {}

(* A cat whose file was not removed since its call: the sectors it will    *)
(* read end where the file ends now, or before.                            *)
ReadSafe(c) ==
    /\ Rooted(plan[c]) /\ req[c].name \in DOMAIN cache
    /\ Finish(plan[c]) <= Finish(cache[req[c].name])
    /\ shown[c] = {ContentAt(data, plan[c])}
ReadsShown ==
    \A c \in Clients : pc[c] = "fetch" => shown[c] = Store!Anything \/ ReadSafe(c)

StoreInv == CoreInv /\ History /\ ReadsShown

(* What the mapping makes of the state of one caller. *)
LEMMA MappedCall ==
    ASSUME StoreInv, NEW c \in Clients
    PROVE  /\ call[c] = IF pc[c] = "idle" THEN NoRequest ELSE req[c]
           /\ Store!Reading(call[c]) <=> pc[c] = "fetch"
           /\ DOMAIN call = Clients /\ call = [call EXCEPT ![c] = call[c]]
<1>1. call = [d \in Clients |-> IF pc[d] = "idle" THEN NoRequest ELSE req[d]]
  BY DEF StoreInv, History, Calls
<1>2. call[c] = IF pc[c] = "idle" THEN NoRequest ELSE req[c]
  BY <1>1
<1>3. pc[c] \in Labels /\ pc[c] # "idle" => req[c] \in Request
  BY CoreFacts DEF StoreInv
<1>4. /\ pc[c] = "fetch" => req[c].kind = "cat"
      /\ pc[c] \in Writing => req[c].kind # "cat"
  BY CoreFacts DEF StoreInv, Serves
<1>5. ASSUME pc[c] = "idle" PROVE ~Store!Reading(call[c])
  BY <1>2, <1>5 DEF Store!Reading
<1>6. ASSUME pc[c] = "fetch" PROVE Store!Reading(call[c])
  <2>1. call[c] = req[c] /\ req[c].kind = "cat"
    BY <1>2, <1>4, <1>6
  <2> QED BY <1>6, <2>1 DEF Store!Reading, NoRequest
<1>7. ASSUME pc[c] \in Writing PROVE ~Store!Reading(call[c])
  <2>1. call[c] = req[c] /\ req[c].kind # "cat"
    BY <1>2, <1>4, <1>7 DEF Writing
  <2> QED BY <2>1 DEF Store!Reading
<1>8. pc[c] = "idle" \/ pc[c] = "fetch" \/ pc[c] \in Writing
  BY <1>3, CoreFacts DEF StoreInv, Labels, Writing
<1>9. DOMAIN call = Clients /\ call = [call EXCEPT ![c] = call[c]]
  BY <1>1
<1>10. Store!Reading(call[c]) <=> pc[c] = "fetch"
  <2>1. CASE pc[c] = "idle"
    BY <1>5, <2>1
  <2>2. CASE pc[c] = "fetch"
    BY <1>6, <2>2
  <2>3. CASE pc[c] \in Writing
    BY <1>7, <2>3 DEF Writing
  <2> QED BY <1>8, <2>1, <2>2, <2>3
<1> QED BY <1>2, <1>9, <1>10

(* The files that callers see follow the disk, but for the time between a   *)
(* superblock write and its update_cache.                                   *)
LEMMA VisibleFresh ==
    ASSUME CoreInv, boot # "run" \/ Publishing = {}
    PROVE  Visible(boot, cache, super, data) = FilesOn(super, data)
<1>1. CASE boot # "run"
  BY <1>1 DEF Visible
<1>2. CASE boot = "run"
  <2>1. CacheFresh /\ super \in SuperBlock
    BY <1>2, CoreFacts
  <2> QED BY <1>2, <2>1, FreshFiles DEF Visible, CacheFiles, CacheFresh
<1> QED BY <1>1, <1>2

LEMMA VisibleRun ==
    ASSUME boot = "run"
    PROVE  Visible(boot, cache, super, data) = CacheFiles(cache, data)
BY DEF Visible, CacheFiles

(* The next state, seen the same way. *)
LEMMA VisibleNext ==
    ASSUME CoreInv'
    PROVE  /\ boot' # "run" \/ Publishing' = {} =>
                 Visible(boot', cache', super', data') = FilesOn(super', data')
           /\ boot' = "run" => Visible(boot', cache', super', data') = CacheFiles(cache', data')
<1>1. CASE boot' # "run"
  BY <1>1 DEF Visible
<1>2. CASE boot' = "run"
  <2>1. super' \in SuperBlock
    BY DEF CoreInv, CacheInv, WriterInv, TypeInv, TypeOK
  <2>2. Publishing' = {} => cache' = CacheOf(Entries(super'))
    BY <1>2 DEF CoreInv, CacheInv, CacheFresh, Publishing
  <2> QED BY <1>2, <2>1, <2>2, FreshFiles DEF Visible, CacheFiles
<1> QED BY <1>1, <1>2

(* A step of one handler changes its own call only. *)
LEMMA CallsOf ==
    ASSUME History, History', NEW c \in Clients,
           \A d \in Clients \ {c} : pc'[d] = pc[d] /\ req'[d] = req[d]
    PROVE  call' = [call EXCEPT ![c] = IF pc'[c] = "idle" THEN NoRequest ELSE req'[c]]
<1>1. call = [d \in Clients |-> IF pc[d] = "idle" THEN NoRequest ELSE req[d]]
  BY DEF History, Calls
<1>2. call' = [d \in Clients |-> IF pc'[d] = "idle" THEN NoRequest ELSE req'[d]]
  BY DEF History, Calls
<1> QED BY <1>1, <1>2

(* What a cat whose file is there will read is not written. *)
LEMMA ReadUndisturbed ==
    ASSUME OneWriter, Cuts = {}, StoreInv, [Next]_vars, NEW c \in Clients, pc[c] = "fetch", ReadSafe(c)
    PROVE  ContentAt(data', plan[c]) = ContentAt(data, plan[c])
<1>1. CASE UNCHANGED data
  BY <1>1
<1>2. ASSUME NEW w \in Clients, pc[w] = "data", NEW some \in SUBSET SectorsOf(plan[w]),
             data' = WithPieces(Body(req[w]), plan[w].start, some)
      PROVE  ContentAt(data', plan[c]) = ContentAt(data, plan[c])
  <2> DEFINE e == cache[req[c].name]
  <2>1. CacheFresh /\ CoreInv
    BY <1>2, WritesFromFresh DEF StoreInv
  <2>2. Placed(e, super)
    BY <2>1, FreshPlaced, CoreFacts DEF CacheFresh, ReadSafe
  <2>3. Finish(plan[c]) <= Finish(e) /\ Finish(e) <= NextFree(super)
    BY <2>2 DEF ReadSafe, Placed
  <2>4. Finish(plan[c]) \in Nat /\ Finish(e) \in Nat /\ NextFree(super) \in Nat
    BY <2>1, <2>2, EntriesPlaced, FinishNat, CoreFacts DEF ReadSafe, Rooted, Placed
  <2>5. Finish(plan[c]) <= NextFree(super)
    BY <2>3, <2>4
  <2>6. \A s \in SectorsOf(plan[c]) : data'[s] = data[s]
    BY <1>2, <2>1, <2>5, DataKept, CoreFacts DEF ReadSafe, Rooted
  <2> QED BY <2>6, ContentAtSame DEF ReadSafe, Rooted
<1> QED BY <1>1, <1>2, DiskStep

(* While the kernel runs its files are those of the cache. *)
LEMMA FilesOfCache ==
    ASSUME StoreInv, boot = "run"
    PROVE  /\ files = CacheFiles(cache, data) /\ DOMAIN files = DOMAIN cache
           /\ \A n \in DOMAIN cache : files[n] = ContentAt(data, cache[n])
<1>1. files = CacheFiles(cache, data)
  BY VisibleRun DEF StoreInv, History
<1> QED BY <1>1 DEF CacheFiles

(* The cats in progress: each sees its file until that is removed.         *)
LEMMA ReadsShownStep ==
    ASSUME OneWriter, Cuts = {}, StoreInv, StoreNext, CoreInv'
    PROVE  ReadsShown'
<1>1. CASE Mount
  BY <1>1, MountFrame DEF ReadsShown, StoreInv
<1>2. CASE Crash
  BY <1>2 DEF Crash, Reset, ReadsShown
<1>3. ASSUME NEW c \in Clients, Handler(c) PROVE ReadsShown'
  <2>1. /\ CoreInv /\ boot = "run" /\ boot' = "run" /\ [Next]_vars
        /\ \A d \in Clients \ {c} : /\ pc'[d] = pc[d] /\ req'[d] = req[d]
                                    /\ plan'[d] = plan[d] /\ reply'[d] = reply[d]
    BY <1>3, HandlerFrame DEF StoreInv, StoreNext
  <2>2. /\ DOMAIN files' = DOMAIN cache'
        /\ \A n \in DOMAIN cache' : files'[n] = ContentAt(data', cache'[n])
    <3>1. files' = Visible(boot', cache', super', data')
      BY DEF StoreNext
    <3> QED BY <2>1, <3>1 DEF Visible
  <2>3. call' = [d \in Clients |-> IF pc'[d] = "idle" THEN NoRequest ELSE req'[d]]
    BY DEF StoreNext, Calls
  <2>4. \A d \in Clients : shown'[d] =
           IF ~Store!Reading(call'[d]) THEN {}
           ELSE IF call'[d].name \notin DOMAIN files' THEN Store!Anything
           ELSE IF ~Store!Reading(call[d]) THEN {files'[call'[d].name]}
           ELSE shown[d]
    BY DEF StoreNext, Store!Watch
  <2>5. ASSUME NEW d \in Clients, pc'[d] = "fetch"
        PROVE  call'[d] = req'[d] /\ Store!Reading(call'[d])
    <3>1. req'[d].kind = "cat"
      BY <2>5 DEF CoreInv, CacheInv, WriterInv, Serves
    <3>2. call'[d] = req'[d]
      BY <2>3, <2>5
    <3> QED BY <3>1, <3>2 DEF Store!Reading, NoRequest
  <2>6. ASSUME NEW d \in Clients \ {c}, pc'[d] = "fetch", shown'[d] # Store!Anything
        PROVE  ReadSafe(d)'
    <3>1. /\ pc[d] = "fetch" /\ req'[d] = req[d] /\ plan'[d] = plan[d]
          /\ Store!Reading(call[d]) /\ call'[d] = req[d] /\ Store!Reading(call'[d])
      BY <2>1, <2>5, <2>6, MappedCall
    <3>2. req[d].name \in DOMAIN cache' /\ shown'[d] = shown[d]
      BY <2>2, <2>4, <2>6, <3>1
    <3>3. ReadSafe(d)
      BY <2>6, <3>1, <3>2 DEF StoreInv, ReadsShown
    <3>4. ContentAt(data', plan[d]) = ContentAt(data, plan[d])
      BY <2>1, <3>1, <3>3, ReadUndisturbed
    <3>5. Finish(plan[d]) <= Finish(cache'[req[d].name])
      <4>1. CASE cache' = cache
        BY <3>3, <4>1 DEF ReadSafe
      <4>2. CASE cache' # cache
        <5> DEFINE n == req[d].name
        <5>1. Publish(c)
          BY <1>3, <4>2 DEF Handler, Start, Load, WriteData, WriteSuper, Publish, Fetch
        <5>2. super' = super /\ cache' = CacheOf(Entries(super'))
          <6>1. pc'[c] = "idle" /\ super' = super /\ pc[c] = "publish"
            BY <2>1, <5>1, CoreFacts DEF Publish, Answer, disk
          <6>2. \A e \in Clients : pc'[e] # "publish"
            BY <2>1, <6>1, WriterAlone, CoreFacts DEF Writing
          <6>3. CacheFresh'
            BY <2>1, <6>2 DEF CoreInv, CacheInv
          <6> QED BY <6>1, <6>3 DEF CacheFresh
        <5>3. /\ Placed(cache'[n], super)
              /\ \A k \in 1 .. Len(Entries(super)) : Entries(super)[k].name = n =>
                    Finish(cache'[n]) = Finish(Entries(super)[k])
              /\ \E k \in 1 .. Len(Entries(super)) : Entries(super)[k].name = n
          BY <2>1, <3>2, <5>2, FreshPlaced, CoreFacts
        <5>4. Rooted(cache[n]) /\ NotBefore(cache[n], n)
          BY <2>1, <3>3 DEF CoreInv, CacheGrows, ReadSafe
        <5>5. Finish(cache[n]) <= Finish(cache'[n])
          BY <5>3, <5>4 DEF NotBefore
        <5>6. Finish(plan[d]) \in Nat /\ Finish(cache[n]) \in Nat /\ Finish(cache'[n]) \in Nat
          BY <3>3, <5>3, <5>4, FinishNat DEF ReadSafe, Rooted, Placed
        <5>7. Finish(plan[d]) <= Finish(cache[n])
          BY <3>3 DEF ReadSafe
        <5> QED BY <5>5, <5>6, <5>7
      <4> QED BY <4>1, <4>2
    <3>6. Rooted(plan[d]) /\ shown[d] = {ContentAt(data, plan[d])}
      BY <3>3 DEF ReadSafe
    <3> QED BY <3>1, <3>2, <3>4, <3>5, <3>6 DEF ReadSafe, Rooted, OnDisk
  <2>7. ASSUME pc'[c] = "fetch"
        PROVE  ReadSafe(c)'
    <3>1. ~Load(c) /\ ~WriteData(c) /\ ~WriteSuper(c) /\ ~Publish(c) /\ ~Fetch(c)
      BY <2>1, <2>7, CoreFacts DEF Load, PlanWrite, PlanDelete, WriteData, WriteSuper, Publish, Fetch,
                                   Goto, Fail, Answer
    <3>2. PICK r \in Requests[c] : Start(c, r)
      BY <1>3, <3>1 DEF Handler
    <3>3. /\ pc[c] = "idle" /\ r.name \in DOMAIN cache /\ UNCHANGED <<super, data, cache>>
          /\ plan'[c] = [NoPlan EXCEPT !.start = cache[r.name].start,
                                       !.size = cache[r.name].size]
          /\ req'[c] = r
      BY <2>1, <2>7, <3>2, CoreFacts DEF Start, Goto, Fail, Answer, disk
    <3>4. plan'[c].start = cache[r.name].start /\ plan'[c].size = cache[r.name].size
      BY <3>3 DEF NoPlan
    <3>5. Rooted(cache[r.name])
      BY <2>1, <3>3 DEF CoreInv, CacheGrows
    <3>6. Rooted(plan'[c]) /\ Finish(plan'[c]) = Finish(cache[r.name])
          /\ ContentAt(data, plan'[c]) = ContentAt(data, cache[r.name])
      <4>1. Rooted(plan'[c]) /\ Finish(plan'[c]) = Finish(cache[r.name])
        BY <3>4, <3>5 DEF Rooted, OnDisk, Finish
      <4> QED BY <3>4, <4>1, ContentAtSame DEF Rooted
    <3>7. ~Store!Reading(call[c]) /\ Store!Reading(call'[c]) /\ call'[c] = r
      BY <2>5, <2>7, <3>3, MappedCall
    <3>8. shown'[c] = {files'[r.name]} /\ files'[r.name] = ContentAt(data, cache[r.name])
      BY <2>2, <2>4, <3>3, <3>7
    <3>9. Finish(cache[r.name]) <= Finish(cache[r.name])
      <4>1. Finish(cache[r.name]) \in Nat
        BY <3>5, FinishNat DEF Rooted
      <4> QED BY <4>1
    <3> QED BY <3>3, <3>6, <3>8, <3>9 DEF ReadSafe, Rooted, OnDisk
  <2> QED BY <2>6, <2>7 DEF ReadsShown
<1> QED BY <1>1, <1>2, <1>3 DEF StoreNext, Next

LEMMA ChangedIsChange ==
    ASSUME NEW r, Changed(r, files, files')
    PROVE  Store!Change(r)
BY DEF Changed, Store!Change, Body, Store!Body

Stutter == files' = files /\ call' = call /\ reply' = reply

(* A mount finds the files that were there. *)
LEMMA MapMount ==
    ASSUME Faults = {}, StoreInv, StoreInv', [Next]_vars, Mount
    PROVE  Stutter
<1>1. /\ boot # "run" /\ UNCHANGED <<data, pc, req, plan, reply>>
      /\ \A c \in Clients : pc[c] = "idle" /\ pc'[c] = "idle"
  BY MountFrame DEF StoreInv
<1>2. call' = call /\ reply' = reply
  BY <1>1 DEF StoreInv, History
<1>3. /\ super \in SuperBlock /\ super' \in SuperBlock /\ NamesCut(super) /\ BootInv
  BY CoreFacts DEF StoreInv, CoreInv, CacheInv, WriterInv, TypeInv, TypeOK
<1>4. Entries(super') = Entries(super)
  <2>1. super' = super \/ super' = RepairedSuper \/ (super' = FreshSuper /\ super = Blank)
    BY DEF Mount, Connect, Repair, Check, Format, disk, StoreInv, CoreInv, CacheInv, BootInv
  <2> QED BY <1>3, <2>1, CleanSupers, CutFormatIsEmpty
<1>5. FilesOn(super', data') = FilesOn(super, data)
  BY <1>1, <1>3, <1>4, SameEntriesSameFiles
<1>6. files = FilesOn(super, data)
  BY <1>1, VisibleFresh DEF StoreInv, History
<1>7. files' = FilesOn(super', data')
  BY <1>1, VisibleNext DEF StoreInv, History, Publishing
<1> QED BY <1>2, <1>5, <1>6, <1>7 DEF Stutter

(* A step of one handler, seen through the mapping. *)
LEMMA HandlerMapped ==
    ASSUME StoreInv, StoreInv', NEW c \in Clients, Handler(c)
    PROVE  call' = [call EXCEPT ![c] = IF pc'[c] = "idle" THEN NoRequest ELSE req'[c]]
BY HandlerFrame, CallsOf DEF StoreInv

(* The files do not change while the cache and the data stay. *)
LEMMA FilesStay ==
    ASSUME StoreInv, StoreInv', boot = "run", boot' = "run", UNCHANGED <<cache, data>>
    PROVE  files' = files /\ files = CacheFiles(cache, data)
<1>1. files = CacheFiles(cache, data)
  BY VisibleRun DEF StoreInv, History
<1>2. files' = CacheFiles(cache', data')
  BY VisibleNext DEF StoreInv, History
<1> QED BY <1>1, <1>2

(* A handler step that leaves the request of its caller waiting. *)
LEMMA OwnStutter ==
    ASSUME StoreInv, StoreInv', NEW c \in Clients, Handler(c), files' = files,
           pc[c] # "idle", req' = req, NEW label \in Writing, NEW p, Goto(c, label, p)
    PROVE  Stutter
<1>1. pc \in [Clients -> Labels] /\ reply \in [Clients -> Reply]
  BY CoreFacts DEF StoreInv
<1>2. pc'[c] = label /\ label # "idle" /\ reply' = [reply EXCEPT ![c] = NoReply]
  BY <1>1 DEF Goto, Writing
<1>3. reply[c] = NoReply
  BY DEF StoreInv, CoreInv, Quiet
<1>4. reply' = reply
  BY <1>1, <1>2, <1>3
<1>5. call' = [call EXCEPT ![c] = call[c]]
  BY <1>2, HandlerMapped, MappedCall
<1> QED BY <1>4, <1>5, MappedCall DEF Stutter

LEMMA MapStart ==
    ASSUME StoreInv, StoreInv', NEW c \in Clients, NEW r \in Requests[c], Start(c, r)
    PROVE  Store!Call(c, r) \/ Store!Serve(c, r)
<1>1. /\ Handler(c) /\ boot = "run" /\ boot' = "run" /\ pc[c] = "idle" /\ req'[c] = r
      /\ UNCHANGED <<cache, data>> /\ CoreInv
  BY CoreFacts DEF Handler, Start, StoreInv, disk
<1>2. files' = files
  BY <1>1, FilesStay
<1>3. DOMAIN files = DOMAIN cache
  BY <1>1, FilesOfCache
<1>4. call[c] = NoRequest
  BY <1>1, MappedCall
<1>5. pc \in [Clients -> Labels]
  BY <1>1, CoreFacts
<1>6. ASSUME NEW label \in Labels \ {"idle"}, NEW p, Goto(c, label, p),
             r.kind = "cat" => r.name \in DOMAIN cache
      PROVE  Store!Call(c, r)
  <2>1. pc'[c] # "idle" /\ reply' = [reply EXCEPT ![c] = NoReply]
    BY <1>5, <1>6 DEF Goto
  <2>2. call' = [call EXCEPT ![c] = r]
    BY <1>1, <2>1, HandlerMapped
  <2> QED BY <1>2, <1>3, <1>4, <1>6, <2>1, <2>2
          DEF Store!Call, Store!Tell, Store!NoAnswer, Store!Reply, NoReply
<1>7. ASSUME NEW why, Fail(c, why)
      PROVE  call' = [call EXCEPT ![c] = NoRequest] /\ Store!Tell(c, Store!Refused(why))
  <2>1. pc'[c] = "idle"
    BY <1>5, <1>7 DEF Fail, Answer
  <2>2. call' = [call EXCEPT ![c] = NoRequest]
    BY <1>1, <2>1, HandlerMapped
  <2> QED BY <1>7, <2>2 DEF Fail, Answer, Store!Tell, Store!Refused, Store!Reply
<1>8. CASE r.kind = "touch" /\ r.name \in DOMAIN cache /\ Fail(c, "File_exists")
  BY <1>2, <1>3, <1>4, <1>7, <1>8 DEF Store!Serve, Store!Observe
<1>9. CASE r.kind = "cat" /\ r.name \notin DOMAIN cache /\ Fail(c, "File_not_found")
  BY <1>2, <1>3, <1>4, <1>7, <1>9 DEF Store!Serve, Store!Observe
<1>10. CASE r.kind # "cat" /\ Goto(c, "load", NoPlan)
  BY <1>6, <1>10 DEF Labels
<1>11. CASE /\ r.kind = "cat" /\ r.name \in DOMAIN cache
            /\ Goto(c, "fetch", [NoPlan EXCEPT !.start = cache[r.name].start,
                                               !.size = cache[r.name].size])
  BY <1>6, <1>11 DEF Labels
<1> QED BY <1>8, <1>9, <1>10, <1>11 DEF Start

(* Why a load refuses its request. *)
LEMMA Refusals ==
    ASSUME Faults = {}, CoreInv, NEW c \in Clients, Load(c)
    PROVE  \/ \E label \in {"data", "super"} : \E p : Goto(c, label, p)
           \/ /\ req[c].kind = "rm" /\ req[c].name \notin NamesIn(Entries(super))
              /\ Fail(c, "File_not_found")
           \/ req[c].kind \in {"write", "touch"} /\ Fail(c, "No_space")
<1>1. pc[c] = "load" /\ super.formatted
  BY CoreFacts DEF Load, CoreInv, RunFormatted
<1>2. req[c] \in Request /\ req[c].kind # "cat" /\ pc \in [Clients -> Labels]
  BY <1>1, CoreFacts DEF Serves, Writing
<1>3. CASE req[c].kind = "rm"
  <2>1. PlanDelete(c, Entries(super), NextFree(super))
    BY <1>1, <1>3 DEF Load
  <2>2. CASE \E p : Goto(c, "super", p)
    BY <2>2
  <2>3. CASE ~\E p : Goto(c, "super", p)
    <3>1. /\ Len(Kept(Entries(super), req[c].name)) = Len(Entries(super))
          /\ Fail(c, "File_not_found")
      BY <2>1, <2>3 DEF PlanDelete
    <3>2. Located(Entries(super), req[c].name) = {}
      <4>1. Listing(Entries(super)) /\ DistinctNames(Entries(super))
        BY CoreFacts, EntriesListing, EntriesProperties DEF DistinctNames
      <4> QED BY <3>1, <4>1, KeptProperties
    <3> QED BY <1>3, <3>1, <3>2 DEF Located, NamesIn
  <2> QED BY <2>2, <2>3
<1>4. CASE req[c].kind # "rm"
  <2>1. PlanWrite(c, Entries(super), NextFree(super))
    BY <1>1, <1>4 DEF Load
  <2>2. req[c].kind \in {"write", "touch"}
    BY <1>2, <1>4 DEF Request, Kinds
  <2> QED BY <2>1, <2>2 DEF PlanWrite
<1> QED BY <1>3, <1>4

LEMMA MapLoad ==
    ASSUME OneWriter, Faults = {}, StoreInv, StoreInv', NEW c \in Clients, Load(c)
    PROVE  Stutter \/ Store!Serve(c, req[c])
<1>1. /\ Handler(c) /\ pc[c] = "load" /\ boot = "run" /\ boot' = "run" /\ CacheFresh
      /\ UNCHANGED <<cache, data, req>> /\ CoreInv
  BY WritesFromFresh DEF Handler, Load, StoreInv, disk
<1>2. files' = files
  BY <1>1, FilesStay
<1>3. DOMAIN files = DOMAIN cache /\ DOMAIN cache = NamesIn(Entries(super))
  BY <1>1, FilesOfCache DEF CacheFresh, CacheOf
<1>4. call[c] = req[c] /\ pc \in [Clients -> Labels]
  BY <1>1, MappedCall, CoreFacts
<1>5. ASSUME NEW label \in {"data", "super"}, NEW p, Goto(c, label, p)
      PROVE  Stutter
  BY <1>1, <1>2, <1>5, OwnStutter DEF Writing
<1>6. ASSUME NEW why, Fail(c, why)
      PROVE  call' = [call EXCEPT ![c] = NoRequest] /\ Store!Tell(c, Store!Refused(why))
  <2>1. pc'[c] = "idle"
    BY <1>4, <1>6 DEF Fail, Answer
  <2>2. call' = [call EXCEPT ![c] = NoRequest]
    BY <1>1, <2>1, HandlerMapped
  <2> QED BY <1>6, <2>2 DEF Fail, Answer, Store!Tell, Store!Refused, Store!Reply
<1>7. CASE /\ req[c].kind = "rm" /\ req[c].name \notin NamesIn(Entries(super))
           /\ Fail(c, "File_not_found")
  BY <1>2, <1>3, <1>4, <1>6, <1>7 DEF Store!Serve, Store!Observe
<1>8. CASE req[c].kind \in {"write", "touch"} /\ Fail(c, "No_space")
  <2>1. req[c].kind = "touch" => req[c].name \notin DOMAIN files
    BY <1>1, <1>3 DEF CoreInv, TouchesNew, Writing
  <2> QED BY <1>2, <1>4, <1>6, <1>8, <2>1 DEF Store!Serve, Store!Observe
<1> QED BY <1>1, <1>5, <1>7, <1>8, Refusals

LEMMA MapWriteData ==
    ASSUME OneWriter, Cuts = {}, Faults = {}, StoreInv, StoreInv', NEW c \in Clients, WriteData(c)
    PROVE  Stutter
<1>1. /\ Handler(c) /\ pc[c] = "data" /\ boot = "run" /\ boot' = "run"
      /\ CacheFresh /\ Publishing = {} /\ UNCHANGED <<super, cache, req>>
      /\ CoreInv /\ [Next]_vars
  BY WritesFromFresh DEF Handler, WriteData, StoreInv, Next
<1>2. Goto(c, "super", plan[c])
  BY DEF WriteData
<1>3. FilesOn(super, data') = FilesOn(super, data)
  BY <1>1, FilesKept
<1>4. files = FilesOn(super, data)
  BY <1>1, VisibleFresh DEF StoreInv, History
<1>5. files' = CacheFiles(cache', data')
  BY <1>1, VisibleNext DEF StoreInv, History
<1>6. CacheFiles(cache, data') = FilesOn(super, data')
  BY <1>1, FreshFiles, CoreFacts DEF CacheFresh
<1>7. files' = files
  BY <1>1, <1>3, <1>4, <1>5, <1>6
<1> QED BY <1>1, <1>2, <1>7, OwnStutter DEF Writing

LEMMA MapWriteSuper ==
    ASSUME Faults = {}, StoreInv, StoreInv', NEW c \in Clients, WriteSuper(c)
    PROVE  Stutter
<1>1. /\ Handler(c) /\ pc[c] = "super" /\ UNCHANGED <<data, cache, boot, req>> /\ CoreInv
  BY DEF Handler, WriteSuper, StoreInv
<1>2. boot = "run" /\ Goto(c, "publish", plan[c])
  BY <1>1, CoreFacts DEF WriteSuper, Serves
<1>3. files' = files
  BY <1>1, <1>2, FilesStay
<1> QED BY <1>1, <1>2, <1>3, OwnStutter DEF Writing

LEMMA MapPublish ==
    ASSUME OneWriter, StoreInv, StoreInv', NEW c \in Clients, Publish(c)
    PROVE  Store!Serve(c, req[c])
<1>1. /\ Handler(c) /\ pc[c] = "publish" /\ UNCHANGED <<super, data, boot, req>> /\ CoreInv
  BY DEF Handler, Publish, StoreInv, disk
<1>2. boot = "run" /\ pc \in [Clients -> Labels] /\ reply \in [Clients -> Reply]
  BY <1>1, CoreFacts
<1>3. pc'[c] = "idle" /\ reply' = [reply EXCEPT ![c] = [result |-> "ok", content |-> Body(req[c])]]
  BY <1>1, <1>2 DEF Publish, Answer
<1>4. Publishing' = {}
  <2>1. \A d \in Clients \ {c} : pc[d] # "publish" /\ pc'[d] = pc[d]
    BY <1>1, WriterAlone, CoreFacts, HandlerFrame DEF Writing
  <2> QED BY <1>3, <2>1 DEF Publishing
<1>5. files = CacheFiles(cache, data)
  BY <1>2, VisibleRun DEF StoreInv, History
<1>6. files' = FilesOn(super, data)
  BY <1>1, <1>4, VisibleNext DEF StoreInv, History
<1>7. Store!Change(req[c])
  <2>1. Changed(req[c], files, files')
    BY <1>1, <1>5, <1>6 DEF CoreInv, PublishesChange, Publishing
  <2> QED BY <2>1, ChangedIsChange
<1>8. call' = [call EXCEPT ![c] = NoRequest]
  BY <1>1, <1>3, HandlerMapped
<1>9. call[c] = req[c]
  BY <1>1, MappedCall
<1> QED BY <1>3, <1>7, <1>8, <1>9 DEF Store!Serve, Store!Tell, Store!Reply, Store!Body, Body

LEMMA MapFetch ==
    ASSUME Faults = {}, StoreInv, StoreInv', NEW c \in Clients, Fetch(c)
    PROVE  Store!Show(c)
<1>1. /\ Handler(c) /\ pc[c] = "fetch" /\ UNCHANGED <<data, cache, boot, req>> /\ CoreInv
  BY DEF Handler, Fetch, StoreInv, disk
<1>2. boot = "run" /\ pc \in [Clients -> Labels]
  BY <1>1, CoreFacts DEF Serves
<1>3. /\ pc'[c] = "idle"
      /\ reply' = [reply EXCEPT ![c] = [result |-> "ok", content |-> ContentAt(data, plan[c])]]
  BY <1>1, <1>2 DEF Fetch, Answer
<1>4. files' = files
  BY <1>1, <1>2, FilesStay
<1>5. call' = [call EXCEPT ![c] = NoRequest] /\ Store!Reading(call[c])
  BY <1>1, <1>3, HandlerMapped, MappedCall
<1>6. ContentAt(data, plan[c]) \in shown[c]
  <2>1. ContentAt(data, plan[c]) \in Contents \cup {Garbage}
    BY DEF ContentAt
  <2> QED BY <1>1, <2>1 DEF StoreInv, ReadsShown, ReadSafe, Store!Anything
<1>7. \E x \in shown[c] : Store!Tell(c, Store!Reply("ok", x))
  BY <1>3, <1>6 DEF Store!Tell, Store!Reply
<1> QED BY <1>4, <1>5, <1>7 DEF Store!Show

(* What a crash does to the disk. *)
LEMMA CrashDisk ==
    ASSUME OneWriter, Cuts = {}, Faults = {}, CoreInv, Crash
    PROVE  \/ UNCHANGED <<super, data>>
           \/ boot # "run" /\ data' = data /\ super' \in SuperBlock
              /\ Entries(super') = Entries(super)
           \/ \E c \in Clients : pc[c] = "super" /\ super' = PlannedSuper(c) /\ data' = data
           \/ /\ super' = super /\ Publishing = {} /\ boot = "run"
              /\ FilesOn(super, data') = FilesOn(super, data)
<1>1. [Next]_vars
  BY DEF Next
<1>2. CASE boot = "repair" /\ super' \in Interrupted(super, RepairedSuper) /\ UNCHANGED data
  <2>1. super' = super \/ super' = RepairedSuper
    BY <1>2, InterruptedAtomic
  <2>2. RepairedSuper \in SuperBlock /\ Entries(RepairedSuper) = Entries(super)
    BY CoreFacts, CleanSupers, WrittenSupers DEF TypeInv
  <2> QED BY <1>2, <2>1, <2>2, CoreFacts
<1>3. CASE boot = "format" /\ super' \in Interrupted(super, FreshSuper) /\ UNCHANGED data
  <2>1. super' = super \/ super' = FreshSuper
    BY <1>3, InterruptedAtomic
  <2>2. super = Blank
    BY <1>3, CoreFacts DEF BootInv
  <2>3. FreshSuper \in SuperBlock /\ Entries(FreshSuper) = Entries(super)
    BY <2>2, CoreFacts, CutFormatIsEmpty, WrittenSupers DEF TypeInv
  <2> QED BY <1>3, <2>1, <2>3, CoreFacts
<1>4. ASSUME NEW c \in Clients, pc[c] = "super",
             super' \in Interrupted(super, PlannedSuper(c)), UNCHANGED data
      PROVE  UNCHANGED <<super, data>> \/ (super' = PlannedSuper(c) /\ data' = data)
  BY <1>4, InterruptedAtomic
<1>5. ASSUME NEW c \in Clients, pc[c] = "data", UNCHANGED super
      PROVE  /\ super' = super /\ Publishing = {} /\ boot = "run"
             /\ FilesOn(super, data') = FilesOn(super, data)
  BY <1>1, <1>5, WritesFromFresh, FilesKept
<1> QED BY <1>2, <1>3, <1>4, <1>5 DEF Crash, disk

LEMMA CrashFiles ==
    ASSUME OneWriter, ShortNames, Cuts = {}, Faults = {}, StoreInv, StoreInv', Crash
    PROVE  files' = files \/ \E c \in Clients : call[c] # NoRequest /\ Store!Change(call[c])
<1>1. CoreInv /\ CoreInv' /\ boot' = "down"
  BY DEF StoreInv, Crash, Reset
<1>2. files' = FilesOn(super', data')
  BY <1>1, VisibleNext DEF StoreInv, History
<1>3. boot # "run" \/ Publishing = {} => files = FilesOn(super, data)
  BY <1>1, VisibleFresh DEF StoreInv, History
<1>4. ASSUME NEW c \in Clients, pc[c] \in Writing
      PROVE  call[c] = req[c] /\ call[c] # NoRequest
  <2>1. call[c] = req[c] /\ req[c] \in Request
    BY <1>1, <1>4, MappedCall, CoreFacts DEF Writing
  <2> QED BY <2>1 DEF Request, Kinds, NoRequest
<1>5. ASSUME NEW c \in Publishing, UNCHANGED <<super, data>>
      PROVE  call[c] # NoRequest /\ Store!Change(call[c])
  <2>1. c \in Clients /\ pc[c] = "publish"
    BY <1>5 DEF Publishing
  <2>2. call[c] = req[c] /\ call[c] # NoRequest
    BY <1>4, <2>1 DEF Writing
  <2>3. files = CacheFiles(cache, data)
    <3>1. boot = "run"
      BY <1>1, <2>1, CoreFacts DEF Serves
    <3> QED BY <3>1, VisibleRun DEF StoreInv, History
  <2>4. Changed(req[c], files, files')
    BY <1>1, <1>2, <1>5, <2>3 DEF CoreInv, PublishesChange
  <2> QED BY <2>2, <2>4, ChangedIsChange
<1>6. ASSUME NEW c \in Clients, pc[c] = "super", super' = PlannedSuper(c), data' = data
      PROVE  call[c] # NoRequest /\ Store!Change(call[c])
  <2>1. Publishing = {}
    BY <1>1, <1>6, WritesFromFresh
  <2>2. call[c] = req[c] /\ call[c] # NoRequest
    BY <1>4, <1>6 DEF Writing
  <2>3. Changed(req[c], files, files')
    <3>1. Changed(req[c], FilesOn(super, data), FilesOn(PlannedSuper(c), data))
      BY <1>1, <1>6, PlanChanges, CoreFacts
    <3> QED BY <1>2, <1>3, <1>6, <2>1, <3>1
  <2> QED BY <2>2, <2>3, ChangedIsChange
<1>7. CASE UNCHANGED <<super, data>>
  <2>1. CASE Publishing = {}
    BY <1>2, <1>3, <1>7, <2>1
  <2>2. CASE Publishing # {}
    <3>1. PICK c \in Publishing : TRUE
      BY <2>2
    <3>2. c \in Clients
      BY DEF Publishing
    <3> QED BY <1>5, <1>7, <3>2
  <2> QED BY <2>1, <2>2
<1>8. CASE /\ boot # "run" /\ data' = data /\ super' \in SuperBlock
           /\ Entries(super') = Entries(super)
  <2>1. FilesOn(super', data) = FilesOn(super, data)
    BY <1>1, <1>8, SameEntriesSameFiles, CoreFacts
  <2> QED BY <1>2, <1>3, <1>8, <2>1
<1>9. CASE /\ super' = super /\ Publishing = {} /\ boot = "run"
           /\ FilesOn(super, data') = FilesOn(super, data)
  BY <1>2, <1>3, <1>9
<1> QED BY <1>1, <1>6, <1>7, <1>8, <1>9, CrashDisk

LEMMA MapCrash ==
    ASSUME OneWriter, ShortNames, Cuts = {}, Faults = {}, StoreInv, StoreInv', Crash
    PROVE  Store!Crash
<1> DEFINE hidden == {c \in Clients : pc[c] # "idle"}
<1>1. call' = Calls(pc', req')
  BY DEF StoreInv, History
<1>2. /\ \A c \in Clients : pc'[c] = "idle"
      /\ reply' = [c \in Clients |-> IF pc[c] = "idle" THEN reply[c] ELSE NoReply]
  BY DEF Crash, Reset
<1>3. call' = [c \in Clients |-> NoRequest]
  BY <1>1, <1>2 DEF Calls
<1>4. reply' = [c \in Clients |-> IF c \in hidden THEN Store!NoAnswer ELSE reply[c]]
  BY <1>2 DEF NoReply, Store!NoAnswer, Store!Reply
<1>5. hidden \in SUBSET Clients
  OBVIOUS
<1> HIDE DEF hidden
<1>6. files' = files \/ \E c \in Clients : call[c] # NoRequest /\ Store!Change(call[c])
  BY CrashFiles
<1> QED BY <1>3, <1>4, <1>5, <1>6 DEF Store!Crash

(* A step that changes no file and no call lets every cat answer what it   *)
(* could answer.                                                           *)
LEMMA StutterShown ==
    ASSUME StoreInv, Stutter, Store!Watch
    PROVE  shown' = shown
<1>1. ASSUME NEW c \in Clients PROVE shown'[c] = shown[c]
  <2>1. shown'[c] = IF ~Store!Reading(call[c]) THEN {}
                    ELSE IF call[c].name \notin DOMAIN files THEN Store!Anything
                    ELSE shown[c]
    BY DEF Store!Watch, Stutter
  <2>2. CASE ~Store!Reading(call[c])
    BY <2>1, <2>2 DEF StoreInv, History
  <2>3. CASE Store!Reading(call[c])
    <3>1. pc[c] = "fetch" /\ call[c] = req[c] /\ boot = "run"
      BY <2>3, MappedCall, CoreFacts DEF StoreInv
    <3>2. shown[c] = Store!Anything \/ req[c].name \in DOMAIN files
      BY <3>1, FilesOfCache DEF StoreInv, ReadsShown, ReadSafe
    <3> QED BY <2>1, <2>3, <3>1, <3>2
  <2> QED BY <2>2, <2>3
<1>2. shown = [c \in Clients |-> shown[c]] /\ shown' = [c \in Clients |-> shown'[c]]
  BY DEF StoreInv, History, Store!Watch
<1> QED BY <1>1, <1>2

(* Every step of the file system is one of the store, or none. *)
LEMMA StepMaps ==
    ASSUME OneWriter, ShortNames, Cuts = {}, Faults = {}, StoreInv, StoreInv',
           [StoreNext]_<<vars, files, call, shown>>
    PROVE  [Store!Next]_<<files, call, reply, shown>>
<1>1. CASE UNCHANGED <<vars, files, call, shown>>
  BY <1>1 DEF vars
<1>2. CASE StoreNext
  <2>1. Store!Watch /\ Next
    BY <1>2 DEF StoreNext
  <2>2. Stutter => UNCHANGED <<files, call, reply, shown>>
    BY <2>1, StutterShown DEF Stutter
  <2>3. CASE Mount
    BY <2>2, <2>3, MapMount DEF Next
  <2>4. CASE Crash
    BY <2>1, <2>4, MapCrash DEF Store!Next
  <2>5. ASSUME NEW c \in Clients, Handler(c)
        PROVE  Stutter \/ Store!Show(c) \/ \E q \in Requests[c] : Store!Call(c, q) \/ Store!Serve(c, q)
    <3>1. ASSUME NEW r \in Requests[c], Start(c, r)
          PROVE  \E q \in Requests[c] : Store!Call(c, q) \/ Store!Serve(c, q)
      BY <3>1, MapStart
    <3>2. Load(c) => Stutter \/ Store!Serve(c, req[c])
      BY MapLoad
    <3>3. WriteData(c) \/ WriteSuper(c) => Stutter
      BY MapWriteData, MapWriteSuper
    <3>4. Fetch(c) => Store!Show(c)
      BY MapFetch
    <3>5. Publish(c) => Store!Serve(c, req[c])
      BY MapPublish
    <3>6. Load(c) \/ Publish(c) => req[c] \in Requests[c]
      BY CoreFacts DEF Load, Publish, StoreInv
    <3> QED BY <2>5, <3>1, <3>2, <3>3, <3>4, <3>5, <3>6 DEF Handler
  <2> QED BY <2>1, <2>2, <2>3, <2>4, <2>5 DEF Next, Store!Next
<1> QED BY <1>1, <1>2

LEMMA InitMaps == StoreInit => StoreInv /\ Store!Init
<1> SUFFICES ASSUME StoreInit PROVE StoreInv /\ Store!Init
  OBVIOUS
<1>1. StoreInv
  <2>1. CoreInv /\ ReadsShown
    BY CoreInit DEF StoreInit, Init, ReadsShown
  <2>2. History
    BY DEF StoreInit, History
  <2> QED BY <2>1, <2>2 DEF StoreInv
<1>2. files = FilesOn(super, data) /\ super \in SuperBlock
  BY <1>1, VisibleFresh, CoreFacts DEF StoreInit, Init, StoreInv, History
<1>3. Entries(super) = <<>>
  BY <1>2, CutFormatIsEmpty DEF StoreInit, Init
<1>4. NamesIn(Entries(super)) = {}
  BY <1>3 DEF NamesIn
<1>5. DOMAIN files = {}
  BY <1>2, <1>4, FilesOnProperties
<1>6. files = [n \in {} |-> Empty]
  BY <1>2, <1>5, FilesOnIsFunction
<1>7. call = [c \in Clients |-> NoRequest]
  BY DEF StoreInit, Init, Calls
<1>8. reply = [c \in Clients |-> Store!NoAnswer]
  BY DEF StoreInit, Init, NoReply, Store!NoAnswer, Store!Reply
<1> QED BY <1>1, <1>6, <1>7, <1>8 DEF Store!Init, StoreInit

LEMMA StoreInvStep ==
    ASSUME OneWriter, ShortNames, Cuts = {}, Faults = {}, StoreInv,
           [StoreNext]_<<vars, files, call, shown>>
    PROVE  StoreInv'
<1>1. CASE StoreNext
  <2>1. CoreInv'
    BY <1>1, CoreStep DEF StoreNext, StoreInv
  <2>2. History'
    BY <1>1 DEF StoreNext, History, Store!Watch
  <2>3. ReadsShown'
    BY <1>1, <2>1, ReadsShownStep
  <2> QED BY <2>1, <2>2, <2>3 DEF StoreInv
<1>2. CASE UNCHANGED <<vars, files, call, shown>>
  <2>1. UNCHANGED <<super, data, cache, boot, pc, req, plan, reply, files, call, shown>>
    BY <1>2 DEF vars
  <2>2. CoreInv'
    BY <2>1, CoreStep DEF StoreInv, vars
  <2>3. History'
    BY <2>1 DEF StoreInv, History, Store!Reading, Calls, Visible
  <2>4. ReadsShown'
    BY <2>1 DEF StoreInv, ReadsShown, ReadSafe, Rooted, OnDisk
  <2> QED BY <2>2, <2>3, <2>4 DEF StoreInv
<1> QED BY <1>1, <1>2

(* With one handler that changes files and any number that read them, and  *)
(* a device that fails only by losing power, fs.ml implements the map from *)
(* names to contents that its callers are promised: each request takes     *)
(* effect at one instant between its call and its answer, and a crash      *)
(* undoes nothing that was answered.  A cat answers what its file held at  *)
(* its call, also while files are overwritten and others are removed; of   *)
(* one whose own file is removed before it has read, nothing is said.      *)
THEOREM StoreImplemented ==
    ASSUME OneWriter, ShortNames, Cuts = {}, Faults = {}
    PROVE  StoreSpec => ImplementsFileStore
<1>1. StoreInit => StoreInv /\ Store!Init
  BY InitMaps
<1>2. StoreInv /\ [StoreNext]_<<vars, files, call, shown>> => StoreInv'
  BY StoreInvStep
<1>3. StoreInv /\ StoreInv' /\ [StoreNext]_<<vars, files, call, shown>>
        => [Store!Next]_<<files, call, reply, shown>>
  BY StepMaps
<1> QED BY <1>1, <1>2, <1>3, PTL DEF StoreSpec, ImplementsFileStore, Store!Spec, Store!vars
===============================================================================
