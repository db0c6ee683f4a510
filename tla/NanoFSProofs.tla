------------------------------ MODULE NanoFSProofs ------------------------------
(***************************************************************************)
(* Theorems about NanoFS, proved for every geometry of the disk, every set *)
(* of names and contents: first with any number of handlers that change    *)
(* files, then with one.                                                   *)
(***************************************************************************)
EXTENDS NanoFS, FiniteSetTheorems, WellFoundedInduction, TLAPS

-------------------------------------------------------------------------------
(* Lemmas about the operators.                                             *)

(* A file occupies a natural number of sectors. *)
LEMMA SectorsNat ==
    ASSUME NEW size \in Nat
    PROVE  sectors_for_size(size) \in Nat
BY GeometryAssumption DEF sectors_for_size

(* A nonempty bounded set of naturals has a maximum. *)
LEMMA MaxOfBounded ==
    ASSUME NEW S, S \subseteq Nat, S # {}, NEW b \in Nat, \A x \in S : x <= b
    PROVE  /\ Max(S) \in S
           /\ \A x \in S : x <= Max(S)
<1> DEFINE U == {m \in Nat : \A x \in S : x <= m}
<1>1. PICK m \in U : \A y \in U : ~(<<y, m>> \in OpToRel(<, Nat))
  <2>1. U \subseteq Nat /\ U # {}
    OBVIOUS
  <2> HIDE DEF U
  <2> QED BY <2>1, NatLessThanWellFounded, WFMin
<1>2. \A y \in U : ~(y < m)
  BY <1>1 DEF OpToRel
<1>3. m \in S
  <2>1. SUFFICES ASSUME m \notin S PROVE FALSE
    OBVIOUS
  <2>2. \A x \in S : x <= m - 1
    BY <2>1
  <2>3. m - 1 \in Nat
    <3>1. PICK x \in S : TRUE
      OBVIOUS
    <3> QED BY <2>2, <3>1
  <2>4. m - 1 \in U
    BY <2>2, <2>3
  <2> QED BY <2>4, <1>2
<1>4. \E y \in S : \A x \in S : y >= x
  BY <1>3
<1> QED BY <1>4 DEF Max

(* Every rank up to the size of a finite set of positions has a position,   *)
(* so a sublist has a member at each of its indexes.                        *)
Rank(I, i) == Cardinality({j \in I : j <= i})

LEMMA PositionOfRank ==
    ASSUME NEW n \in Nat, NEW I \in SUBSET (1 .. n), NEW k \in 1 .. Cardinality(I)
    PROVE  \E i \in I : Rank(I, i) = k
<1> DEFINE Upto(i) == {j \in I : j <= i}
<1> DEFINE U == {i \in Nat : Cardinality(Upto(i)) >= k}
<1>0. \A j \in I : j \in Nat /\ 1 <= j /\ j <= n
  OBVIOUS
<1>1. IsFiniteSet(I)
  <2>1. IsFiniteSet(1 .. n)
    BY FS_Interval
  <2> QED BY <2>1, FS_Subset
<1>2. \A i \in Nat : IsFiniteSet(Upto(i)) /\ Cardinality(Upto(i)) \in Nat
  BY <1>1, FS_Subset, FS_CardinalityType
<1>3. n \in U
  <2>1. Upto(n) = I
    BY <1>0
  <2> QED BY <2>1, <1>2
<1>4. PICK m \in U : \A y \in U : ~(<<y, m>> \in OpToRel(<, Nat))
  <2>1. U \subseteq Nat /\ U # {}
    BY <1>3
  <2> HIDE DEF U
  <2> QED BY <2>1, NatLessThanWellFounded, WFMin
<1>5. m \in Nat /\ Cardinality(Upto(m)) >= k
  OBVIOUS
<1> HIDE DEF U
<1>6. m # 0
  <2>1. SUFFICES ASSUME m = 0 PROVE FALSE
    OBVIOUS
  <2>2. \A j \in I : ~(j <= m)
    BY <2>1, <1>0
  <2>3. Upto(m) = {}
    BY <2>2
  <2> QED BY <2>3, <1>5, FS_EmptySet
<1>7. Cardinality(Upto(m - 1)) < k
  <2>1. m - 1 \in Nat /\ m - 1 < m
    BY <1>5, <1>6
  <2>2. m - 1 \notin U
    BY <2>1, <1>4, <1>5 DEF OpToRel
  <2>3. Cardinality(Upto(m - 1)) \in Nat /\ ~(Cardinality(Upto(m - 1)) >= k)
    BY <2>1, <2>2, <1>2 DEF U
  <2> HIDE DEF Upto
  <2> QED BY <2>3
<1>8. m \in I
  <2>1. SUFFICES ASSUME m \notin I PROVE FALSE
    OBVIOUS
  <2>2. \A j \in I : j <= m <=> j <= m - 1
    BY <2>1, <1>0, <1>5
  <2>5. Upto(m) = Upto(m - 1)
    BY <2>2
  <2>3. m - 1 \in Nat
    BY <1>5, <1>6
  <2>4. Cardinality(Upto(m - 1)) \in Nat
    BY <1>2, <2>3
  <2> HIDE DEF Upto
  <2> QED BY <2>5, <2>4, <1>5, <1>7
<1>9. Cardinality(Upto(m)) = Cardinality(Upto(m - 1)) + 1
  <2>5. \A j \in I : j <= m <=> j <= m - 1 \/ j = m
    BY <1>0, <1>5
  <2>1. Upto(m) = Upto(m - 1) \cup {m}
    BY <1>8, <1>5, <2>5
  <2>2. m \notin Upto(m - 1)
    BY <1>5
  <2>3. m - 1 \in Nat
    BY <1>5, <1>6
  <2>4. IsFiniteSet(Upto(m - 1))
    BY <1>2, <2>3
  <2> HIDE DEF Upto
  <2> QED BY <2>1, <2>2, <2>4, FS_AddElement
<1>10. Cardinality(Upto(m)) = k
  <2>1. m - 1 \in Nat
    BY <1>5, <1>6
  <2>2. Cardinality(Upto(m - 1)) \in Nat
    BY <1>2, <2>1
  <2> HIDE DEF Upto
  <2> QED BY <2>2, <1>5, <1>7, <1>9
<1> QED BY <1>8, <1>10 DEF Rank

(* A sublist is a list whose members are those of the list at distinct      *)
(* positions of the set.                                                    *)
LEMMA SublistProperties ==
    ASSUME NEW l, NEW n \in Nat, NEW I \in SUBSET (1 .. n)
    PROVE  /\ Cardinality(I) \in 0 .. n
           /\ Len(Sublist(l, I)) = Cardinality(I)
           /\ DOMAIN Sublist(l, I) = 1 .. Cardinality(I)
           /\ \A k \in 1 .. Cardinality(I) :
                \E i \in I : Rank(I, i) = k /\ Sublist(l, I)[k] = l[i]
<1>1. Cardinality(I) \in 0 .. n
  <2>1. IsFiniteSet(1 .. n) /\ Cardinality(1 .. n) = n
    BY FS_Interval
  <2>2. IsFiniteSet(I) /\ Cardinality(I) <= n
    BY <2>1, FS_Subset
  <2> QED BY <2>2, FS_CardinalityType
<1>2. ASSUME NEW k \in 1 .. Cardinality(I)
      PROVE  \E i \in I : Rank(I, i) = k /\ Sublist(l, I)[k] = l[i]
  <2> DEFINE i == CHOOSE i \in I : Rank(I, i) = k
  <2>1. i \in I /\ Rank(I, i) = k
    BY PositionOfRank
  <2>2. Sublist(l, I)[k] = l[i]
    BY DEF Sublist, Rank
  <2> QED BY <2>1, <2>2
<1>3. Len(Sublist(l, I)) = Cardinality(I) /\ DOMAIN Sublist(l, I) = 1 .. Cardinality(I)
  BY <1>1 DEF Sublist
<1> QED BY <1>1, <1>2, <1>3

(* A sublist of entries is a list of entries. *)
LEMMA SublistSeq ==
    ASSUME NEW l, NEW n \in Nat, NEW I \in SUBSET (1 .. n), NEW T,
           \A i \in I : l[i] \in T
    PROVE  Sublist(l, I) \in Seq(T)
<1>1. ASSUME NEW k \in 1 .. Cardinality(I) PROVE Sublist(l, I)[k] \in T
  <2>1. PICK i \in I : Sublist(l, I)[k] = l[i]
    BY SublistProperties
  <2> QED BY <2>1
<1>2. Cardinality(I) \in Nat
  BY SublistProperties
<1>3. Sublist(l, I) \in [1 .. Cardinality(I) -> T]
  BY <1>1 DEF Sublist
<1> QED BY <1>2, <1>3

-------------------------------------------------------------------------------
(* What parsing a superblock yields. *)

(* Extents, in memory or on disk, that share no sector. *)
Apart(l, n) ==
    \A i, j \in 1 .. n : i # j => SectorsOf(l[i]) \cap SectorsOf(l[j]) = {}

LEMMA SlotsReadRange ==
    ASSUME NEW sb \in SuperBlock
    PROVE  /\ SlotsRead(sb) = 1 .. sb.count
           /\ SlotsRead(sb) \subseteq 1 .. MaxFiles
           /\ FirstSlots(sb) \in SUBSET (1 .. MaxFiles)
           /\ FirstSlots(sb) \subseteq ValidSlots(sb)
           /\ \A i \in ValidSlots(sb) : i \in 1 .. sb.count /\ validate_entry(sb.slots[i])
BY GeometryAssumption DEF SlotsRead, FirstSlots, ValidSlots, SuperBlock

LEMMA SlotsOfSublist ==
    ASSUME NEW l, NEW I \in SUBSET (1 .. MaxFiles)
    PROVE  \A k \in 1 .. Cardinality(I) : \E i \in I : Rank(I, i) = k /\ Sublist(l, I)[k] = l[i]
<1>1. MaxFiles \in Nat BY GeometryAssumption
<1> QED BY <1>1, SublistProperties

(* The entries of a superblock are at most MaxFiles valid entries of        *)
(* different names.                                                         *)
LEMMA EntriesProperties ==
    ASSUME NEW sb \in SuperBlock
    PROVE  /\ Entries(sb) \in Seq(Entry)
           /\ Len(Entries(sb)) \in 0 .. MaxFiles
           /\ \A i \in 1 .. Len(Entries(sb)) : validate_entry(Entries(sb)[i])
           /\ \A i, j \in 1 .. Len(Entries(sb)) :
                i # j => Entries(sb)[i].name # Entries(sb)[j].name
           /\ Apart(sb.slots, sb.count) => Apart(Entries(sb), Len(Entries(sb)))
<1> DEFINE es == Entries(sb)
<1> DEFINE I == FirstSlots(sb)
<1>1. I \in SUBSET (1 .. MaxFiles) /\ MaxFiles \in Nat
  BY SlotsReadRange, GeometryAssumption
<1>2. /\ Len(es) = Cardinality(I)
      /\ Len(es) \in 0 .. MaxFiles
      /\ \A k \in 1 .. Len(es) : \E i \in I : Rank(I, i) = k /\ es[k] = sb.slots[i]
  <2>1. es = Sublist(sb.slots, I)
    BY DEF Entries
  <2> HIDE DEF I, es
  <2>2. Cardinality(I) \in 0 .. MaxFiles /\ Len(es) = Cardinality(I)
    BY <1>1, <2>1, SublistProperties
  <2>3. \A k \in 1 .. Cardinality(I) :
           \E i \in I : Rank(I, i) = k /\ Sublist(sb.slots, I)[k] = sb.slots[i]
    BY <1>1, SlotsOfSublist
  <2>4. \A k \in 1 .. Cardinality(I) : \E i \in I : Rank(I, i) = k /\ es[k] = sb.slots[i]
    BY <2>1, <2>3
  <2> QED BY <2>2, <2>4
<1>3. \A i \in I : sb.slots[i] \in Entry /\ validate_entry(sb.slots[i])
  <2>1. TAKE i \in I
  <2>2. i \in 1 .. MaxFiles /\ validate_entry(sb.slots[i])
    BY SlotsReadRange, <1>1
  <2>3. sb.slots[i] \in Slot
    BY <2>2 DEF SuperBlock
  <2>4. sb.slots[i].name # NoName
    BY <2>2 DEF validate_entry
  <2> QED BY <2>2, <2>3, <2>4 DEF Slot, Entry
<1>4. es \in Seq(Entry)
  <2> HIDE DEF I
  <2> QED BY <1>1, <1>3, SublistSeq DEF Entries, I
<1>5. \A i \in 1 .. Len(es) : validate_entry(es[i])
  BY <1>2, <1>3
<1>6. \A i, j \in 1 .. Len(es) : i # j =>
         \E p, q \in I : p # q /\ es[i] = sb.slots[p] /\ es[j] = sb.slots[q]
  BY <1>2
<1>7. \A p, q \in I : p # q => sb.slots[p].name # sb.slots[q].name
  <2>1. SUFFICES ASSUME NEW p \in I, NEW q \in I, p < q
                 PROVE  sb.slots[p].name # sb.slots[q].name
    BY <1>1
  <2>2. p \in ValidSlots(sb)
    BY SlotsReadRange
  <2> QED BY <2>1, <2>2 DEF FirstSlots
<1>8. \A i, j \in 1 .. Len(es) : i # j => es[i].name # es[j].name
  BY <1>6, <1>7
<1>9. ASSUME Apart(sb.slots, sb.count) PROVE Apart(es, Len(es))
  <2>1. \A p \in I : p \in 1 .. sb.count
    BY SlotsReadRange
  <2>2. SUFFICES ASSUME NEW i \in 1 .. Len(es), NEW j \in 1 .. Len(es), i # j
                 PROVE  SectorsOf(es[i]) \cap SectorsOf(es[j]) = {}
    BY DEF Apart
  <2>3. PICK p \in I, q \in I : p # q /\ es[i] = sb.slots[p] /\ es[j] = sb.slots[q]
    <3> HIDE DEF es, I
    <3> QED BY <2>2, <1>6
  <2>4. SectorsOf(sb.slots[p]) \cap SectorsOf(sb.slots[q]) = {}
    BY <2>1, <2>3, <1>9 DEF Apart
  <2> QED BY <2>3, <2>4
<1> QED BY <1>2, <1>4, <1>5, <1>8, <1>9

(* next_free is a sector of the data region or its end, behind every entry, *)
(* and right behind one of them or at the start of the region.              *)
LEMMA NextFreeProperties ==
    ASSUME NEW sb \in SuperBlock
    PROVE  /\ NextFree(sb) \in DirSectors .. DiskSectors
           /\ \A i \in 1 .. Len(Entries(sb)) : Finish(Entries(sb)[i]) <= NextFree(sb)
           /\ \/ NextFree(sb) = DirSectors
              \/ \E i \in 1 .. Len(Entries(sb)) : NextFree(sb) = Finish(Entries(sb)[i])
<1> DEFINE es == Entries(sb)
<1> DEFINE S == {DirSectors} \cup {Finish(es[i]) : i \in 1 .. Len(es)}
<1>1. \A i \in 1 .. Len(es) : Finish(es[i]) \in Nat /\ Finish(es[i]) <= DiskSectors
  <2>1. TAKE i \in 1 .. Len(es)
  <2>2. es[i] \in Entry /\ validate_entry(es[i])
    BY EntriesProperties
  <2>3. sectors_for_size(es[i].size) \in Nat /\ es[i].start \in Nat
    BY <2>2, SectorsNat DEF Entry
  <2> QED BY <2>2, <2>3 DEF validate_entry, Finish
<1>2. S \subseteq Nat /\ S # {} /\ \A x \in S : x <= DiskSectors
  BY <1>1, GeometryAssumption
<1>3. Max(S) \in S /\ \A x \in S : x <= Max(S)
  <2> HIDE DEF S
  <2> QED BY <1>2, MaxOfBounded, GeometryAssumption
<1>4. ComputedNextFree(es) = Max(S)
  BY DEF ComputedNextFree
<1>5. Max(S) \in DirSectors .. DiskSectors
  BY <1>2, <1>3, GeometryAssumption
<1>6. NextFree(sb) = Max(S)
  <2> HIDE DEF S
  <2> QED BY <1>4, <1>5, GeometryAssumption DEF NextFree
<1> QED BY <1>3, <1>5, <1>6

-------------------------------------------------------------------------------
(* What a superblock write leaves behind. *)

(* The lists of entries that handlers carry. *)
Listing(es) == es \in Seq(Entry) /\ Len(es) <= MaxFiles

LEMMA SuperOfType ==
    ASSUME NEW es, Listing(es), NEW nf \in 0 .. DiskSectors
    PROVE  /\ SuperOf(es, nf) \in SuperBlock
           /\ SuperOf(es, nf).count = Len(es)
           /\ Apart(es, Len(es)) => Apart(SuperOf(es, nf).slots, Len(es))
<1>1. Len(es) \in 0 .. MaxFiles /\ \A i \in 1 .. Len(es) : es[i] \in Entry
  BY GeometryAssumption DEF Listing
<1> DEFINE slot(i) == IF i <= Len(es)
                      THEN [es[i] EXCEPT !.name = OnDiskName[es[i].name]]
                      ELSE ZeroSlot
<1>2. \A i \in 1 .. MaxFiles : slot(i) \in Slot
  BY <1>1, NameAssumption, GeometryAssumption DEF Entry, Slot, ZeroSlot
<1>3. SuperOf(es, nf) \in SuperBlock /\ SuperOf(es, nf).count = Len(es)
  BY <1>1, <1>2 DEF SuperOf, SuperBlock
<1>4. \A i \in 1 .. Len(es) : SectorsOf(SuperOf(es, nf).slots[i]) = SectorsOf(es[i])
  <2>1. TAKE i \in 1 .. Len(es)
  <2>2. SuperOf(es, nf).slots[i] = [es[i] EXCEPT !.name = OnDiskName[es[i].name]]
    BY <1>1, GeometryAssumption DEF SuperOf
  <2>3. /\ SuperOf(es, nf).slots[i].start = es[i].start
        /\ SuperOf(es, nf).slots[i].size = es[i].size
    BY <2>2, <1>1 DEF Entry
  <2> QED BY <2>3 DEF SectorsOf, Finish
<1> QED BY <1>3, <1>4 DEF Apart

LEMMA TornType ==
    ASSUME NEW old \in SuperBlock, NEW new \in SuperBlock, NEW cut
    PROVE  Torn(old, new, cut) \in SuperBlock
<1> DEFINE slot(i) == IF i < cut THEN new.slots[i]
                      ELSE IF i = cut THEN [old.slots[i] EXCEPT !.name = new.slots[i].name]
                      ELSE old.slots[i]
<1>1. \A i \in 1 .. MaxFiles : new.slots[i] \in Slot /\ old.slots[i] \in Slot
  BY DEF SuperBlock
<1>2. \A i \in 1 .. MaxFiles : slot(i) \in Slot
  BY <1>1 DEF Slot
<1>3. Torn(old, new, cut) = [new EXCEPT !.slots = [i \in 1 .. MaxFiles |-> slot(i)]]
  BY DEF Torn
<1> HIDE DEF slot
<1> QED BY <1>2, <1>3 DEF SuperBlock

LEMMA InterruptedType ==
    ASSUME NEW old \in SuperBlock, NEW new \in SuperBlock
    PROVE  Interrupted(old, new) \subseteq SuperBlock
BY TornType DEF Interrupted

LEMMA EmptyListing == Listing(<<>>) /\ Apart(<<>>, 0) /\ Len(<<>>) = 0
BY GeometryAssumption DEF Listing, Apart

LEMMA EntriesListing ==
    ASSUME NEW sb \in SuperBlock
    PROVE  Listing(Entries(sb))
BY EntriesProperties, GeometryAssumption DEF Listing

(* update_cache keeps a table of extents. *)
CacheType(t) == DOMAIN t \subseteq Names /\ \A n \in DOMAIN t : t[n] \in Extent

LEMMA CacheOfType ==
    ASSUME NEW es, Listing(es)
    PROVE  CacheType(CacheOf(es))
<1>1. Len(es) \in Nat /\ \A i \in 1 .. Len(es) : es[i] \in Entry
  BY DEF Listing
<1>2. DOMAIN CacheOf(es) = NamesIn(es)
  BY DEF CacheOf
<1>3. NamesIn(es) \subseteq Names
  BY <1>1 DEF NamesIn, Entry
<1>4. ASSUME NEW n \in NamesIn(es)
      PROVE  CacheOf(es)[n] \in Extent
  <2> DEFINE At == {i \in 1 .. Len(es) : es[i].name = n}
  <2>1. At \subseteq Nat /\ At # {} /\ \A i \in At : i <= Len(es)
    BY <1>1 DEF NamesIn
  <2>2. Max(At) \in At /\ \A j \in At : j <= Max(At)
    <3> HIDE DEF At
    <3> QED BY <2>1, <1>1, MaxOfBounded
  <2> DEFINE last == CHOOSE i \in 1 .. Len(es) :
                        /\ es[i].name = n
                        /\ \A j \in 1 .. Len(es) : es[j].name = n => j <= i
  <2>3. last \in 1 .. Len(es)
    BY <2>2
  <2>4. CacheOf(es)[n] = [start |-> es[last].start, size |-> es[last].size]
    BY DEF CacheOf
  <2> HIDE DEF last
  <2> QED BY <2>3, <2>4, <1>1 DEF Entry, Extent
<1> QED BY <1>2, <1>3, <1>4 DEF CacheType

LEMMA NoFilesType == CacheType(NoFiles)
BY DEF CacheType, NoFiles

-------------------------------------------------------------------------------
(* The variables of the handlers. *)

HandlersType ==
    /\ pc \in [Clients -> Labels]
    /\ plan \in [Clients -> Plan]
    /\ \A c \in Clients : Len(plan[c].entries) <= MaxFiles
    /\ reply \in [Clients -> Reply]

(* A handler that is not idle serves a request. *)
Serving == \A c \in Clients : pc[c] # "idle" => req[c] \in Request

LEMMA NoPlanType == NoPlan \in Plan /\ Len(NoPlan.entries) <= MaxFiles
BY GeometryAssumption DEF NoPlan, Plan

LEMMA GotoType ==
    ASSUME HandlersType, NEW c \in Clients, NEW label \in Labels,
           NEW p \in Plan, Len(p.entries) <= MaxFiles, Goto(c, label, p)
    PROVE  HandlersType'
<1>1. NoReply \in Reply
  BY DEF NoReply, Reply, Results
<1> QED BY <1>1 DEF HandlersType, Goto

LEMMA AnswerType ==
    ASSUME HandlersType, NEW c \in Clients, NEW result \in Results,
           NEW x \in Contents \cup {Garbage}, Answer(c, result, x)
    PROVE  HandlersType'
<1>1. [result |-> result, content |-> x] \in Reply
  BY DEF Reply
<1>2. "idle" \in Labels
  BY DEF Labels
<1> HIDE DEF Labels
<1> QED BY <1>1, <1>2, NoPlanType DEF HandlersType, Answer

LEMMA FailType ==
    ASSUME HandlersType, NEW c \in Clients, NEW result \in Results, Fail(c, result)
    PROVE  HandlersType'
BY AnswerType DEF Fail

LEMMA BodyType ==
    ASSUME NEW r \in Request \cup {NoRequest}
    PROVE  Body(r) \in Contents /\ ContentSize[Body(r)] \in Nat
BY ContentAssumption DEF Body, Request, NoRequest

LEMMA ContentAtType ==
    ASSUME NEW d, NEW e
    PROVE  ContentAt(d, e) \in Contents \cup {Garbage}
BY DEF ContentAt

(* What may be stored in the data region. *)
DataType == data \in [DataSectors -> (Contents \cup {Garbage}) \X Nat]

LEMMA WithPiecesType ==
    ASSUME DataType, NEW x \in Contents, NEW e \in Plan,
           NEW some \in SUBSET SectorsOf(e), data' = WithPieces(x, e.start, some)
    PROVE  DataType'
<1>1. e.start \in Nat
  BY DEF Plan
<1>2. \A s \in some : s - e.start \in Nat
  BY <1>1 DEF SectorsOf
<1> HIDE DEF DataSectors
<1> QED BY <1>2 DEF WithPieces, DataType

(* The list of entries with one removed, replaced or appended is a list     *)
(* of entries that fits the directory.                                      *)
LEMMA KeptListing ==
    ASSUME NEW es, Listing(es), NEW name
    PROVE  Listing(Kept(es, name))
<1>1. /\ Len(es) \in Nat /\ Len(es) <= MaxFiles
      /\ \A i \in 1 .. Len(es) : es[i] \in Entry
  BY DEF Listing
<1> DEFINE I == (1 .. Len(es)) \ Located(es, name)
<1>2. I \in SUBSET (1 .. Len(es)) /\ \A i \in I : es[i] \in Entry
  BY <1>1
<1> HIDE DEF I
<1>3. Sublist(es, I) \in Seq(Entry) /\ Len(Sublist(es, I)) \in 0 .. Len(es)
  <2>1. Len(es) \in Nat
    BY <1>1
  <2>2. Sublist(es, I) \in Seq(Entry)
    BY <1>2, <2>1, SublistSeq
  <2>3. Len(Sublist(es, I)) = Cardinality(I) /\ Cardinality(I) \in 0 .. Len(es)
    BY <1>2, <2>1, SublistProperties
  <2> QED BY <2>2, <2>3
<1>4. Len(Sublist(es, I)) <= MaxFiles
  BY <1>1, <1>3, GeometryAssumption
<1> QED BY <1>3, <1>4 DEF Listing, Kept, I

LEMMA PlaceListing ==
    ASSUME NEW es, Listing(es), NEW new \in Entry, ~DirectoryFull(es, new.name)
    PROVE  Listing(Place(es, new))
<1>1. /\ Len(es) \in Nat /\ Len(es) <= MaxFiles
      /\ \A i \in 1 .. Len(es) : es[i] \in Entry
      /\ es \in Seq(Entry)
  BY DEF Listing
<1>2. CASE Located(es, new.name) = {}
  <2>1. Len(es) + 1 <= MaxFiles
    BY <1>1, <1>2, GeometryAssumption DEF DirectoryFull
  <2>2. Append(es, new) \in Seq(Entry) /\ Len(Append(es, new)) = Len(es) + 1
    BY <1>1
  <2> QED BY <1>2, <2>1, <2>2 DEF Place, Listing
<1>3. CASE Located(es, new.name) # {}
  <2> DEFINE r == [i \in 1 .. Len(es) |-> IF es[i].name = new.name THEN new ELSE es[i]]
  <2>1. r \in [1 .. Len(es) -> Entry]
    BY <1>1
  <2>2. r \in Seq(Entry) /\ Len(r) = Len(es)
    BY <1>1, <2>1
  <2>3. Place(es, new) = r
    BY <1>3 DEF Place
  <2> HIDE DEF r
  <2> QED BY <1>1, <2>2, <2>3 DEF Listing
<1> QED BY <1>2, <1>3

-------------------------------------------------------------------------------
(* The type of the state. *)

TypeInv == TypeOK /\ Serving

(* TypeOK in the parts that the lemmas above speak of. *)
Parts ==
    /\ super \in SuperBlock
    /\ DataType
    /\ CacheType(cache)
    /\ boot \in {"down", "repair", "check", "format", "run"}
    /\ req \in [Clients -> Request \cup {NoRequest}]
    /\ HandlersType

LEMMA TypeParts == (TypeOK <=> Parts) /\ (TypeOK' <=> Parts')
BY DEF TypeOK, Parts, DataType, CacheType, HandlersType

(* What a handler writes: a superblock. *)
LEMMA WrittenSupers ==
    ASSUME TypeOK
    PROVE  /\ RepairedSuper \in SuperBlock
           /\ FreshSuper \in SuperBlock
           /\ \A c \in Clients : PlannedSuper(c) \in SuperBlock
<1>1. RepairedSuper \in SuperBlock
  <2>1. NextFree(super) \in 0 .. DiskSectors /\ Listing(Entries(super))
    BY TypeParts, NextFreeProperties, EntriesListing, GeometryAssumption DEF Parts
  <2> QED BY <2>1, SuperOfType DEF RepairedSuper
<1>2. FreshSuper \in SuperBlock
  BY SuperOfType, EmptyListing, GeometryAssumption DEF FreshSuper
<1>3. ASSUME NEW c \in Clients PROVE PlannedSuper(c) \in SuperBlock
  <2>1. plan[c].next_free \in 0 .. DiskSectors /\ Listing(plan[c].entries)
    BY DEF TypeOK, Plan, Listing
  <2> QED BY <2>1, SuperOfType DEF PlannedSuper
<1> QED BY <1>1, <1>2, <1>3

LEMMA TypeInit == Init => TypeInv
<1> SUFFICES ASSUME Init PROVE TypeInv
  OBVIOUS
<1>1. super \in SuperBlock
  BY GeometryAssumption DEF Init, Blank, SuperBlock, Slot, ZeroSlot
<1>2. DataType
  BY DEF Init, DataType
<1>3. CacheType(cache)
  BY NoFilesType DEF Init
<1>4. HandlersType
  BY NoPlanType DEF Init, HandlersType, Labels, NoReply, Reply, Results
<1> QED BY <1>1, <1>2, <1>3, <1>4, TypeParts DEF TypeInv, Parts, Init, Serving

LEMMA MountType == TypeInv /\ Mount => TypeInv'
<1> SUFFICES ASSUME TypeInv, Mount PROVE TypeInv'
  OBVIOUS
<1> USE TypeParts DEF TypeInv, Parts
<1>1. UNCHANGED handlers => HandlersType' /\ Serving' /\ req' \in [Clients -> Request \cup {NoRequest}]
  BY DEF handlers, HandlersType, Serving
<1>2. UNCHANGED data => DataType'
  BY DEF DataType
<1>3. CASE Connect
  <2>1. CacheType(cache)'
    BY <1>3, EntriesListing, CacheOfType, NoFilesType DEF Connect, update_cache
  <2> QED BY <1>1, <1>2, <1>3, <2>1 DEF Connect, disk
<1>4. CASE Repair
  <2>1. super' \in SuperBlock
    BY <1>4, WrittenSupers, InterruptedType DEF Repair
  <2> QED BY <1>1, <1>2, <1>4, <2>1 DEF Repair, CacheType
<1>5. CASE Check
  BY <1>1, <1>2, <1>5 DEF Check, disk, CacheType
<1>6. CASE Format
  <2>1. super' \in SuperBlock
    BY <1>6, WrittenSupers, InterruptedType DEF Format
  <2>2. CacheType(cache)'
    BY <1>6, EmptyListing, CacheOfType DEF Format, update_cache, CacheType
  <2> QED BY <1>1, <1>2, <1>6, <2>1, <2>2 DEF Format
<1> QED BY <1>3, <1>4, <1>5, <1>6 DEF Mount

LEMMA CrashType == TypeInv /\ Crash => TypeInv'
<1> SUFFICES ASSUME TypeInv, Crash PROVE TypeInv'
  OBVIOUS
<1> USE TypeParts DEF TypeInv, Parts
<1>1. HandlersType' /\ Serving' /\ req' \in [Clients -> Request \cup {NoRequest}]
  <2>1. NoReply \in Reply /\ "idle" \in Labels
    BY DEF NoReply, Reply, Results, Labels
  <2> QED BY <2>1, NoPlanType DEF Crash, Reset, HandlersType, Serving
<1>2. CacheType(cache)'
  BY NoFilesType DEF Crash, Reset
<1>3. super' \in SuperBlock
  BY WrittenSupers, InterruptedType DEF Crash, disk
<1>4. DataType'
  <2>1. CASE UNCHANGED data
    BY <2>1 DEF DataType
  <2>2. ASSUME NEW c \in Clients, NEW some \in SUBSET SectorsOf(plan[c]),
               data' = WithPieces(Body(req[c]), plan[c].start, some)
        PROVE  DataType'
    BY <2>2, BodyType, WithPiecesType DEF HandlersType
  <2> QED BY <2>1, <2>2 DEF Crash, disk
<1> QED BY <1>1, <1>2, <1>3, <1>4 DEF Crash, Reset

LEMMA StartType ==
    ASSUME TypeInv, NEW c \in Clients, NEW r \in Requests[c], Start(c, r)
    PROVE  TypeInv'
<1> USE TypeParts DEF TypeInv, Parts
<1>1. r \in Request
  BY RequestAssumption
<1>2. HandlersType'
  <2>1. CASE Goto(c, "load", NoPlan)
    BY <2>1, NoPlanType, GotoType DEF Labels
  <2>2. CASE Fail(c, "File_exists") \/ Fail(c, "File_not_found")
    BY <2>2, FailType DEF Results
  <2>3. CASE /\ r.name \in DOMAIN cache
             /\ Goto(c, "fetch", [NoPlan EXCEPT !.start = cache[r.name].start,
                                                !.size = cache[r.name].size])
    <3> DEFINE p == [NoPlan EXCEPT !.start = cache[r.name].start, !.size = cache[r.name].size]
    <3>1. p \in Plan /\ Len(p.entries) <= MaxFiles
      BY <2>3, NoPlanType, GeometryAssumption DEF CacheType, Extent, Plan, NoPlan
    <3> HIDE DEF p
    <3> QED BY <2>3, <3>1, GotoType DEF Labels, p
  <2> QED BY <2>1, <2>2, <2>3 DEF Start
<1>3. Serving' /\ req' \in [Clients -> Request \cup {NoRequest}]
  BY <1>1 DEF Start, Goto, Fail, Answer, Serving, HandlersType
<1>4. UNCHANGED <<disk, cache, boot>>
  BY DEF Start
<1> QED BY <1>2, <1>3, <1>4 DEF disk, DataType, CacheType

(* The entry that a write adds, and what is planned for it. *)
NewEntry(c, es, nf) ==
    [name |-> req[c].name, start |-> Allocate(es, req[c].name, nf),
     size |-> ContentSize[Body(req[c])]]

LEMMA PlanWriteType ==
    ASSUME TypeInv, NEW c \in Clients, pc[c] = "load",
           NEW es, Listing(es), NEW nf \in Nat, PlanWrite(c, es, nf)
    PROVE  /\ HandlersType'
           /\ NewEntry(c, es, nf) \in Entry
           /\ NewEntry(c, es, nf).start = nf
           /\ \/ Fail(c, "No_space")
              \/ Goto(c, "data", [entries |-> Place(es, NewEntry(c, es, nf)),
                                  next_free |-> Finish(NewEntry(c, es, nf)),
                                  start |-> nf, size |-> NewEntry(c, es, nf).size])
<1> USE TypeParts DEF TypeInv, Parts
<1> DEFINE new == NewEntry(c, es, nf)
<1>1. req[c] \in Request
  BY DEF Serving
<1>2. new \in Entry /\ new.start = nf /\ new.name = req[c].name
  BY <1>1, BodyType DEF NewEntry, Entry, Allocate, Request
<1>3. CASE Fail(c, "No_space")
  BY <1>2, <1>3, FailType DEF Results
<1>4. CASE /\ ~DirectoryFull(es, new.name)
           /\ Finish(new) <= DiskSectors
           /\ Goto(c, "data", [entries |-> Place(es, new), next_free |-> Finish(new),
                               start |-> new.start, size |-> new.size])
  <2> DEFINE p == [entries |-> Place(es, new), next_free |-> Finish(new),
                   start |-> new.start, size |-> new.size]
  <2>1. Listing(Place(es, new))
    BY <1>2, <1>4, PlaceListing
  <2>2. new.size \in Nat /\ Finish(new) \in Nat
    BY <1>2, SectorsNat DEF Entry, Finish
  <2>3. p \in Plan /\ Len(p.entries) <= MaxFiles
    BY <1>2, <1>4, <2>1, <2>2, GeometryAssumption DEF Plan, Listing
  <2> HIDE DEF p, new
  <2>4. HandlersType'
    BY <1>4, <2>3, GotoType DEF Labels, p
  <2> QED BY <1>2, <1>4, <2>4 DEF new
<1> QED BY <1>2, <1>3, <1>4 DEF PlanWrite, NewEntry

LEMMA PlanDeleteType ==
    ASSUME TypeInv, NEW c \in Clients, NEW es, Listing(es), NEW nf \in 0 .. DiskSectors,
           PlanDelete(c, es, nf)
    PROVE  HandlersType'
<1> USE TypeParts DEF TypeInv, Parts
<1> DEFINE p == [NoPlan EXCEPT !.entries = Kept(es, req[c].name), !.next_free = nf]
<1>1. CASE Fail(c, "File_not_found")
  BY <1>1, FailType DEF Results
<1>2. CASE Goto(c, "super", p)
  <2>1. Listing(Kept(es, req[c].name))
    BY KeptListing
  <2>2. p \in Plan /\ Len(p.entries) <= MaxFiles
    BY <2>1, GeometryAssumption DEF Listing, Plan, NoPlan
  <2> HIDE DEF p
  <2> QED BY <1>2, <2>2, GotoType DEF Labels
<1> QED BY <1>1, <1>2 DEF PlanDelete

LEMMA LoadType ==
    ASSUME TypeInv, NEW c \in Clients, Load(c)
    PROVE  TypeInv'
<1> USE TypeParts DEF TypeInv, Parts
<1>1. Listing(Entries(super)) /\ NextFree(super) \in 0 .. DiskSectors
  BY EntriesListing, NextFreeProperties, GeometryAssumption
<1>2. HandlersType'
  <2>1. CASE Fail(c, "Block_error") \/ Fail(c, "Corrupt_filesystem")
    BY <2>1, FailType DEF Results
  <2>2. CASE PlanDelete(c, Entries(super), NextFree(super))
    BY <1>1, <2>2, PlanDeleteType
  <2>3. CASE PlanWrite(c, Entries(super), NextFree(super))
    <3>1. NextFree(super) \in Nat /\ pc[c] = "load"
      BY <1>1, GeometryAssumption DEF Load
    <3> QED BY <1>1, <2>3, <3>1, PlanWriteType
  <2> QED BY <2>1, <2>2, <2>3 DEF Load
<1>3. UNCHANGED <<super, data, cache, boot, req>>
  BY DEF Load, disk
<1>4. \A d \in Clients : pc'[d] # "idle" => pc[d] # "idle"
  BY DEF Load, PlanDelete, PlanWrite, Goto, Fail, Answer, HandlersType
<1> QED BY <1>2, <1>3, <1>4 DEF DataType, CacheType, Serving

LEMMA WriteDataType ==
    ASSUME TypeInv, NEW c \in Clients, WriteData(c)
    PROVE  TypeInv'
<1> USE TypeParts DEF TypeInv, Parts
<1>1. plan[c] \in Plan /\ Len(plan[c].entries) <= MaxFiles /\ Body(req[c]) \in Contents
  BY BodyType DEF HandlersType
<1>2. HandlersType'
  BY <1>1, GotoType, FailType DEF WriteData, Labels, Results
<1>3. DataType'
  BY <1>1, WithPiecesType DEF WriteData
<1>4. \A d \in Clients : pc'[d] # "idle" => pc[d] # "idle"
  BY DEF WriteData, Goto, Fail, Answer, HandlersType
<1> QED BY <1>2, <1>3, <1>4 DEF WriteData, CacheType, Serving

LEMMA WriteSuperType ==
    ASSUME TypeInv, NEW c \in Clients, WriteSuper(c)
    PROVE  TypeInv'
<1> USE TypeParts DEF TypeInv, Parts
<1>1. plan[c] \in Plan /\ Len(plan[c].entries) <= MaxFiles
  BY DEF HandlersType
<1>2. HandlersType'
  BY <1>1, GotoType, FailType DEF WriteSuper, Labels, Results
<1>3. super' \in SuperBlock
  BY WrittenSupers, InterruptedType DEF WriteSuper
<1>4. \A d \in Clients : pc'[d] # "idle" => pc[d] # "idle"
  BY DEF WriteSuper, Goto, Fail, Answer, HandlersType
<1> QED BY <1>2, <1>3, <1>4 DEF WriteSuper, DataType, CacheType, Serving

LEMMA PublishType ==
    ASSUME TypeInv, NEW c \in Clients, Publish(c)
    PROVE  TypeInv'
<1> USE TypeParts DEF TypeInv, Parts
<1>1. HandlersType'
  BY AnswerType, BodyType DEF Publish, Results
<1>2. CacheType(cache)'
  <2>1. Listing(plan[c].entries)
    BY DEF HandlersType, Plan, Listing
  <2> QED BY <2>1, CacheOfType DEF Publish, update_cache
<1>3. \A d \in Clients : pc'[d] # "idle" => pc[d] # "idle"
  BY DEF Publish, Answer, HandlersType
<1> QED BY <1>1, <1>2, <1>3 DEF Publish, disk, DataType, Serving

LEMMA FetchType ==
    ASSUME TypeInv, NEW c \in Clients, Fetch(c)
    PROVE  TypeInv'
<1> USE TypeParts DEF TypeInv, Parts
<1>1. HandlersType'
  BY AnswerType, FailType, ContentAtType DEF Fetch, Results
<1>2. \A d \in Clients : pc'[d] # "idle" => pc[d] # "idle"
  BY DEF Fetch, Fail, Answer, HandlersType
<1> QED BY <1>1, <1>2 DEF Fetch, disk, DataType, CacheType, Serving

LEMMA StutterType == TypeInv /\ UNCHANGED vars => TypeInv'
BY TypeParts DEF TypeInv, Parts, vars, DataType, CacheType, HandlersType, Serving

LEMMA TypeStep == TypeInv /\ [Next]_vars => TypeInv'
BY MountType, CrashType, StartType, LoadType, WriteDataType, WriteSuperType,
   PublishType, FetchType, StutterType DEF Next, Handler

LEMMA TypeInvariant == Spec => []TypeInv
<1>1. TypeInv /\ [Next]_vars => TypeInv'
  BY TypeStep
<1> QED BY <1>1, TypeInit, PTL DEF Spec

(* Whatever handlers interleave, wherever the program crashes and whatever  *)
(* device call fails, the state has its type; in particular a directory     *)
(* never has more entries than the buffer of write_superblock has slots.    *)
THEOREM TypeCorrect == Spec => []TypeOK
<1>1. TypeInv => TypeOK
  BY DEF TypeInv
<1> QED BY <1>1, TypeInvariant, PTL

-------------------------------------------------------------------------------
(* The files of the directory share no sector, if a superblock write is     *)
(* atomic.  DirectorySound speaks of what parse_superblock makes of the     *)
(* disk; the invariant speaks of all slots of the disk and of the lists     *)
(* that handlers are about to write, which may be stale copies.             *)

ApartSuper(sb) == Apart(sb.slots, sb.count)

DirectoryInv ==
    /\ TypeInv
    /\ ApartSuper(super)
    /\ \A c \in Clients : Apart(plan[c].entries, Len(plan[c].entries))

LEMMA ApartWhenBehind ==
    ASSUME NEW e \in Entry, NEW f, f.start \in Nat, f.size \in Nat, Finish(e) <= f.start
    PROVE  SectorsOf(e) \cap SectorsOf(f) = {}
<1>1. /\ e.start \in Nat /\ sectors_for_size(e.size) \in Nat
      /\ f.start \in Nat /\ sectors_for_size(f.size) \in Nat
  BY SectorsNat DEF Entry
<1> QED BY <1>1 DEF SectorsOf, Finish

(* Placing a file behind all others, in its own slot or in a new one. *)
LEMMA PlaceApart ==
    ASSUME NEW es, Listing(es), Apart(es, Len(es)),
           \A i, j \in 1 .. Len(es) : i # j => es[i].name # es[j].name,
           NEW new \in Entry, \A i \in 1 .. Len(es) : Finish(es[i]) <= new.start
    PROVE  Apart(Place(es, new), Len(Place(es, new)))
<1>1. /\ Len(es) \in Nat
      /\ \A i \in 1 .. Len(es) : es[i] \in Entry
      /\ es \in Seq(Entry)
  BY DEF Listing
<1>2. \A i \in 1 .. Len(es) : /\ SectorsOf(es[i]) \cap SectorsOf(new) = {}
                              /\ SectorsOf(new) \cap SectorsOf(es[i]) = {}
  BY <1>1, ApartWhenBehind DEF Entry
<1>3. CASE Located(es, new.name) = {}
  <2>1. /\ Len(Append(es, new)) = Len(es) + 1
        /\ \A i \in 1 .. Len(es) : Append(es, new)[i] = es[i]
        /\ Append(es, new)[Len(es) + 1] = new
    BY <1>1
  <2>2. ASSUME NEW i \in 1 .. (Len(es) + 1), NEW j \in 1 .. (Len(es) + 1), i # j
        PROVE  SectorsOf(Append(es, new)[i]) \cap SectorsOf(Append(es, new)[j]) = {}
    <3>1. CASE i \in 1 .. Len(es) /\ j \in 1 .. Len(es)
      BY <2>1, <2>2, <3>1 DEF Apart
    <3>2. CASE i \in 1 .. Len(es) /\ j = Len(es) + 1
      BY <1>2, <2>1, <3>2
    <3>3. CASE i = Len(es) + 1 /\ j \in 1 .. Len(es)
      BY <1>2, <2>1, <3>3
    <3>4. Len(es) \in Nat
      BY <1>1
    <3>5. \/ i \in 1 .. Len(es) /\ j \in 1 .. Len(es)
          \/ i \in 1 .. Len(es) /\ j = Len(es) + 1
          \/ i = Len(es) + 1 /\ j \in 1 .. Len(es)
      BY <2>2, <3>4
    <3> QED BY <3>1, <3>2, <3>3, <3>5
  <2> QED BY <1>3, <2>1, <2>2 DEF Place, Apart
<1>4. CASE Located(es, new.name) # {}
  <2> DEFINE r == [i \in 1 .. Len(es) |-> IF es[i].name = new.name THEN new ELSE es[i]]
  <2>1. Place(es, new) = r /\ Len(r) = Len(es)
    BY <1>1, <1>4 DEF Place
  <2>2. ASSUME NEW i \in 1 .. Len(es), NEW j \in 1 .. Len(es), i # j
        PROVE  SectorsOf(r[i]) \cap SectorsOf(r[j]) = {}
    <3>3. ~(es[i].name = new.name /\ es[j].name = new.name)
      BY <2>2
    <3>4. SectorsOf(es[i]) \cap SectorsOf(es[j]) = {}
      BY <2>2 DEF Apart
    <3>5. CASE r[i] = es[i] /\ r[j] = es[j]
      BY <3>4, <3>5
    <3>6. CASE r[i] = new /\ r[j] = es[j]
      BY <1>2, <3>6
    <3>7. CASE r[i] = es[i] /\ r[j] = new
      BY <1>2, <3>7
    <3> QED BY <3>3, <3>5, <3>6, <3>7
  <2> HIDE DEF r
  <2> QED BY <2>1, <2>2 DEF Apart
<1> QED BY <1>3, <1>4

LEMMA KeptApart ==
    ASSUME NEW es, Listing(es), Apart(es, Len(es)), NEW name
    PROVE  Apart(Kept(es, name), Len(Kept(es, name)))
<1> DEFINE I == (1 .. Len(es)) \ Located(es, name)
<1> DEFINE kept == Sublist(es, I)
<1>1. Len(es) \in Nat /\ I \in SUBSET (1 .. Len(es)) /\ Kept(es, name) = kept
  BY DEF Listing, Kept
<1> HIDE DEF I
<1>2. /\ Len(kept) = Cardinality(I)
      /\ \A k \in 1 .. Cardinality(I) : \E i \in I : Rank(I, i) = k /\ kept[k] = es[i]
  BY <1>1, SublistProperties
<1> HIDE DEF kept
<1>3. ASSUME NEW k \in 1 .. Len(kept), NEW m \in 1 .. Len(kept), k # m
      PROVE  SectorsOf(kept[k]) \cap SectorsOf(kept[m]) = {}
  <2>1. PICK i \in I, j \in I : i # j /\ kept[k] = es[i] /\ kept[m] = es[j]
    BY <1>2, <1>3
  <2> QED BY <1>1, <2>1 DEF Apart
<1> QED BY <1>1, <1>3 DEF Apart

(* The superblocks that a step may write, and all it may leave of them. *)
LEMMA ApartSupers ==
    ASSUME DirectoryInv
    PROVE  /\ ApartSuper(RepairedSuper)
           /\ ApartSuper(FreshSuper)
           /\ \A c \in Clients : ApartSuper(PlannedSuper(c))
<1> USE TypeParts DEF DirectoryInv, TypeInv, Parts
<1>1. ApartSuper(RepairedSuper)
  <2>1. /\ Listing(Entries(super)) /\ NextFree(super) \in 0 .. DiskSectors
        /\ Apart(Entries(super), Len(Entries(super)))
    BY EntriesListing, EntriesProperties, NextFreeProperties, GeometryAssumption
       DEF ApartSuper
  <2> QED BY <2>1, SuperOfType DEF RepairedSuper, ApartSuper
<1>2. ApartSuper(FreshSuper)
  BY EmptyListing, SuperOfType, GeometryAssumption DEF FreshSuper, ApartSuper
<1>3. ASSUME NEW c \in Clients PROVE ApartSuper(PlannedSuper(c))
  <2>1. plan[c].next_free \in 0 .. DiskSectors /\ Listing(plan[c].entries)
    BY DEF HandlersType, Plan, Listing
  <2> QED BY <2>1, SuperOfType DEF PlannedSuper, ApartSuper
<1> QED BY <1>1, <1>2, <1>3

LEMMA InterruptedAtomic ==
    ASSUME Cuts = {}, NEW old, NEW new
    PROVE  Interrupted(old, new) = {old, new}
BY DEF Interrupted

LEMMA DirectoryInit == Init => DirectoryInv
<1> SUFFICES ASSUME Init PROVE DirectoryInv
  OBVIOUS
<1>1. ApartSuper(super)
  BY DEF Init, Blank, ApartSuper, Apart
<1>2. \A c \in Clients : Apart(plan[c].entries, Len(plan[c].entries))
  BY EmptyListing DEF Init, NoPlan
<1> QED BY <1>1, <1>2, TypeInit DEF DirectoryInv

(* A step keeps the invariant if the superblock it leaves and the list it   *)
(* plans to write are apart.                                                *)
LEMMA GotoApart ==
    ASSUME DirectoryInv, NEW c \in Clients, NEW label, NEW p,
           Goto(c, label, p), Apart(p.entries, Len(p.entries))
    PROVE  \A d \in Clients : Apart(plan'[d].entries, Len(plan'[d].entries))
BY DEF DirectoryInv, TypeInv, TypeOK, Goto

LEMMA AnswerApart ==
    ASSUME DirectoryInv, NEW c \in Clients, NEW result, NEW x, Answer(c, result, x)
    PROVE  \A d \in Clients : Apart(plan'[d].entries, Len(plan'[d].entries))
BY EmptyListing DEF DirectoryInv, TypeInv, TypeOK, Answer, NoPlan

LEMMA LoadApart ==
    ASSUME DirectoryInv, NEW c \in Clients, Load(c)
    PROVE  \A d \in Clients : Apart(plan'[d].entries, Len(plan'[d].entries))
<1> DEFINE es == Entries(super)
<1> DEFINE nf == NextFree(super)
<1>1. /\ Listing(es) /\ Apart(es, Len(es)) /\ nf \in Nat
      /\ \A i, j \in 1 .. Len(es) : i # j => es[i].name # es[j].name
      /\ \A i \in 1 .. Len(es) : Finish(es[i]) <= nf
  BY EntriesListing, EntriesProperties, NextFreeProperties, GeometryAssumption
     DEF DirectoryInv, TypeInv, TypeOK, ApartSuper
<1> HIDE DEF es, nf
<1>2. CASE Fail(c, "Block_error") \/ Fail(c, "Corrupt_filesystem")
  BY <1>2, AnswerApart DEF Fail
<1>3. CASE PlanDelete(c, es, nf)
  <2>1. CASE Fail(c, "File_not_found")
    BY <2>1, AnswerApart DEF Fail
  <2>2. CASE Goto(c, "super", [NoPlan EXCEPT !.entries = Kept(es, req[c].name),
                                             !.next_free = nf])
    <3> DEFINE p == [NoPlan EXCEPT !.entries = Kept(es, req[c].name), !.next_free = nf]
    <3>1. p.entries = Kept(es, req[c].name)
      BY DEF NoPlan
    <3>2. Apart(p.entries, Len(p.entries))
      BY <1>1, <3>1, KeptApart
    <3> HIDE DEF p
    <3> QED BY <2>2, <3>2, GotoApart DEF p
  <2> QED BY <1>3, <2>1, <2>2 DEF PlanDelete
<1>4. CASE PlanWrite(c, es, nf)
  <2> DEFINE new == NewEntry(c, es, nf)
  <2>1. /\ new \in Entry /\ new.start = nf
        /\ \/ Fail(c, "No_space")
           \/ Goto(c, "data", [entries |-> Place(es, new), next_free |-> Finish(new),
                               start |-> nf, size |-> new.size])
    BY <1>1, <1>4, PlanWriteType DEF Load, DirectoryInv
  <2> HIDE DEF new
  <2>2. Apart(Place(es, new), Len(Place(es, new)))
    BY <1>1, <2>1, PlaceApart
  <2>3. CASE Fail(c, "No_space")
    BY <2>3, AnswerApart DEF Fail
  <2>4. CASE Goto(c, "data", [entries |-> Place(es, new), next_free |-> Finish(new),
                              start |-> nf, size |-> new.size])
    BY <2>2, <2>4, GotoApart
  <2> QED BY <2>1, <2>3, <2>4
<1> QED BY <1>2, <1>3, <1>4 DEF Load, es, nf

LEMMA HandlerApart ==
    ASSUME Cuts = {}, DirectoryInv, NEW c \in Clients, Handler(c)
    PROVE  /\ ApartSuper(super')
           /\ \A d \in Clients : Apart(plan'[d].entries, Len(plan'[d].entries))
<1>1. ASSUME NEW r \in Requests[c], Start(c, r)
      PROVE  /\ UNCHANGED super
             /\ \A d \in Clients : Apart(plan'[d].entries, Len(plan'[d].entries))
  <2>1. Apart(NoPlan.entries, Len(NoPlan.entries))
    BY EmptyListing DEF NoPlan
  <2>2. Apart([NoPlan EXCEPT !.start = cache[r.name].start, !.size = cache[r.name].size].entries,
              Len([NoPlan EXCEPT !.start = cache[r.name].start,
                                 !.size = cache[r.name].size].entries))
    BY EmptyListing DEF NoPlan
  <2> QED BY <1>1, <2>1, <2>2, GotoApart, AnswerApart DEF Start, Fail, disk
<1>2. CASE Load(c)
  BY <1>2, LoadApart DEF Load, disk, DirectoryInv
<1>3. CASE WriteData(c)
  BY <1>3, GotoApart, AnswerApart DEF WriteData, Fail, DirectoryInv
<1>4. CASE WriteSuper(c)
  <2>1. super' \in {super, PlannedSuper(c)}
    BY <1>4, InterruptedAtomic DEF WriteSuper
  <2>2. ApartSuper(super')
    BY <2>1, ApartSupers DEF DirectoryInv
  <2> QED BY <1>4, <2>2, GotoApart, AnswerApart DEF WriteSuper, Fail, DirectoryInv
<1>5. CASE Publish(c) \/ Fetch(c)
  BY <1>5, AnswerApart DEF Publish, Fetch, Fail, disk, DirectoryInv
<1> QED BY <1>1, <1>2, <1>3, <1>4, <1>5 DEF Handler, DirectoryInv

LEMMA DirectoryStep ==
    ASSUME Cuts = {}
    PROVE  DirectoryInv /\ [Next]_vars => DirectoryInv'
<1> SUFFICES ASSUME DirectoryInv, [Next]_vars
             PROVE  /\ ApartSuper(super')
                    /\ \A c \in Clients : Apart(plan'[c].entries, Len(plan'[c].entries))
  BY TypeStep DEF DirectoryInv
<1>1. CASE Mount
  <2>1. super' \in {super, RepairedSuper, FreshSuper}
    BY <1>1, InterruptedAtomic DEF Mount, Connect, Repair, Check, Format, disk
  <2>2. UNCHANGED plan
    BY <1>1 DEF Mount, Connect, Repair, Check, Format, handlers
  <2> QED BY <2>1, <2>2, ApartSupers DEF DirectoryInv
<1>2. CASE Crash
  <2>1. super' \in {super, RepairedSuper, FreshSuper} \cup {PlannedSuper(c) : c \in Clients}
    BY <1>2, InterruptedAtomic DEF Crash, disk
  <2>2. \A c \in Clients : Apart(plan'[c].entries, Len(plan'[c].entries))
    BY <1>2, EmptyListing DEF Crash, Reset, NoPlan
  <2> QED BY <2>1, <2>2, ApartSupers DEF DirectoryInv
<1>3. CASE \E c \in Clients : Handler(c)
  BY <1>3, HandlerApart
<1>4. CASE UNCHANGED vars
  BY <1>4 DEF vars, DirectoryInv
<1> QED BY <1>1, <1>2, <1>3, <1>4 DEF Next

(* If superblock writes are atomic, a mount of the disk at any moment finds *)
(* files inside the data region, below next_free, with different names and  *)
(* without a common sector, however many handlers write stale copies of the *)
(* directory and wherever the program crashes or a device call fails.       *)
THEOREM DirectoryCorrect ==
    ASSUME Cuts = {}
    PROVE  Spec => []DirectorySound
<1>1. Init => DirectoryInv
  BY DirectoryInit
<1>2. DirectoryInv /\ [Next]_vars => DirectoryInv'
  BY DirectoryStep
<1>3. DirectoryInv => DirectorySound
  <2> SUFFICES ASSUME DirectoryInv PROVE Sound(Entries(super), NextFree(super))
    BY DEF DirectorySound
  <2>1. super \in SuperBlock /\ Apart(super.slots, super.count)
    BY DEF DirectoryInv, TypeInv, TypeOK, ApartSuper
  <2> DEFINE es == Entries(super)
  <2> DEFINE nf == NextFree(super)
  <2>2. /\ Len(es) <= MaxFiles
        /\ \A i \in 1 .. Len(es) : DirSectors <= es[i].start
        /\ \A i, j \in 1 .. Len(es) : i # j => es[i].name # es[j].name
        /\ Apart(es, Len(es))
    BY <2>1, EntriesProperties, GeometryAssumption DEF validate_entry
  <2>3. /\ DirSectors <= nf /\ nf <= DiskSectors
        /\ \A i \in 1 .. Len(es) : Finish(es[i]) <= nf
    BY <2>1, NextFreeProperties, GeometryAssumption
  <2> HIDE DEF es, nf
  <2>4. Sound(es, nf)
    BY <2>2, <2>3 DEF Sound, Apart
  <2> QED BY <2>4 DEF es, nf
<1> QED BY <1>1, <1>2, <1>3, PTL DEF Spec

-------------------------------------------------------------------------------
(***************************************************************************)
(* One handler that changes files and any that only read them: what the    *)
(* disk holds after writes, crashes, torn superblock writes and device     *)
(* errors, and what the cache says of it.                                  *)
(***************************************************************************)

(* Sublists: every position of the set has its rank as index.              *)

LEMMA RankIsIndex ==
    ASSUME NEW l, NEW n \in Nat, NEW I \in SUBSET (1 .. n), NEW i \in I
    PROVE  /\ Rank(I, i) \in 1 .. Cardinality(I)
           /\ Sublist(l, I)[Rank(I, i)] = l[i]
<1> DEFINE Upto(j) == {k \in I : k <= j}
<1>0. \A j \in I : j \in Nat
  OBVIOUS
<1>1. IsFiniteSet(I)
  <2>1. IsFiniteSet(1 .. n)
    BY FS_Interval
  <2> QED BY <2>1, FS_Subset
<1>2. \A j \in I : /\ IsFiniteSet(Upto(j))
                   /\ Cardinality(Upto(j)) \in Nat
                   /\ Cardinality(Upto(j)) <= Cardinality(I)
  BY <1>1, FS_Subset, FS_CardinalityType
<1>3. \A j, k \in I : j < k => Cardinality(Upto(j)) < Cardinality(Upto(k))
  <2> SUFFICES ASSUME NEW j \in I, NEW k \in I, j < k
               PROVE  Cardinality(Upto(j)) < Cardinality(Upto(k))
    OBVIOUS
  <2>1. Upto(j) \subseteq Upto(k) /\ k \in Upto(k) /\ k \notin Upto(j)
    <3>1. j \in Nat /\ k \in Nat /\ j < k
      BY <1>0
    <3>2. \A m \in I : m <= j => m <= k
      BY <1>0, <3>1
    <3>3. k <= k /\ ~(k <= j)
      BY <3>1
    <3> QED BY <3>2, <3>3
  <2>2. Upto(j) # Upto(k)
    <3> HIDE DEF Upto
    <3> QED BY <2>1
  <2>3. IsFiniteSet(Upto(k)) /\ Cardinality(Upto(k)) \in Nat /\ Cardinality(Upto(j)) \in Nat
    BY <1>2
  <2>4. Cardinality(Upto(j)) <= Cardinality(Upto(k))
        /\ (Cardinality(Upto(j)) = Cardinality(Upto(k)) => Upto(j) = Upto(k))
    <3> HIDE DEF Upto
    <3> QED BY <2>1, <2>3, FS_Subset
  <2> HIDE DEF Upto
  <2> QED BY <2>2, <2>3, <2>4
<1>4. Cardinality(Upto(i)) \in 1 .. Cardinality(I)
  <2>1. i \in Upto(i)
    BY <1>0
  <2>2. Cardinality(Upto(i)) # 0
    <3> HIDE DEF Upto
    <3> QED BY <2>1, <1>2, FS_EmptySet
  <2>3. Cardinality(I) \in Nat
    BY <1>1, FS_CardinalityType
  <2> HIDE DEF Upto
  <2> QED BY <1>2, <2>2, <2>3
<1>5. PICK j \in I : Rank(I, j) = Rank(I, i) /\ Sublist(l, I)[Rank(I, i)] = l[j]
  <2>1. Rank(I, i) \in 1 .. Cardinality(I)
    BY <1>4 DEF Rank
  <2>2. \A k \in 1 .. Cardinality(I) : \E j \in I : Rank(I, j) = k /\ Sublist(l, I)[k] = l[j]
    BY SublistProperties
  <2> QED BY <2>1, <2>2
<1>6. j = i
  <2>1. Cardinality(Upto(j)) = Cardinality(Upto(i))
    BY <1>5 DEF Rank
  <2>2. ~(i < j) /\ ~(j < i)
    <3> HIDE DEF Upto
    <3> QED BY <1>2, <1>3, <2>1
  <2> QED BY <1>0, <2>2
<1> QED BY <1>4, <1>5, <1>6 DEF Rank

(* The sublist at all positions is the list. *)
LEMMA SublistAll ==
    ASSUME NEW l, NEW n \in Nat
    PROVE  Len(Sublist(l, 1 .. n)) = n /\ \A k \in 1 .. n : Sublist(l, 1 .. n)[k] = l[k]
<1>1. Cardinality(1 .. n) = n
  BY FS_Interval
<1>2. ASSUME NEW k \in 1 .. n PROVE Rank(1 .. n, k) = k
  <2>1. {j \in 1 .. n : j <= k} = 1 .. k
    OBVIOUS
  <2>2. Cardinality(1 .. k) = k
    BY FS_Interval
  <2> QED BY <2>1, <2>2 DEF Rank
<1>3. ASSUME NEW k \in 1 .. n PROVE Sublist(l, 1 .. n)[k] = l[k]
  <2>1. (1 .. n) \in SUBSET (1 .. n)
    OBVIOUS
  <2>2. Sublist(l, 1 .. n)[Rank(1 .. n, k)] = l[k]
    BY <2>1, RankIsIndex
  <2> QED BY <1>2, <2>2
<1>4. Len(Sublist(l, 1 .. n)) = Cardinality(1 .. n)
  <2>1. (1 .. n) \in SUBSET (1 .. n)
    OBVIOUS
  <2> QED BY <2>1, SublistProperties
<1> QED BY <1>1, <1>3, <1>4

-------------------------------------------------------------------------------
(* What a mount reads back of a superblock.                                *)

(* The entries are the first valid slots of each name. *)
LEMMA EntriesAreSlots ==
    ASSUME NEW sb \in SuperBlock
    PROVE  /\ \A k \in 1 .. Len(Entries(sb)) :
                 \E i \in FirstSlots(sb) : Entries(sb)[k] = sb.slots[i]
           /\ \A i \in FirstSlots(sb) :
                 \E k \in 1 .. Len(Entries(sb)) : Entries(sb)[k] = sb.slots[i]
<1> DEFINE I == FirstSlots(sb)
<1>1. I \in SUBSET (1 .. MaxFiles) /\ MaxFiles \in Nat
  BY SlotsReadRange, GeometryAssumption
<1>2. Entries(sb) = Sublist(sb.slots, I)
  BY DEF Entries
<1> HIDE DEF I
<1>3. Len(Entries(sb)) = Cardinality(I)
  BY <1>1, <1>2, SublistProperties
<1>4. \A k \in 1 .. Len(Entries(sb)) : \E i \in I : Entries(sb)[k] = sb.slots[i]
  BY <1>1, <1>2, <1>3, SlotsOfSublist
<1>5. ASSUME NEW i \in I
      PROVE  \E k \in 1 .. Len(Entries(sb)) : Entries(sb)[k] = sb.slots[i]
  <2>1. /\ Rank(I, i) \in 1 .. Cardinality(I)
        /\ Sublist(sb.slots, I)[Rank(I, i)] = sb.slots[i]
    BY <1>1, RankIsIndex
  <2> QED BY <1>2, <1>3, <2>1
<1> QED BY <1>4, <1>5 DEF I

(* Lists that survive a write and a read: valid entries of different names  *)
(* that fit their field.                                                    *)
Good(es) ==
    /\ Listing(es)
    /\ \A i \in 1 .. Len(es) : validate_entry(es[i]) /\ OnDiskName[es[i].name] = es[i].name
    /\ \A i, j \in 1 .. Len(es) : i # j => es[i].name # es[j].name

(* The slots of the disk hold cut names. *)
NamesCut(sb) ==
    \A i \in 1 .. MaxFiles :
        sb.slots[i].name \in Names => OnDiskName[sb.slots[i].name] = sb.slots[i].name

LEMMA EntriesGood ==
    ASSUME NEW sb \in SuperBlock, NamesCut(sb)
    PROVE  Good(Entries(sb))
<1>1. Listing(Entries(sb))
  BY EntriesListing
<1>2. /\ \A i \in 1 .. Len(Entries(sb)) : validate_entry(Entries(sb)[i])
      /\ \A i, j \in 1 .. Len(Entries(sb)) : i # j => Entries(sb)[i].name # Entries(sb)[j].name
  BY EntriesProperties
<1>3. ASSUME NEW k \in 1 .. Len(Entries(sb))
      PROVE  OnDiskName[Entries(sb)[k].name] = Entries(sb)[k].name
  <2>1. PICK i \in FirstSlots(sb) : Entries(sb)[k] = sb.slots[i]
    BY EntriesAreSlots
  <2>2. i \in 1 .. MaxFiles
    BY SlotsReadRange
  <2>3. Entries(sb)[k] \in Entry
    BY EntriesProperties
  <2> QED BY <2>1, <2>2, <2>3 DEF NamesCut, Entry
<1> QED BY <1>1, <1>2, <1>3 DEF Good

(* Writing a list of entries and reading it back.  In general, entries come *)
(* back under their cut names, and some may be dropped.                     *)
LEMMA WrittenEntries ==
    ASSUME NEW es, Listing(es), NEW nf \in 0 .. DiskSectors
    PROVE  /\ NamesCut(SuperOf(es, nf))
           /\ \A k \in 1 .. Len(Entries(SuperOf(es, nf))) :
                \E i \in 1 .. Len(es) :
                    /\ Entries(SuperOf(es, nf))[k].name = OnDiskName[es[i].name]
                    /\ Entries(SuperOf(es, nf))[k].start = es[i].start
                    /\ Entries(SuperOf(es, nf))[k].size = es[i].size
<1> DEFINE sb == SuperOf(es, nf)
<1>1. sb \in SuperBlock /\ sb.count = Len(es)
  BY SuperOfType
<1>2. Len(es) \in 0 .. MaxFiles /\ \A i \in 1 .. Len(es) : es[i] \in Entry
  BY GeometryAssumption DEF Listing
<1>3. ASSUME NEW i \in 1 .. Len(es)
      PROVE  /\ i \in 1 .. MaxFiles
             /\ sb.slots[i] = [es[i] EXCEPT !.name = OnDiskName[es[i].name]]
             /\ sb.slots[i].name = OnDiskName[es[i].name]
             /\ sb.slots[i].start = es[i].start
             /\ sb.slots[i].size = es[i].size
  <2>1. i \in 1 .. MaxFiles
    BY <1>2, GeometryAssumption
  <2>2. sb.slots[i] = [es[i] EXCEPT !.name = OnDiskName[es[i].name]]
    BY <2>1 DEF SuperOf
  <2>3. es[i] \in Entry
    BY <1>2
  <2> QED BY <2>1, <2>2, <2>3 DEF Entry
<1>4. ASSUME NEW i \in 1 .. MaxFiles, ~(i <= Len(es))
      PROVE  sb.slots[i] = ZeroSlot
  BY <1>4 DEF SuperOf
<1> HIDE DEF sb
<1>5. NamesCut(sb)
  <2> SUFFICES ASSUME NEW i \in 1 .. MaxFiles, sb.slots[i].name \in Names
               PROVE  OnDiskName[sb.slots[i].name] = sb.slots[i].name
    BY DEF NamesCut
  <2>1. i <= Len(es)
    BY <1>4, NameAssumption DEF ZeroSlot
  <2>2. i \in 1 .. Len(es)
    BY <1>2, <2>1
  <2>3. es[i].name \in Names /\ sb.slots[i].name = OnDiskName[es[i].name]
    BY <1>2, <1>3, <2>2 DEF Entry
  <2> QED BY <2>3, NameAssumption
<1>6. ASSUME NEW k \in 1 .. Len(Entries(sb))
      PROVE  \E i \in 1 .. Len(es) : /\ Entries(sb)[k].name = OnDiskName[es[i].name]
                                     /\ Entries(sb)[k].start = es[i].start
                                     /\ Entries(sb)[k].size = es[i].size
  <2>1. PICK i \in FirstSlots(sb) : Entries(sb)[k] = sb.slots[i]
    BY <1>1, EntriesAreSlots
  <2>2. i \in 1 .. Len(es)
    BY <1>1, SlotsReadRange
  <2> QED BY <1>3, <2>1, <2>2
<1> QED BY <1>5, <1>6 DEF sb

(* A good list comes back as it was written. *)
LEMMA RoundTrip ==
    ASSUME NEW es, Good(es), NEW nf \in 0 .. DiskSectors
    PROVE  /\ Entries(SuperOf(es, nf)) = es
           /\ FirstSlots(SuperOf(es, nf)) = SlotsRead(SuperOf(es, nf))
<1> DEFINE sb == SuperOf(es, nf)
<1>1. sb \in SuperBlock /\ sb.count = Len(es)
  BY SuperOfType DEF Good
<1>2. /\ Len(es) \in 0 .. MaxFiles /\ es \in Seq(Entry)
      /\ \A i \in 1 .. Len(es) : es[i] \in Entry
  BY GeometryAssumption DEF Good, Listing
<1>3. ASSUME NEW i \in 1 .. Len(es)
      PROVE  sb.slots[i] = es[i]
  <2>1. i \in 1 .. MaxFiles
    BY <1>2, GeometryAssumption
  <2>2. sb.slots[i] = [es[i] EXCEPT !.name = OnDiskName[es[i].name]]
    BY <2>1 DEF SuperOf
  <2>3. es[i] \in Entry /\ OnDiskName[es[i].name] = es[i].name
    BY <1>2 DEF Good
  <2> QED BY <2>2, <2>3 DEF Entry
<1> HIDE DEF sb
<1>4. SlotsRead(sb) = 1 .. Len(es)
  BY <1>1, SlotsReadRange
<1>5. ValidSlots(sb) = 1 .. Len(es)
  BY <1>3, <1>4 DEF ValidSlots, Good
<1>6. FirstSlots(sb) = 1 .. Len(es)
  <2>1. \A i, j \in 1 .. Len(es) : j < i => sb.slots[j].name # sb.slots[i].name
    BY <1>2, <1>3 DEF Good
  <2> QED BY <1>5, <2>1 DEF FirstSlots
<1>7. /\ Len(Entries(sb)) = Len(es)
      /\ \A k \in 1 .. Len(es) : Entries(sb)[k] = es[k]
  <2>1. Entries(sb) = Sublist(sb.slots, 1 .. Len(es))
    BY <1>6 DEF Entries
  <2>2. Len(es) \in Nat
    BY <1>2
  <2> QED BY <1>3, <2>1, <2>2, SublistAll
<1>8. Entries(sb) \in Seq(Entry)
  BY <1>1, EntriesProperties
<1>9. Entries(sb) = es
  BY <1>2, <1>7, <1>8
<1> QED BY <1>4, <1>6, <1>9 DEF sb

-------------------------------------------------------------------------------
(* The lists of a write and of a removal. *)

DistinctNames(es) ==
    \A i, j \in 1 .. Len(es) : i # j => es[i].name # es[j].name

LEMMA PlaceProperties ==
    ASSUME NEW es, Listing(es), DistinctNames(es), NEW new \in Entry
    PROVE  /\ Len(Place(es, new)) \in Nat
           /\ \A k \in 1 .. Len(Place(es, new)) :
                 \/ Place(es, new)[k] = new
                 \/ /\ k \in 1 .. Len(es) /\ Place(es, new)[k] = es[k]
                    /\ es[k].name # new.name
           /\ \E k \in 1 .. Len(Place(es, new)) : Place(es, new)[k] = new
           /\ \A i \in 1 .. Len(es) : es[i].name # new.name =>
                 i \in 1 .. Len(Place(es, new)) /\ Place(es, new)[i] = es[i]
           /\ DistinctNames(Place(es, new))
<1>1. /\ Len(es) \in Nat /\ es \in Seq(Entry)
      /\ \A i \in 1 .. Len(es) : es[i] \in Entry
  BY DEF Listing
<1>2. CASE Located(es, new.name) = {}
  <2>1. /\ Place(es, new) = Append(es, new)
        /\ Len(Append(es, new)) = Len(es) + 1
        /\ \A i \in 1 .. Len(es) : Append(es, new)[i] = es[i]
        /\ Append(es, new)[Len(es) + 1] = new
    BY <1>1, <1>2 DEF Place
  <2>2. \A i \in 1 .. Len(es) : es[i].name # new.name
    BY <1>2 DEF Located
  <2>3. DistinctNames(Place(es, new))
    <3> SUFFICES ASSUME NEW i \in 1 .. (Len(es) + 1), NEW j \in 1 .. (Len(es) + 1), i # j
                 PROVE  Append(es, new)[i].name # Append(es, new)[j].name
      BY <2>1 DEF DistinctNames
    <3>1. \/ i \in 1 .. Len(es) /\ j \in 1 .. Len(es)
          \/ i \in 1 .. Len(es) /\ j = Len(es) + 1
          \/ i = Len(es) + 1 /\ j \in 1 .. Len(es)
      BY <1>1
    <3> QED BY <2>1, <2>2, <3>1 DEF DistinctNames
  <2>4. \A k \in 1 .. (Len(es) + 1) : k \in 1 .. Len(es) \/ k = Len(es) + 1
    BY <1>1
  <2>5. /\ Len(es) + 1 \in 1 .. (Len(es) + 1)
        /\ \A i \in 1 .. Len(es) : i \in 1 .. (Len(es) + 1)
    BY <1>1
  <2> QED BY <1>1, <2>1, <2>2, <2>3, <2>4, <2>5
<1>3. CASE Located(es, new.name) # {}
  <2> DEFINE r == [i \in 1 .. Len(es) |-> IF es[i].name = new.name THEN new ELSE es[i]]
  <2>1. Place(es, new) = r /\ Len(r) = Len(es)
    BY <1>1, <1>3 DEF Place
  <2>2. PICK k \in 1 .. Len(es) : es[k].name = new.name
    BY <1>3 DEF Located
  <2>3. DistinctNames(Place(es, new))
    BY <2>1 DEF DistinctNames
  <2> QED BY <1>1, <2>1, <2>2, <2>3
<1> QED BY <1>2, <1>3

LEMMA KeptProperties ==
    ASSUME NEW es, Listing(es), DistinctNames(es), NEW name
    PROVE  /\ \A k \in 1 .. Len(Kept(es, name)) :
                 \E i \in 1 .. Len(es) : Kept(es, name)[k] = es[i] /\ es[i].name # name
           /\ \A i \in 1 .. Len(es) : es[i].name # name =>
                 \E k \in 1 .. Len(Kept(es, name)) : Kept(es, name)[k] = es[i]
           /\ DistinctNames(Kept(es, name))
           /\ Len(Kept(es, name)) = Len(es) <=> Located(es, name) = {}
<1> DEFINE I == (1 .. Len(es)) \ Located(es, name)
<1> DEFINE kept == Kept(es, name)
<1>1. Len(es) \in Nat /\ I \in SUBSET (1 .. Len(es)) /\ kept = Sublist(es, I)
  BY DEF Listing, Kept
<1>2. \A i \in 1 .. Len(es) : i \in I <=> es[i].name # name
  BY DEF Located
<1> HIDE DEF I, kept
<1>3. /\ Len(kept) = Cardinality(I)
      /\ \A k \in 1 .. Cardinality(I) : \E i \in I : Rank(I, i) = k /\ kept[k] = es[i]
  BY <1>1, SublistProperties
<1>4. ASSUME NEW i \in I
      PROVE  \E k \in 1 .. Len(kept) : kept[k] = es[i]
  <2>1. Rank(I, i) \in 1 .. Cardinality(I) /\ Sublist(es, I)[Rank(I, i)] = es[i]
    BY <1>1, RankIsIndex
  <2> QED BY <1>1, <1>3, <2>1
<1>5. DistinctNames(kept)
  <2> SUFFICES ASSUME NEW k \in 1 .. Len(kept), NEW m \in 1 .. Len(kept), k # m
               PROVE  kept[k].name # kept[m].name
    BY DEF DistinctNames
  <2>1. PICK i \in I, j \in I : i # j /\ kept[k] = es[i] /\ kept[m] = es[j]
    BY <1>3
  <2> QED BY <1>1, <2>1 DEF DistinctNames
<1>6. Len(kept) = Len(es) <=> Located(es, name) = {}
  <2>1. IsFiniteSet(1 .. Len(es)) /\ Cardinality(1 .. Len(es)) = Len(es)
    BY <1>1, FS_Interval
  <2>2. Cardinality(I) = Len(es) => I = 1 .. Len(es)
    BY <1>1, <2>1, FS_Subset
  <2>3. I = 1 .. Len(es) => Cardinality(I) = Len(es)
    BY <2>1
  <2>4. I = 1 .. Len(es) <=> Located(es, name) = {}
    BY DEF I, Located
  <2> QED BY <1>3, <2>2, <2>3, <2>4
<1>7. \A k \in 1 .. Len(kept) : \E i \in 1 .. Len(es) : kept[k] = es[i] /\ es[i].name # name
  BY <1>1, <1>2, <1>3
<1>8. \A i \in 1 .. Len(es) : es[i].name # name => \E k \in 1 .. Len(kept) : kept[k] = es[i]
  BY <1>2, <1>4
<1> QED BY <1>5, <1>6, <1>7, <1>8 DEF kept

LEMMA PlaceGood ==
    ASSUME NEW es, Good(es), NEW new \in Entry, ~DirectoryFull(es, new.name),
           validate_entry(new), OnDiskName[new.name] = new.name
    PROVE  Good(Place(es, new))
<1>1. Listing(es) /\ DistinctNames(es)
  BY DEF Good, DistinctNames
<1>2. Listing(Place(es, new))
  BY <1>1, PlaceListing
<1>3. \A k \in 1 .. Len(Place(es, new)) :
         \/ Place(es, new)[k] = new
         \/ k \in 1 .. Len(es) /\ Place(es, new)[k] = es[k]
  BY <1>1, PlaceProperties
<1>4. DistinctNames(Place(es, new))
  BY <1>1, PlaceProperties
<1> QED BY <1>2, <1>3, <1>4 DEF Good, DistinctNames

LEMMA KeptGood ==
    ASSUME NEW es, Good(es), NEW name
    PROVE  Good(Kept(es, name))
<1>1. Listing(es) /\ DistinctNames(es)
  BY DEF Good, DistinctNames
<1>2. /\ Listing(Kept(es, name))
      /\ DistinctNames(Kept(es, name))
      /\ \A k \in 1 .. Len(Kept(es, name)) : \E i \in 1 .. Len(es) : Kept(es, name)[k] = es[i]
  BY <1>1, KeptListing, KeptProperties
<1> QED BY <1>2 DEF Good, DistinctNames

-------------------------------------------------------------------------------
(* What the sectors of a file hold. *)

OnDisk(e) == e.start \in Nat /\ e.size \in Nat

LEMMA SectorsAgree ==
    ASSUME NEW e, NEW f, e.start = f.start, e.size = f.size
    PROVE  SectorsOf(e) = SectorsOf(f) /\ Finish(e) = Finish(f)
BY DEF SectorsOf, Finish

(* Two contents in the same sectors are the same: of size zero there is but *)
(* one, and any other has its first piece in the first sector.              *)
LEMMA HoldsOne ==
    ASSUME NEW d, NEW e, OnDisk(e), NEW x \in Contents, NEW y \in Contents,
           Holds(d, e, x), Holds(d, e, y)
    PROVE  x = y
<1>1. CASE e.size = 0
  BY <1>1, ContentAssumption DEF Holds
<1>2. CASE e.size # 0
  <2>1. sectors_for_size(e.size) \in Nat /\ sectors_for_size(e.size) >= 1
    <3>1. SectorSize \in Nat /\ SectorSize >= 1 /\ e.size \in Nat /\ e.size >= 1
      BY <1>2, GeometryAssumption DEF OnDisk
    <3>2. (e.size + SectorSize - 1) \div SectorSize >= 1
      BY <3>1
    <3> QED BY <3>2, SectorsNat DEF sectors_for_size, OnDisk
  <2>2. e.start \in SectorsOf(e)
    BY <2>1 DEF SectorsOf, Finish, OnDisk
  <2>3. d[e.start] = <<x, e.start - e.start>> /\ d[e.start] = <<y, e.start - e.start>>
    BY <2>2 DEF Holds
  <2> QED BY <2>3
<1> QED BY <1>1, <1>2

LEMMA ContentAtIs ==
    ASSUME NEW d, NEW e, OnDisk(e), NEW x \in Contents, Holds(d, e, x)
    PROVE  ContentAt(d, e) = x
<1> DEFINE y == CHOOSE y \in Contents : Holds(d, e, y)
<1>1. y \in Contents /\ Holds(d, e, y)
  OBVIOUS
<1>2. ContentAt(d, e) = y
  BY DEF ContentAt
<1> HIDE DEF y
<1>3. y = x
  BY <1>1, HoldsOne
<1> QED BY <1>2, <1>3

LEMMA ContentAtHeld ==
    ASSUME NEW d, NEW e, ContentAt(d, e) # Garbage
    PROVE  ContentAt(d, e) \in Contents /\ Holds(d, e, ContentAt(d, e))
<1>1. \E x \in Contents : Holds(d, e, x)
  BY DEF ContentAt
<1>2. ContentAt(d, e) = CHOOSE x \in Contents : Holds(d, e, x)
  BY <1>1 DEF ContentAt
<1> QED BY <1>1, <1>2

(* A content depends on the place of the file and on its own sectors only. *)
LEMMA ContentAtSame ==
    ASSUME NEW d1, NEW d2, NEW e, NEW f, OnDisk(e), e.start = f.start, e.size = f.size,
           \A s \in SectorsOf(e) : d1[s] = d2[s]
    PROVE  ContentAt(d1, e) = ContentAt(d2, f)
<1>1. \A x \in Contents : Holds(d1, e, x) <=> Holds(d2, f, x)
  <2> SUFFICES ASSUME NEW x \in Contents PROVE Holds(d1, e, x) <=> Holds(d2, f, x)
    OBVIOUS
  <2>1. SectorsOf(e) = SectorsOf(f)
    BY SectorsAgree
  <2> QED BY <2>1 DEF Holds
<1>2. CASE \E x \in Contents : Holds(d1, e, x)
  <2>1. PICK x \in Contents : Holds(d1, e, x)
    BY <1>2
  <2>2. Holds(d2, f, x) /\ OnDisk(f)
    BY <1>1, <2>1 DEF OnDisk
  <2> QED BY <2>1, <2>2, ContentAtIs
<1>3. CASE ~\E x \in Contents : Holds(d1, e, x)
  BY <1>1, <1>3 DEF ContentAt
<1> QED BY <1>2, <1>3

(* The files that a mount finds. *)
LEMMA FilesOnProperties ==
    ASSUME NEW sb \in SuperBlock, NEW d
    PROVE  /\ DOMAIN FilesOn(sb, d) = NamesIn(Entries(sb))
           /\ \A k \in 1 .. Len(Entries(sb)) :
                 FilesOn(sb, d)[Entries(sb)[k].name] = ContentAt(d, Entries(sb)[k])
<1> DEFINE es == Entries(sb)
<1>1. \A i, j \in 1 .. Len(es) : i # j => es[i].name # es[j].name
  BY EntriesProperties
<1> HIDE DEF es
<1>2. FilesOn(sb, d) = [n \in NamesIn(es) |->
                           ContentAt(d, es[CHOOSE i \in 1 .. Len(es) : es[i].name = n])]
  BY DEF FilesOn, es
<1>3. ASSUME NEW k \in 1 .. Len(es)
      PROVE  FilesOn(sb, d)[es[k].name] = ContentAt(d, es[k])
  <2> DEFINE i == CHOOSE i \in 1 .. Len(es) : es[i].name = es[k].name
  <2>1. i \in 1 .. Len(es) /\ es[i].name = es[k].name
    OBVIOUS
  <2>2. es[k].name \in NamesIn(es)
    BY DEF NamesIn
  <2>3. FilesOn(sb, d)[es[k].name] = ContentAt(d, es[i])
    BY <1>2, <2>2
  <2> HIDE DEF i
  <2>4. i = k
    BY <1>1, <2>1
  <2> QED BY <2>3, <2>4
<1> QED BY <1>2, <1>3 DEF es

(* Equal entries whose sectors hold the same are equal files. *)
LEMMA FilesOnSame ==
    ASSUME NEW sb \in SuperBlock, NEW tb \in SuperBlock, Entries(sb) = Entries(tb),
           NEW d1, NEW d2,
           \A k \in 1 .. Len(Entries(sb)) :
              \A s \in SectorsOf(Entries(sb)[k]) : d1[s] = d2[s]
    PROVE  FilesOn(sb, d1) = FilesOn(tb, d2)
<1> DEFINE es == Entries(sb)
<1>1. \A k \in 1 .. Len(es) : es[k] \in Entry
  BY EntriesProperties
<1>2. \A k \in 1 .. Len(es) : \A s \in SectorsOf(es[k]) : d1[s] = d2[s]
  OBVIOUS
<1>3. /\ DOMAIN FilesOn(sb, d1) = NamesIn(es)
      /\ \A k \in 1 .. Len(es) : FilesOn(sb, d1)[es[k].name] = ContentAt(d1, es[k])
  BY FilesOnProperties
<1>4. /\ DOMAIN FilesOn(tb, d2) = NamesIn(es)
      /\ \A k \in 1 .. Len(es) : FilesOn(tb, d2)[es[k].name] = ContentAt(d2, es[k])
  BY FilesOnProperties
<1> HIDE DEF es
<1>5. \A k \in 1 .. Len(es) : ContentAt(d1, es[k]) = ContentAt(d2, es[k])
  BY <1>1, <1>2, ContentAtSame DEF Entry, OnDisk
<1>6. \A n \in NamesIn(es) : FilesOn(sb, d1)[n] = FilesOn(tb, d2)[n]
  BY <1>3, <1>4, <1>5 DEF NamesIn
<1>7. /\ FilesOn(sb, d1) = [n \in NamesIn(es) |-> FilesOn(sb, d1)[n]]
      /\ FilesOn(tb, d2) = [n \in NamesIn(es) |-> FilesOn(tb, d2)[n]]
  BY DEF FilesOn, es
<1> QED BY <1>6, <1>7

LEMMA SameEntriesSameFiles ==
    ASSUME NEW sb \in SuperBlock, NEW tb \in SuperBlock, Entries(sb) = Entries(tb), NEW d
    PROVE  FilesOn(sb, d) = FilesOn(tb, d)
<1>1. \A k \in 1 .. Len(Entries(sb)) : \A s \in SectorsOf(Entries(sb)[k]) : d[s] = d[s]
  OBVIOUS
<1> QED BY <1>1, FilesOnSame, SMT

(* The cache made from a list of different names has its extents. *)
LEMMA CacheOfProperties ==
    ASSUME NEW es, Listing(es), DistinctNames(es)
    PROVE  /\ DOMAIN CacheOf(es) = NamesIn(es)
           /\ \A k \in 1 .. Len(es) : CacheOf(es)[es[k].name] =
                 [start |-> es[k].start, size |-> es[k].size]
<1>1. ASSUME NEW k \in 1 .. Len(es)
      PROVE  CacheOf(es)[es[k].name] = [start |-> es[k].start, size |-> es[k].size]
  <2> DEFINE n == es[k].name
  <2> DEFINE last == CHOOSE i \in 1 .. Len(es) :
                        /\ es[i].name = n
                        /\ \A j \in 1 .. Len(es) : es[j].name = n => j <= i
  <2>1. \A j \in 1 .. Len(es) : es[j].name = n => j = k
    BY DEF DistinctNames
  <2>2. Len(es) \in Nat
    BY DEF Listing
  <2>3. es[k].name = n /\ \A j \in 1 .. Len(es) : es[j].name = n => j <= k
    BY <2>1, <2>2
  <2>4. last \in 1 .. Len(es) /\ es[last].name = n
    BY <2>3
  <2>5. n \in NamesIn(es)
    BY DEF NamesIn
  <2>6. CacheOf(es)[n] = [start |-> es[last].start, size |-> es[last].size]
    BY <2>5 DEF CacheOf
  <2> HIDE DEF last, n
  <2>7. last = k
    BY <2>1, <2>4
  <2> QED BY <2>6, <2>7 DEF n
<1> QED BY <1>1 DEF CacheOf

(* next_free behind a list with a file placed behind all others.           *)
LEMMA NextFreeOfPlace ==
    ASSUME NEW sb \in SuperBlock, NEW es, Listing(es), DistinctNames(es),
           NEW new \in Entry, Entries(sb) = Place(es, new),
           DirSectors <= new.start, \A i \in 1 .. Len(es) : Finish(es[i]) <= new.start
    PROVE  NextFree(sb) = Finish(new)
<1> DEFINE l == Place(es, new)
<1> DEFINE nf == NextFree(sb)
<1>1. /\ nf \in Nat
      /\ \A i \in 1 .. Len(l) : Finish(l[i]) <= nf
      /\ nf = DirSectors \/ \E i \in 1 .. Len(l) : nf = Finish(l[i])
  BY NextFreeProperties, GeometryAssumption
<1>2. /\ \A k \in 1 .. Len(l) : l[k] = new \/ (k \in 1 .. Len(es) /\ l[k] = es[k])
      /\ \E k \in 1 .. Len(l) : l[k] = new
  BY PlaceProperties
<1> HIDE DEF l, nf
<1>3. Finish(new) \in Nat /\ new.start <= Finish(new) /\ new.start \in Nat
  <2>1. new.start \in Nat /\ new.size \in Nat
    BY DEF Entry
  <2>2. sectors_for_size(new.size) \in Nat
    BY <2>1, SectorsNat
  <2> QED BY <2>1, <2>2 DEF Finish
<1>4. ASSUME NEW i \in 1 .. Len(es) PROVE Finish(es[i]) \in Nat
  <2>1. es[i] \in Entry
    BY DEF Listing
  <2>2. es[i].start \in Nat /\ sectors_for_size(es[i].size) \in Nat
    BY <2>1, SectorsNat DEF Entry
  <2> QED BY <2>2 DEF Finish
<1>5. Finish(new) <= nf
  BY <1>1, <1>2
<1>6. nf <= Finish(new)
  <2>1. CASE nf = DirSectors
    BY <1>3, <2>1, GeometryAssumption
  <2>2. CASE \E i \in 1 .. Len(l) : nf = Finish(l[i])
    <3>1. PICK i \in 1 .. Len(l) : nf = Finish(l[i])
      BY <2>2
    <3>2. CASE l[i] = new
      BY <1>3, <3>1, <3>2
    <3>3. CASE i \in 1 .. Len(es) /\ l[i] = es[i]
      BY <1>1, <1>3, <3>1, <3>3
    <3> QED BY <1>2, <3>2, <3>3
  <2> QED BY <1>1, <2>1, <2>2
<1> QED BY <1>1, <1>3, <1>5, <1>6 DEF nf

(* Writing all pieces of a content where they belong. *)
LEMMA WithPiecesHold ==
    ASSUME NEW x \in Contents, NEW p, OnDisk(p), p.size = ContentSize[x],
           DirSectors <= p.start, Finish(p) <= DiskSectors,
           data' = WithPieces(x, p.start, SectorsOf(p))
    PROVE  Holds(data', p, x)
<1>1. SectorsOf(p) \subseteq DataSectors
  <2>1. Finish(p) \in Nat /\ p.start \in Nat
    BY SectorsNat DEF Finish, OnDisk
  <2> QED BY <2>1, GeometryAssumption DEF SectorsOf, DataSectors
<1> QED BY <1>1 DEF Holds, WithPieces

(* A piece is written inside the extent it belongs to. *)
LEMMA WithPiecesElsewhere ==
    ASSUME DataType, NEW x, NEW start, NEW some, data' = WithPieces(x, start, some),
           NEW e, OnDisk(e), DirSectors <= e.start, Finish(e) <= DiskSectors,
           some \cap SectorsOf(e) = {}
    PROVE  \A s \in SectorsOf(e) : data'[s] = data[s]
<1>1. SectorsOf(e) \subseteq DataSectors
  <2>1. Finish(e) \in Nat /\ e.start \in Nat
    BY SectorsNat DEF Finish, OnDisk
  <2> QED BY <2>1, GeometryAssumption DEF SectorsOf, DataSectors
<1> QED BY <1>1 DEF WithPieces

-------------------------------------------------------------------------------
(* One writer.  The handler that changes files carries a plan made from the *)
(* directory on disk, since nobody else writes that.                        *)

OneWriter ==
    \A c, d \in Clients :
        (\E r \in Requests[c], q \in Requests[d] : r.kind # "cat" /\ q.kind # "cat") => c = d

Writing == {"load", "data", "super", "publish"}

Serves ==
    \A c \in Clients :
        /\ req[c] = NoRequest \/ req[c] \in Requests[c]
        /\ pc[c] # "idle" => boot = "run" /\ req[c] \in Requests[c]
        /\ pc[c] \in Writing => req[c].kind # "cat"
        /\ pc[c] = "fetch" => req[c].kind = "cat"

(* The entry a write adds to the directory of superblock sb, and its plan. *)
Written(r, sb) ==
    [name |-> r.name, start |-> NextFree(sb), size |-> ContentSize[Body(r)]]

WritePlan(r, sb, p) ==
    /\ r.kind \in {"write", "touch"}
    /\ ~DirectoryFull(Entries(sb), r.name)
    /\ Finish(Written(r, sb)) <= DiskSectors
    /\ p = [entries |-> Place(Entries(sb), Written(r, sb)),
            next_free |-> Finish(Written(r, sb)),
            start |-> NextFree(sb), size |-> ContentSize[Body(r)]]

RemovePlan(r, sb, p) ==
    /\ r.kind = "rm"
    /\ Located(Entries(sb), r.name) # {}
    /\ p.entries = Kept(Entries(sb), r.name)
    /\ p.next_free = NextFree(sb)

Plans ==
    \A c \in Clients :
        /\ pc[c] = "data" => WritePlan(req[c], super, plan[c])
        /\ pc[c] = "super" =>
              \/ RemovePlan(req[c], super, plan[c])
              \/ WritePlan(req[c], super, plan[c]) /\ Holds(data, plan[c], Body(req[c]))
        /\ pc[c] = "publish" => super = PlannedSuper(c)

WriterInv == TypeInv /\ Serves /\ NamesCut(super) /\ Plans

LEMMA WriterAlone ==
    ASSUME OneWriter, Serves, NEW c \in Clients, NEW d \in Clients,
           pc[c] \in Writing, pc[d] \in Writing
    PROVE  c = d
<1>1. req[c] \in Requests[c] /\ req[c].kind # "cat" /\ req[d] \in Requests[d] /\ req[d].kind # "cat"
  BY DEF Serves, Writing
<1> QED BY <1>1 DEF OneWriter

LEMMA WriterInit == Init => WriterInv
<1> SUFFICES ASSUME Init PROVE WriterInv
  OBVIOUS
<1>1. NamesCut(super)
  BY NameAssumption DEF Init, Blank, ZeroSlot, NamesCut
<1>2. Serves /\ Plans
  BY DEF Init, Serves, Plans, Writing
<1> QED BY <1>1, <1>2, TypeInit DEF WriterInv

LEMMA ServesStep == TypeInv /\ Serves /\ [Next]_vars => Serves'
<1> SUFFICES ASSUME TypeInv, Serves, [Next]_vars PROVE Serves'
  OBVIOUS
<1>0. /\ pc \in [Clients -> Labels] /\ req \in [Clients -> Request \cup {NoRequest}]
      /\ \A c \in Clients : Requests[c] \subseteq Request
  BY RequestAssumption DEF TypeInv, TypeOK
<1> USE <1>0
<1>1. CASE Mount
  BY <1>1 DEF Mount, Connect, Repair, Check, Format, handlers, Serves, Writing
<1>2. CASE Crash
  BY <1>2 DEF Crash, Reset, Serves, Writing
<1>3. ASSUME NEW c \in Clients, NEW r \in Requests[c], Start(c, r) PROVE Serves'
  <2>1. r.kind \in Kinds
    BY DEF Request
  <2>2. /\ boot' = boot /\ boot = "run"
        /\ req' = [req EXCEPT ![c] = r]
        /\ \/ pc' = [pc EXCEPT ![c] = "load"] /\ r.kind # "cat"
           \/ pc' = [pc EXCEPT ![c] = "idle"]
           \/ pc' = [pc EXCEPT ![c] = "fetch"] /\ r.kind = "cat"
    BY <1>3, <2>1 DEF Start, Goto, Fail, Answer
  <2> QED BY <2>2 DEF Serves, Writing
<1>4. ASSUME NEW c \in Clients, Load(c) \/ WriteData(c) \/ WriteSuper(c) \/ Publish(c) \/ Fetch(c)
      PROVE  Serves'
  <2>1. /\ boot' = boot /\ req' = req
        /\ \/ pc[c] \in Writing /\ pc' = [pc EXCEPT ![c] = "data"]
           \/ pc[c] \in Writing /\ pc' = [pc EXCEPT ![c] = "super"]
           \/ pc[c] \in Writing /\ pc' = [pc EXCEPT ![c] = "publish"]
           \/ pc' = [pc EXCEPT ![c] = "idle"]
    BY <1>4 DEF Load, PlanWrite, PlanDelete, WriteData, WriteSuper, Publish, Fetch,
                Goto, Fail, Answer, Writing
  <2> QED BY <2>1 DEF Serves, Writing
<1>5. CASE UNCHANGED vars
  BY <1>5 DEF vars, Serves
<1> QED BY <1>1, <1>2, <1>3, <1>4, <1>5 DEF Next, Handler

LEMMA InterruptedNames ==
    ASSUME NEW old \in SuperBlock, NEW new \in SuperBlock, NamesCut(old), NamesCut(new),
           NEW sb \in Interrupted(old, new)
    PROVE  NamesCut(sb)
<1>1. ASSUME NEW cut \in Cuts, sb = Torn(old, new, cut)
      PROVE  NamesCut(sb)
  <2>1. ASSUME NEW i \in 1 .. MaxFiles
        PROVE  sb.slots[i].name \in {old.slots[i].name, new.slots[i].name}
    <3>1. old.slots[i] \in Slot /\ new.slots[i] \in Slot
      BY DEF SuperBlock
    <3>2. sb.slots[i] = IF i < cut THEN new.slots[i]
                        ELSE IF i = cut THEN [old.slots[i] EXCEPT !.name = new.slots[i].name]
                        ELSE old.slots[i]
      BY <1>1 DEF Torn, SuperBlock
    <3> QED BY <3>1, <3>2 DEF Slot
  <2> QED BY <2>1 DEF NamesCut
<1> QED BY <1>1 DEF Interrupted

LEMMA NamesStep ==
    ASSUME TypeInv, NamesCut(super)
    PROVE  /\ NamesCut(RepairedSuper)
           /\ NamesCut(FreshSuper)
           /\ \A c \in Clients : NamesCut(PlannedSuper(c))
           /\ [Next]_vars => NamesCut(super')
<1>1. super \in SuperBlock
  BY DEF TypeInv, TypeOK
<1>2. NamesCut(RepairedSuper)
  <2>1. NextFree(super) \in 0 .. DiskSectors
    BY <1>1, NextFreeProperties, GeometryAssumption
  <2> QED BY <1>1, <2>1, EntriesListing, WrittenEntries DEF RepairedSuper
<1>3. NamesCut(FreshSuper)
  BY EmptyListing, WrittenEntries, GeometryAssumption DEF FreshSuper
<1>4. \A c \in Clients : NamesCut(PlannedSuper(c))
  <2> SUFFICES ASSUME NEW c \in Clients PROVE NamesCut(PlannedSuper(c))
    OBVIOUS
  <2>1. plan[c].next_free \in 0 .. DiskSectors /\ Listing(plan[c].entries)
    BY DEF TypeInv, TypeOK, Plan, Listing
  <2> QED BY <2>1, WrittenEntries DEF PlannedSuper
<1>5. ASSUME [Next]_vars PROVE NamesCut(super')
  <2>1. /\ RepairedSuper \in SuperBlock /\ FreshSuper \in SuperBlock
        /\ \A c \in Clients : PlannedSuper(c) \in SuperBlock
    BY WrittenSupers DEF TypeInv
  <2>2. \/ super' = super
        \/ super' = RepairedSuper \/ super' \in Interrupted(super, RepairedSuper)
        \/ super' = FreshSuper \/ super' \in Interrupted(super, FreshSuper)
        \/ \E c \in Clients : \/ super' = PlannedSuper(c)
                              \/ super' \in Interrupted(super, PlannedSuper(c))
    BY <1>5 DEF Next, Mount, Connect, Repair, Check, Format, Crash, Handler, Start, Load,
                WriteData, WriteSuper, Publish, Fetch, disk, vars
  <2> QED BY <1>1, <1>2, <1>3, <1>4, <2>1, <2>2, InterruptedNames
<1> QED BY <1>2, <1>3, <1>4, <1>5

(* What a write plans is behind every file of the directory and on the disk. *)
LEMMA WrittenProperties ==
    ASSUME NEW sb \in SuperBlock, NEW r \in Request
    PROVE  /\ Written(r, sb) \in Entry
           /\ Written(r, sb).name = r.name
           /\ Written(r, sb).start = NextFree(sb)
           /\ Written(r, sb).size = ContentSize[Body(r)]
           /\ Body(r) \in Contents
           /\ NextFree(sb) \in Nat /\ DirSectors <= NextFree(sb)
           /\ OnDisk(Written(r, sb))
<1>1. NextFree(sb) \in Nat /\ DirSectors <= NextFree(sb)
  BY NextFreeProperties, GeometryAssumption
<1>2. Body(r) \in Contents /\ ContentSize[Body(r)] \in Nat
  BY BodyType
<1> QED BY <1>1, <1>2 DEF Written, Entry, Request, OnDisk

LEMMA PlanProperties ==
    ASSUME NEW sb \in SuperBlock, NEW r \in Request, NEW p, WritePlan(r, sb, p)
    PROVE  /\ OnDisk(p)
           /\ p.entries = Place(Entries(sb), Written(r, sb))
           /\ p.next_free = Finish(Written(r, sb))
           /\ p.start = Written(r, sb).start
           /\ p.size = Written(r, sb).size
           /\ SectorsOf(p) = SectorsOf(Written(r, sb))
           /\ Finish(p) = Finish(Written(r, sb))
           /\ DirSectors <= p.start /\ Finish(p) <= DiskSectors
<1>1. /\ p.entries = Place(Entries(sb), Written(r, sb))
      /\ p.next_free = Finish(Written(r, sb))
      /\ p.start = Written(r, sb).start
      /\ p.size = Written(r, sb).size
      /\ Finish(Written(r, sb)) <= DiskSectors
  BY WrittenProperties DEF WritePlan
<1>2. OnDisk(p) /\ DirSectors <= p.start
  BY <1>1, WrittenProperties DEF OnDisk
<1>3. SectorsOf(p) = SectorsOf(Written(r, sb)) /\ Finish(p) = Finish(Written(r, sb))
  BY <1>1, SectorsAgree
<1> QED BY <1>1, <1>2, <1>3

(* A plan that load_entries made, in the next state. *)
LEMMA LoadPlans ==
    ASSUME TypeInv, Serves, NEW c \in Clients, Load(c)
    PROVE  /\ pc'[c] \in {"idle", "data", "super"}
           /\ pc'[c] = "data" => WritePlan(req[c], super, plan'[c])
           /\ pc'[c] = "super" => RemovePlan(req[c], super, plan'[c])
<1>1. /\ pc \in [Clients -> Labels] /\ plan \in [Clients -> Plan]
      /\ super \in SuperBlock /\ req[c] \in Request /\ req[c].kind \in Kinds \ {"cat"}
  BY DEF TypeInv, TypeOK, Load, Serves, Serving, Writing, Request
<1> DEFINE es == Entries(super)
<1> DEFINE nf == NextFree(super)
<1> HIDE DEF es, nf
<1>2. CASE \E result \in Results : Fail(c, result)
  BY <1>1, <1>2 DEF Fail, Answer
<1>3. CASE req[c].kind = "rm" /\ PlanDelete(c, es, nf)
  <2>1. CASE Fail(c, "File_not_found")
    BY <1>2, <2>1 DEF Results
  <2>2. CASE /\ Len(Kept(es, req[c].name)) # Len(es)
             /\ Goto(c, "super", [NoPlan EXCEPT !.entries = Kept(es, req[c].name),
                                                !.next_free = nf])
    <3>1. pc'[c] = "super" /\ plan'[c].entries = Kept(es, req[c].name) /\ plan'[c].next_free = nf
      BY <1>1, <2>2 DEF Goto, NoPlan
    <3>2. Listing(es) /\ DistinctNames(es)
      BY <1>1, EntriesListing, EntriesProperties DEF DistinctNames, es
    <3>3. Located(es, req[c].name) # {}
      BY <2>2, <3>2, KeptProperties
    <3> QED BY <1>3, <3>1, <3>3 DEF RemovePlan, es, nf
  <2> QED BY <1>3, <2>1, <2>2 DEF PlanDelete
<1>4. CASE req[c].kind # "rm" /\ PlanWrite(c, es, nf)
  <2> DEFINE new == Written(req[c], super)
  <2>1. CASE Fail(c, "No_space")
    BY <1>2, <2>1 DEF Results
  <2>2. CASE /\ ~DirectoryFull(es, req[c].name)
             /\ Finish(new) <= DiskSectors
             /\ Goto(c, "data", [entries |-> Place(es, new), next_free |-> Finish(new),
                                 start |-> new.start, size |-> new.size])
    <3>1. new.start = nf /\ new.size = ContentSize[Body(req[c])]
      BY DEF Written, nf
    <3> HIDE DEF new
    <3>2. /\ pc'[c] = "data"
          /\ plan'[c] = [entries |-> Place(es, new), next_free |-> Finish(new),
                         start |-> nf, size |-> ContentSize[Body(req[c])]]
      BY <1>1, <2>2, <3>1 DEF Goto
    <3>3. req[c].kind \in {"write", "touch"}
      BY <1>1, <1>4 DEF Kinds
    <3> QED BY <2>2, <3>2, <3>3 DEF WritePlan, es, nf, new
  <2> QED BY <1>4, <2>1, <2>2 DEF PlanWrite, Written, Allocate, es, nf
<1> QED BY <1>2, <1>3, <1>4 DEF Load, Results, es, nf

LEMMA PlansStep ==
    ASSUME OneWriter
    PROVE  WriterInv /\ [Next]_vars => WriterInv'
<1> SUFFICES ASSUME WriterInv, [Next]_vars PROVE Plans'
  BY TypeStep, ServesStep, NamesStep DEF WriterInv
<1>0. /\ pc \in [Clients -> Labels] /\ plan \in [Clients -> Plan]
      /\ super \in SuperBlock /\ DataType
      /\ \A c \in Clients : pc[c] # "idle" => req[c] \in Request
  BY DEF WriterInv, TypeInv, TypeOK, Serving, DataType
<1>1. CASE Mount \/ Crash
  <2>1. \A c \in Clients : pc'[c] = "idle"
    BY <1>1 DEF Mount, Connect, Repair, Check, Format, handlers, Crash, Reset, WriterInv, Serves
  <2> QED BY <2>1 DEF Plans
(* A handler that does not write leaves the disk and the others alone. *)
<1>2. ASSUME NEW c \in Clients, (\E r \in Requests[c] : Start(c, r)) \/ Fetch(c)
      PROVE  Plans'
  <2>1. /\ UNCHANGED <<super, data>>
        /\ pc'[c] \in {"idle", "load", "fetch"}
        /\ \A d \in Clients \ {c} : pc'[d] = pc[d] /\ req'[d] = req[d] /\ plan'[d] = plan[d]
    BY <1>0, <1>2 DEF Start, Fetch, Goto, Fail, Answer, disk, WriterInv, TypeInv, TypeOK
  <2> QED BY <2>1 DEF Plans, WriterInv, PlannedSuper
(* While one handler writes, no other has a plan. *)
<1>3. ASSUME NEW c \in Clients, Load(c) \/ WriteData(c) \/ WriteSuper(c) \/ Publish(c)
      PROVE  Plans'
  <2>1. pc[c] \in Writing /\ req' = req
    BY <1>3 DEF Load, WriteData, WriteSuper, Publish, Writing
  <2>2. \A d \in Clients \ {c} : pc[d] \notin Writing
    BY <2>1, WriterAlone DEF WriterInv
  <2>3. \A d \in Clients \ {c} : pc'[d] \notin Writing
    BY <1>0, <1>3, <2>2 DEF Load, PlanWrite, PlanDelete, WriteData, WriteSuper, Publish,
                             Goto, Fail, Answer
  <2>4. req[c] \in Request
    BY <1>0, <2>1 DEF Writing
  <2>5. /\ pc'[c] = "data" => WritePlan(req[c], super', plan'[c])
        /\ pc'[c] = "super" =>
              \/ RemovePlan(req[c], super', plan'[c])
              \/ WritePlan(req[c], super', plan'[c]) /\ Holds(data', plan'[c], Body(req[c]))
        /\ pc'[c] = "publish" => super' = SuperOf(plan'[c].entries, plan'[c].next_free)
    <3>1. CASE Load(c)
      BY <3>1, LoadPlans DEF WriterInv, Load, disk
    <3>2. CASE WriteData(c)
      <4>1. super' = super /\ WritePlan(req[c], super, plan[c])
        BY <3>2 DEF WriteData, WriterInv, Plans
      <4>2. \/ pc'[c] = "idle"
            \/ /\ pc'[c] = "super" /\ plan'[c] = plan[c]
               /\ data' = WithPieces(Body(req[c]), plan[c].start, SectorsOf(plan[c]))
        BY <1>0, <3>2 DEF WriteData, Goto, Fail, Answer
      <4>3. /\ OnDisk(plan[c]) /\ plan[c].size = ContentSize[Body(req[c])]
            /\ DirSectors <= plan[c].start /\ Finish(plan[c]) <= DiskSectors
            /\ Body(req[c]) \in Contents
        BY <1>0, <2>4, <4>1, PlanProperties, WrittenProperties
      <4> QED BY <4>1, <4>2, <4>3, WithPiecesHold
    <3>3. CASE WriteSuper(c)
      BY <1>0, <3>3 DEF WriteSuper, Goto, Fail, Answer, PlannedSuper
    <3>4. CASE Publish(c)
      BY <1>0, <3>4 DEF Publish, Answer
    <3> QED BY <1>3, <3>1, <3>2, <3>3, <3>4
  <2> QED BY <2>1, <2>3, <2>5 DEF Plans, Writing, PlannedSuper
<1>4. CASE UNCHANGED vars
  BY <1>4 DEF vars, WriterInv, Plans, PlannedSuper
<1> QED BY <1>1, <1>2, <1>3, <1>4 DEF Next, Handler

LEMMA WriterInvariant ==
    ASSUME OneWriter
    PROVE  Spec => []WriterInv
<1>1. WriterInv /\ [Next]_vars => WriterInv'
  BY PlansStep
<1> QED BY <1>1, WriterInit, PTL DEF Spec

-------------------------------------------------------------------------------
(* Copy on write: the data of a write goes behind every file.              *)

LEMMA EntriesPlaced ==
    ASSUME NEW sb \in SuperBlock
    PROVE  /\ NextFree(sb) \in Nat /\ DirSectors <= NextFree(sb) /\ NextFree(sb) <= DiskSectors
           /\ \A k \in 1 .. Len(Entries(sb)) :
                 /\ Entries(sb)[k] \in Entry /\ OnDisk(Entries(sb)[k])
                 /\ DirSectors <= Entries(sb)[k].start
                 /\ Finish(Entries(sb)[k]) \in Nat
                 /\ Finish(Entries(sb)[k]) <= NextFree(sb)
                 /\ Finish(Entries(sb)[k]) <= DiskSectors
<1>1. NextFree(sb) \in Nat /\ DirSectors <= NextFree(sb) /\ NextFree(sb) <= DiskSectors
  BY NextFreeProperties, GeometryAssumption
<1>2. ASSUME NEW k \in 1 .. Len(Entries(sb))
      PROVE  /\ Entries(sb)[k] \in Entry /\ OnDisk(Entries(sb)[k])
             /\ DirSectors <= Entries(sb)[k].start
             /\ Finish(Entries(sb)[k]) \in Nat
             /\ Finish(Entries(sb)[k]) <= NextFree(sb)
             /\ Finish(Entries(sb)[k]) <= DiskSectors
  <2> DEFINE e == Entries(sb)[k]
  <2>1. e \in Entry /\ validate_entry(e) /\ Finish(e) <= NextFree(sb)
    BY EntriesProperties, NextFreeProperties
  <2> HIDE DEF e
  <2>2. OnDisk(e)
    BY <2>1 DEF Entry, OnDisk
  <2>3. sectors_for_size(e.size) \in Nat
    BY <2>2, SectorsNat DEF OnDisk
  <2>4. Finish(e) \in Nat
    BY <2>2, <2>3 DEF OnDisk, Finish
  <2> QED BY <2>1, <2>2, <2>4 DEF validate_entry, e
<1> QED BY <1>1, <1>2

(* A data write, whole or in part, leaves what is below next_free alone.   *)
LEMMA DataKept ==
    ASSUME WriterInv, NEW c \in Clients, pc[c] = "data",
           NEW some \in SUBSET SectorsOf(plan[c]),
           data' = WithPieces(Body(req[c]), plan[c].start, some),
           NEW e, OnDisk(e), DirSectors <= e.start, Finish(e) <= NextFree(super)
    PROVE  \A s \in SectorsOf(e) : data'[s] = data[s]
<1>1. /\ super \in SuperBlock /\ DataType
      /\ req[c] \in Request /\ WritePlan(req[c], super, plan[c])
  BY DEF WriterInv, TypeInv, TypeOK, Serving, Plans, DataType
<1>2. OnDisk(plan[c]) /\ plan[c].start = NextFree(super)
  BY <1>1, PlanProperties, WrittenProperties
<1>3. SectorsOf(plan[c]) \cap SectorsOf(e) = {}
  <2>1. /\ e.start \in Nat /\ Finish(e) \in Nat
        /\ plan[c].start \in Nat /\ Finish(plan[c]) \in Nat
    BY <1>2, SectorsNat DEF OnDisk, Finish
  <2>2. Finish(e) <= plan[c].start
    BY <1>2
  <2> QED BY <2>1, <2>2 DEF SectorsOf
<1>4. Finish(e) <= DiskSectors
  <2>1. NextFree(super) <= DiskSectors /\ NextFree(super) \in Nat
    BY <1>1, EntriesPlaced
  <2>2. Finish(e) \in Nat
    BY SectorsNat DEF OnDisk, Finish
  <2> QED BY <2>1, <2>2, GeometryAssumption
<1>5. some \cap SectorsOf(e) = {}
  BY <1>3
<1> QED BY <1>1, <1>4, <1>5, WithPiecesElsewhere

(* One handler that changes files never writes a sector of a file that the  *)
(* directory on disk names, even after torn superblock writes and failed    *)
(* device calls, and whatever others read meanwhile: the old content of a   *)
(* file survives until its replacement is committed.                        *)
THEOREM CopyOnWrite ==
    ASSUME OneWriter
    PROVE  Spec => []LiveDataKept
<1>1. WriterInv => LiveDataKept
  <2> SUFFICES ASSUME WriterInv, NEW c \in Clients, pc[c] = "data",
                      NEW i \in 1 .. Len(Entries(super))
               PROVE  SectorsOf(plan[c]) \cap SectorsOf(Entries(super)[i]) = {}
    BY DEF LiveDataKept
  <2>1. super \in SuperBlock /\ req[c] \in Request /\ WritePlan(req[c], super, plan[c])
    BY DEF WriterInv, TypeInv, TypeOK, Serving, Plans
  <2>2. OnDisk(plan[c]) /\ plan[c].start = NextFree(super)
    BY <2>1, PlanProperties, WrittenProperties
  <2>3. Entries(super)[i] \in Entry /\ Finish(Entries(super)[i]) <= plan[c].start
    BY <2>1, <2>2, EntriesPlaced
  <2> QED BY <2>2, <2>3, ApartWhenBehind DEF OnDisk
<1> QED BY <1>1, WriterInvariant, PTL

-------------------------------------------------------------------------------
(* Files hold their own data, if a superblock write is atomic.             *)

Held(sb, d) ==
    \A k \in 1 .. Len(Entries(sb)) :
        ContentAt(d, Entries(sb)[k]) \in Submitted(Entries(sb)[k].name)

HeldInv == WriterInv /\ Held(super, data)

(* A superblock all of whose entries hold their data when it is written.   *)
LEMMA WrittenHeld ==
    ASSUME NEW es, Listing(es), NEW nf \in 0 .. DiskSectors, NEW d,
           \A i \in 1 .. Len(es) : ContentAt(d, es[i]) \in Submitted(OnDiskName[es[i].name])
    PROVE  Held(SuperOf(es, nf), d)
<1> DEFINE l == Entries(SuperOf(es, nf))
<1>1. SuperOf(es, nf) \in SuperBlock
  BY SuperOfType
<1>2. \A k \in 1 .. Len(l) : \E i \in 1 .. Len(es) :
         l[k].name = OnDiskName[es[i].name] /\ l[k].start = es[i].start /\ l[k].size = es[i].size
  BY WrittenEntries
<1>3. \A k \in 1 .. Len(l) : OnDisk(l[k])
  BY <1>1, EntriesPlaced
<1> HIDE DEF l
<1>4. ASSUME NEW k \in 1 .. Len(l)
      PROVE  ContentAt(d, l[k]) \in Submitted(l[k].name)
  <2>1. PICK i \in 1 .. Len(es) :
           l[k].name = OnDiskName[es[i].name] /\ l[k].start = es[i].start /\ l[k].size = es[i].size
    BY <1>2
  <2>2. ContentAt(d, l[k]) = ContentAt(d, es[i])
    BY <1>3, <2>1, ContentAtSame
  <2> QED BY <2>1, <2>2
<1> QED BY <1>4 DEF Held, l

LEMMA SupersHeld ==
    ASSUME HeldInv
    PROVE  /\ Held(RepairedSuper, data)
           /\ Held(FreshSuper, data)
           /\ \A c \in Clients : pc[c] = "super" => Held(PlannedSuper(c), data)
<1> DEFINE es == Entries(super)
<1>1. super \in SuperBlock /\ NamesCut(super)
  BY DEF HeldInv, WriterInv, TypeInv, TypeOK
<1>2. Good(es) /\ Listing(es) /\ DistinctNames(es) /\ NextFree(super) \in 0 .. DiskSectors
  BY <1>1, EntriesGood, NextFreeProperties, GeometryAssumption DEF Good, DistinctNames
<1>3. \A i \in 1 .. Len(es) : ContentAt(data, es[i]) \in Submitted(OnDiskName[es[i].name])
  BY <1>2 DEF HeldInv, Held, Good
<1>4. Held(RepairedSuper, data)
  BY <1>2, <1>3, WrittenHeld DEF RepairedSuper
<1>5. Held(FreshSuper, data)
  BY EmptyListing, WrittenHeld, GeometryAssumption DEF FreshSuper
<1> HIDE DEF es
<1>6. ASSUME NEW c \in Clients, pc[c] = "super"
      PROVE  Held(PlannedSuper(c), data)
  <2>1. /\ plan[c].next_free \in 0 .. DiskSectors /\ Listing(plan[c].entries)
        /\ req[c] \in Request /\ req[c] \in Requests[c]
        /\ \/ RemovePlan(req[c], super, plan[c])
           \/ WritePlan(req[c], super, plan[c]) /\ Holds(data, plan[c], Body(req[c]))
    BY <1>6 DEF HeldInv, WriterInv, TypeInv, TypeOK, Plan, Listing, Serving, Serves, Plans
  <2>2. CASE RemovePlan(req[c], super, plan[c])
    <3>1. plan[c].entries = Kept(es, req[c].name)
      BY <2>2 DEF RemovePlan, es
    <3>2. \A k \in 1 .. Len(Kept(es, req[c].name)) :
             \E i \in 1 .. Len(es) : Kept(es, req[c].name)[k] = es[i]
      BY <1>2, KeptProperties
    <3>3. Listing(Kept(es, req[c].name)) /\ PlannedSuper(c) = SuperOf(Kept(es, req[c].name), plan[c].next_free)
      BY <2>1, <3>1 DEF PlannedSuper
    <3>4. \A k \in 1 .. Len(Kept(es, req[c].name)) :
             LET e == Kept(es, req[c].name)[k]
             IN  ContentAt(data, e) \in Submitted(OnDiskName[e.name])
      BY <1>3, <3>2
    <3> QED BY <2>1, <3>3, <3>4, WrittenHeld
  <2>3. CASE WritePlan(req[c], super, plan[c]) /\ Holds(data, plan[c], Body(req[c]))
    <3> DEFINE new == Written(req[c], super)
    <3>1. /\ new \in Entry /\ new.name = req[c].name /\ Body(req[c]) \in Contents /\ OnDisk(new)
          /\ plan[c].entries = Place(es, new)
          /\ plan[c].start = new.start /\ plan[c].size = new.size /\ OnDisk(plan[c])
      BY <1>1, <2>1, <2>3, WrittenProperties, PlanProperties DEF es
    <3> HIDE DEF new
    <3>2. ContentAt(data, new) = Body(req[c])
      <4>1. ContentAt(data, plan[c]) = Body(req[c])
        BY <2>3, <3>1, ContentAtIs
      <4> QED BY <3>1, <4>1, ContentAtSame
    <3>3. Body(req[c]) \in Submitted(OnDiskName[new.name])
      BY <2>1, <2>3, <3>1 DEF Submitted, WritePlan
    <3>4. \A k \in 1 .. Len(Place(es, new)) :
             Place(es, new)[k] = new \/ (k \in 1 .. Len(es) /\ Place(es, new)[k] = es[k])
      BY <1>2, <3>1, PlaceProperties
    <3>5. \A k \in 1 .. Len(Place(es, new)) :
             ContentAt(data, Place(es, new)[k]) \in Submitted(OnDiskName[Place(es, new)[k].name])
      BY <1>3, <3>2, <3>3, <3>4
    <3> QED BY <2>1, <3>1, <3>5, WrittenHeld DEF PlannedSuper
  <2> QED BY <2>1, <2>2, <2>3
<1> QED BY <1>4, <1>5, <1>6

(* What a step can do to the disk: it writes one superblock, or the data of *)
(* a write, or part of that.                                                *)
LEMMA DiskStep ==
    ASSUME Cuts = {}, [Next]_vars
    PROVE  \/ UNCHANGED <<super, data>>
           \/ /\ UNCHANGED data
              /\ \/ super' = RepairedSuper \/ super' = FreshSuper
                 \/ \E c \in Clients : pc[c] = "super" /\ super' = PlannedSuper(c)
           \/ /\ UNCHANGED super
              /\ \E c \in Clients : /\ pc[c] = "data"
                                    /\ \E some \in SUBSET SectorsOf(plan[c]) :
                                          data' = WithPieces(Body(req[c]), plan[c].start, some)
<1>1. CASE Mount
  BY <1>1, InterruptedAtomic DEF Mount, Connect, Repair, Check, Format, disk
<1>2. CASE Crash
  BY <1>2, InterruptedAtomic DEF Crash, disk
<1>3. ASSUME NEW c \in Clients, (\E r \in Requests[c] : Start(c, r)) \/ Load(c) \/ Publish(c) \/ Fetch(c)
      PROVE  UNCHANGED <<super, data>>
  BY <1>3 DEF Start, Load, Publish, Fetch, disk
<1>4. ASSUME NEW c \in Clients, WriteData(c)
      PROVE  UNCHANGED super /\ pc[c] = "data"
             /\ \E some \in SUBSET SectorsOf(plan[c]) :
                   data' = WithPieces(Body(req[c]), plan[c].start, some)
  BY <1>4 DEF WriteData
<1>5. ASSUME NEW c \in Clients, WriteSuper(c)
      PROVE  UNCHANGED data /\ pc[c] = "super" /\ super' \in {super, PlannedSuper(c)}
  BY <1>5, InterruptedAtomic DEF WriteSuper
<1>6. CASE UNCHANGED vars
  BY <1>6 DEF vars
<1> QED BY <1>1, <1>2, <1>3, <1>4, <1>5, <1>6 DEF Next, Handler

LEMMA HeldStep ==
    ASSUME OneWriter, Cuts = {}
    PROVE  HeldInv /\ [Next]_vars => HeldInv'
<1> SUFFICES ASSUME HeldInv, [Next]_vars PROVE Held(super', data')
  BY PlansStep DEF HeldInv
<1>1. CASE UNCHANGED <<super, data>>
  BY <1>1 DEF HeldInv
<1>2. CASE /\ UNCHANGED data
           /\ \/ super' = RepairedSuper \/ super' = FreshSuper
              \/ \E c \in Clients : pc[c] = "super" /\ super' = PlannedSuper(c)
  BY <1>2, SupersHeld
<1>3. ASSUME UNCHANGED super, NEW c \in Clients, pc[c] = "data",
             NEW some \in SUBSET SectorsOf(plan[c]),
             data' = WithPieces(Body(req[c]), plan[c].start, some)
      PROVE  Held(super', data')
  <2> SUFFICES ASSUME NEW k \in 1 .. Len(Entries(super))
               PROVE  ContentAt(data', Entries(super)[k]) = ContentAt(data, Entries(super)[k])
    BY <1>3 DEF HeldInv, Held
  <2> DEFINE e == Entries(super)[k]
  <2>1. super \in SuperBlock
    BY DEF HeldInv, WriterInv, TypeInv, TypeOK
  <2>2. OnDisk(e) /\ DirSectors <= e.start /\ Finish(e) <= NextFree(super)
    BY <2>1, EntriesPlaced
  <2> HIDE DEF e
  <2>3. \A s \in SectorsOf(e) : data'[s] = data[s]
    BY <1>3, <2>2, DataKept DEF HeldInv
  <2> QED BY <2>2, <2>3, ContentAtSame DEF e
<1> QED BY <1>1, <1>2, <1>3, DiskStep

LEMMA HeldInit == Init => HeldInv
<1> SUFFICES ASSUME Init PROVE Held(super, data)
  BY WriterInit DEF HeldInv
<1>1. super \in SuperBlock /\ super.count = 0
  BY WriterInit DEF WriterInv, TypeInv, TypeOK, Init, Blank
<1>2. Len(Entries(super)) = 0
  <2>1. FirstSlots(super) = {}
    BY <1>1, SlotsReadRange
  <2>2. \A k \in 1 .. Len(Entries(super)) : FALSE
    BY <1>1, <2>1, EntriesAreSlots
  <2>3. Len(Entries(super)) \in Nat
    BY <1>1, EntriesProperties
  <2> QED BY <2>2, <2>3
<1> QED BY <1>2 DEF Held

(* With one handler that changes files and atomic superblock writes, no     *)
(* file of the directory ever holds data that was not submitted for it: not *)
(* after a crash or a failure in the middle of a data write, and not while  *)
(* or after others write.                                                   *)
THEOREM FilesStayWhole ==
    ASSUME OneWriter, Cuts = {}
    PROVE  Spec => []FilesHoldTheirData
<1>1. HeldInv => FilesHoldTheirData
  <2> SUFFICES ASSUME HeldInv, NEW n \in DOMAIN Files PROVE Files[n] \in Submitted(n)
    BY DEF FilesHoldTheirData
  <2>1. super \in SuperBlock
    BY DEF HeldInv, WriterInv, TypeInv, TypeOK
  <2>2. PICK k \in 1 .. Len(Entries(super)) : n = Entries(super)[k].name
    BY <2>1, FilesOnProperties DEF Files, NamesIn
  <2>3. Files[n] = ContentAt(data, Entries(super)[k])
    BY <2>1, <2>2, FilesOnProperties DEF Files
  <2> QED BY <2>2, <2>3 DEF HeldInv, Held
<1>2. HeldInv /\ [Next]_vars => HeldInv'
  BY HeldStep
<1> QED BY <1>1, <1>2, HeldInit, PTL DEF Spec

-------------------------------------------------------------------------------
(* Mounting, with any number of handlers.                                  *)

(* A superblock whose first slots are a good list and whose later slots are *)
(* not entries.                                                             *)
LEMMA EntriesAre ==
    ASSUME NEW sb \in SuperBlock, NEW es, Good(es), Len(es) <= sb.count,
           \A i \in 1 .. Len(es) : sb.slots[i] = es[i],
           \A i \in 1 .. sb.count : ~(i <= Len(es)) => ~validate_entry(sb.slots[i])
    PROVE  FirstSlots(sb) = 1 .. Len(es) /\ Entries(sb) = es
<1>1. /\ Len(es) \in Nat /\ es \in Seq(Entry) /\ sb.count \in Nat
      /\ \A i \in 1 .. Len(es) : validate_entry(es[i])
  BY GeometryAssumption DEF Good, Listing, SuperBlock
<1>2. ValidSlots(sb) = 1 .. Len(es)
  <2>1. SlotsRead(sb) = 1 .. sb.count
    BY SlotsReadRange
  <2>2. \A i \in 1 .. sb.count : validate_entry(sb.slots[i]) <=> i \in 1 .. Len(es)
    BY <1>1
  <2>3. 1 .. Len(es) \subseteq 1 .. sb.count
    BY <1>1
  <2> QED BY <2>1, <2>2, <2>3 DEF ValidSlots
<1>3. FirstSlots(sb) = 1 .. Len(es)
  <2>1. \A i, j \in 1 .. Len(es) : j < i => sb.slots[j].name # sb.slots[i].name
    BY <1>1 DEF Good
  <2> QED BY <1>2, <2>1 DEF FirstSlots
<1>4. Len(Entries(sb)) = Len(es) /\ \A k \in 1 .. Len(es) : Entries(sb)[k] = es[k]
  <2>1. Entries(sb) = Sublist(sb.slots, 1 .. Len(es))
    BY <1>3 DEF Entries
  <2> QED BY <1>1, <2>1, SublistAll
<1>5. Entries(sb) \in Seq(Entry)
  BY EntriesProperties
<1> QED BY <1>1, <1>3, <1>4, <1>5

(* A superblock without slots to drop lists its slots. *)
LEMMA AllSlotsAreEntries ==
    ASSUME NEW sb \in SuperBlock, FirstSlots(sb) = SlotsRead(sb)
    PROVE  /\ Len(Entries(sb)) = sb.count
           /\ \A i \in 1 .. sb.count : Entries(sb)[i] = sb.slots[i]
<1>1. Entries(sb) = Sublist(sb.slots, 1 .. sb.count)
  BY SlotsReadRange DEF Entries
<1>2. sb.count \in Nat
  BY DEF SuperBlock
<1> QED BY <1>1, <1>2, SublistAll

(* The slots of a good list and of a torn superblock. *)
LEMMA SlotsOfGood ==
    ASSUME NEW es, Good(es), NEW nf, NEW i \in 1 .. MaxFiles
    PROVE  SuperOf(es, nf).slots[i] = IF i <= Len(es) THEN es[i] ELSE ZeroSlot
<1>1. CASE i <= Len(es)
  <2>1. i \in 1 .. Len(es)
    BY <1>1, GeometryAssumption DEF Good, Listing
  <2>2. es[i] \in Entry /\ OnDiskName[es[i].name] = es[i].name
    BY <2>1 DEF Good, Listing
  <2>3. SuperOf(es, nf).slots[i] = [es[i] EXCEPT !.name = OnDiskName[es[i].name]]
    BY <1>1 DEF SuperOf
  <2> QED BY <1>1, <2>2, <2>3 DEF Entry
<1>2. CASE ~(i <= Len(es))
  BY <1>2 DEF SuperOf
<1> QED BY <1>1, <1>2

LEMMA TornSlots ==
    ASSUME NEW old \in SuperBlock, NEW new \in SuperBlock, NEW cut
    PROVE  /\ Torn(old, new, cut).count = new.count
           /\ Torn(old, new, cut).formatted = new.formatted
           /\ \A i \in 1 .. MaxFiles :
                 Torn(old, new, cut).slots[i] =
                    IF i < cut THEN new.slots[i]
                    ELSE IF i = cut THEN [old.slots[i] EXCEPT !.name = new.slots[i].name]
                    ELSE old.slots[i]
BY DEF Torn, SuperBlock

(* Slots that are equal stay as they are under any cut. *)
LEMMA TornSame ==
    ASSUME NEW old \in SuperBlock, NEW new \in SuperBlock, NEW cut,
           NEW i \in 1 .. MaxFiles, old.slots[i] = new.slots[i]
    PROVE  Torn(old, new, cut).slots[i] = new.slots[i]
<1>1. old.slots[i] \in Slot
  BY DEF SuperBlock
<1>2. [old.slots[i] EXCEPT !.name = new.slots[i].name] = new.slots[i]
  BY <1>1 DEF Slot
<1>3. Torn(old, new, cut).slots[i] =
         IF i < cut THEN new.slots[i]
         ELSE IF i = cut THEN [old.slots[i] EXCEPT !.name = new.slots[i].name]
         ELSE old.slots[i]
  BY TornSlots
<1> QED BY <1>2, <1>3

LEMMA GoodEmpty == Good(<<>>) /\ Len(<<>>) = 0
BY EmptyListing DEF Good

(* Where a mount without device errors stands. *)
BootInv ==
    /\ TypeInv /\ Serves /\ NamesCut(super)
    /\ ~super.formatted => super = Blank
    /\ boot = "repair" => super.formatted
    /\ boot = "check" /\ super.formatted => ~Dirty(super)
    /\ boot = "format" => ~super.formatted

(* The superblock of a good list with its own next_free needs no repair. *)
LEMMA CleanWrite ==
    ASSUME NEW es, Good(es), NEW nf \in 0 .. DiskSectors, NextFree(SuperOf(es, nf)) = nf
    PROVE  ~Dirty(SuperOf(es, nf))
<1> DEFINE sb == SuperOf(es, nf)
<1>1. sb \in SuperBlock
  BY SuperOfType DEF Good
<1>2. FirstSlots(sb) = SlotsRead(sb)
  BY RoundTrip
<1>3. sb.next_free = nf
  BY DEF SuperOf
<1> HIDE DEF sb
<1>4. ~(sb.count > MaxFiles)
  BY <1>1, GeometryAssumption DEF SuperBlock
<1> QED BY <1>2, <1>3, <1>4 DEF Dirty, sb

LEMMA CleanSupers ==
    ASSUME NamesCut(super), super \in SuperBlock
    PROVE  /\ Entries(RepairedSuper) = Entries(super) /\ ~Dirty(RepairedSuper)
           /\ Entries(FreshSuper) = <<>> /\ ~Dirty(FreshSuper)
           /\ RepairedSuper.formatted /\ FreshSuper.formatted
<1>1. Good(Entries(super)) /\ NextFree(super) \in 0 .. DiskSectors
  BY EntriesGood, NextFreeProperties, GeometryAssumption
<1>2. Entries(RepairedSuper) = Entries(super) /\ NextFree(RepairedSuper) = NextFree(super)
  BY <1>1, RoundTrip DEF RepairedSuper, NextFree
<1>3. ~Dirty(RepairedSuper)
  BY <1>1, <1>2, CleanWrite DEF RepairedSuper
<1>4. DirSectors \in 0 .. DiskSectors
  BY GeometryAssumption
<1>5. Entries(FreshSuper) = <<>> /\ FreshSuper \in SuperBlock
  BY <1>4, GoodEmpty, RoundTrip, SuperOfType, EmptyListing DEF FreshSuper
<1>6. NextFree(FreshSuper) = DirSectors
  BY <1>5, GoodEmpty, NextFreeProperties
<1>7. ~Dirty(FreshSuper)
  BY <1>4, <1>6, GoodEmpty, CleanWrite DEF FreshSuper
<1> QED BY <1>2, <1>3, <1>5, <1>7 DEF RepairedSuper, FreshSuper, SuperOf

(* Every superblock that anyone writes, whole or torn, has the magic.      *)
LEMMA FormattedOnce ==
    ASSUME NEW old \in SuperBlock, NEW new \in SuperBlock, new.formatted,
           NEW sb \in Interrupted(old, new)
    PROVE  sb = old \/ sb.formatted
BY TornSlots DEF Interrupted

LEMMA SuperStep ==
    ASSUME TypeInv, [Next]_vars
    PROVE  super' = super \/ super'.formatted
<1>1. super \in SuperBlock
  BY DEF TypeInv, TypeOK
<1>2. /\ RepairedSuper \in SuperBlock /\ FreshSuper \in SuperBlock
      /\ \A c \in Clients : PlannedSuper(c) \in SuperBlock
  BY WrittenSupers DEF TypeInv
<1>3. /\ RepairedSuper.formatted /\ FreshSuper.formatted
      /\ \A c \in Clients : PlannedSuper(c).formatted
  BY DEF RepairedSuper, FreshSuper, PlannedSuper, SuperOf
<1>4. \/ super' = super
      \/ super' = RepairedSuper \/ super' \in Interrupted(super, RepairedSuper)
      \/ super' = FreshSuper \/ super' \in Interrupted(super, FreshSuper)
      \/ \E c \in Clients : \/ super' = PlannedSuper(c)
                            \/ super' \in Interrupted(super, PlannedSuper(c))
  BY DEF Next, Mount, Connect, Repair, Check, Format, Crash, Handler, Start, Load,
         WriteData, WriteSuper, Publish, Fetch, disk, vars
<1> QED BY <1>1, <1>2, <1>3, <1>4, FormattedOnce

LEMMA BootInit == Init => BootInv
BY WriterInit DEF WriterInv, BootInv, Init

LEMMA BootStep ==
    ASSUME Faults = {}
    PROVE  BootInv /\ [Next]_vars => BootInv'
<1> SUFFICES ASSUME BootInv, [Next]_vars PROVE BootInv'
  OBVIOUS
<1> DEFINE Mounting == /\ boot = "repair" => super.formatted
                       /\ boot = "check" /\ super.formatted => ~Dirty(super)
                       /\ boot = "format" => ~super.formatted
<1>a. TypeInv' /\ Serves' /\ NamesCut(super')
  BY TypeStep, ServesStep, NamesStep DEF BootInv
<1>b. ~super'.formatted => super' = Blank
  BY SuperStep DEF BootInv
<1>1. super \in SuperBlock
  BY DEF BootInv, TypeInv, TypeOK
<1>2. ASSUME Connect PROVE Mounting'
  BY <1>2 DEF Connect, disk
<1>3. ASSUME Repair PROVE Mounting'
  BY <1>1, <1>3, CleanSupers DEF Repair, BootInv
<1>4. ASSUME Check PROVE Mounting'
  BY <1>4 DEF Check, disk
<1>5. ASSUME Format \/ Crash PROVE Mounting'
  BY <1>5 DEF Format, Crash, Reset
<1>6. ASSUME NEW c \in Clients, Handler(c)
      PROVE  Mounting'
  <2>1. ASSUME NEW r \in Requests[c], Start(c, r) PROVE boot' = "run"
    BY <2>1 DEF Start
  <2>2. ASSUME Load(c) \/ WriteData(c) \/ WriteSuper(c) \/ Publish(c) \/ Fetch(c)
        PROVE  boot' = "run"
    <3>1. pc[c] # "idle" /\ boot' = boot
      BY <2>2 DEF Load, WriteData, WriteSuper, Publish, Fetch
    <3> QED BY <3>1 DEF BootInv, Serves
  <2>3. boot' = "run"
    BY <1>6, <2>1, <2>2 DEF Handler
  <2> QED BY <2>3
<1>7. ASSUME UNCHANGED vars PROVE Mounting'
  BY <1>7 DEF vars, BootInv
<1>8. Mounting'
  BY <1>2, <1>3, <1>4, <1>5, <1>6, <1>7 DEF Next, Mount
<1> QED BY <1>a, <1>b, <1>8 DEF BootInv

LEMMA BootInvariant ==
    ASSUME Faults = {}
    PROVE  Spec => []BootInv
<1>1. BootInv /\ [Next]_vars => BootInv'
  BY BootStep
<1> QED BY <1>1, BootInit, PTL DEF Spec

(* While nothing runs, no handler changes the disk. *)
LEMMA QuietMount ==
    ASSUME BootInv, [Next]_vars, boot # "run", Faults = {}
    PROVE  /\ data' = data
           /\ \/ super' = super
              \/ boot' # "down" /\ super' = RepairedSuper
              \/ super' = FreshSuper /\ super = Blank
              \/ boot' = "down" /\ \/ super' \in Interrupted(super, RepairedSuper)
                                   \/ super = Blank /\ super' \in Interrupted(super, FreshSuper)
<1>1. \A c \in Clients : pc[c] = "idle"
  BY DEF BootInv, Serves
<1>2. ~\E c \in Clients : Handler(c)
  BY <1>1 DEF Handler, Start, Load, WriteData, WriteSuper, Publish, Fetch
<1>3. CASE Mount
  BY <1>3 DEF Mount, Connect, Repair, Check, Format, disk, BootInv
<1>4. CASE Crash
  BY <1>1, <1>4 DEF Crash, Reset, disk, BootInv
<1>5. CASE UNCHANGED vars
  BY <1>5 DEF vars
<1> QED BY <1>2, <1>3, <1>4, <1>5 DEF Next

(* A repair that has no slot to drop, and a format, can be cut short        *)
(* without a change of the entries.                                         *)
LEMMA CutMountKeepsEntries ==
    ASSUME NamesCut(super), super \in SuperBlock, FirstSlots(super) = SlotsRead(super),
           NEW cut
    PROVE  Entries(Torn(super, RepairedSuper, cut)) = Entries(super)
<1> DEFINE es == Entries(super)
<1> DEFINE torn == Torn(super, RepairedSuper, cut)
<1>1. Good(es) /\ Len(es) = super.count /\ \A i \in 1 .. Len(es) : es[i] = super.slots[i]
  BY EntriesGood, AllSlotsAreEntries
<1>2. RepairedSuper \in SuperBlock /\ RepairedSuper = SuperOf(es, NextFree(super))
  <2>1. NextFree(super) \in 0 .. DiskSectors
    BY NextFreeProperties, GeometryAssumption
  <2> QED BY <1>1, <2>1, SuperOfType DEF RepairedSuper, Good
<1> HIDE DEF es
<1>3. \A i \in 1 .. Len(es) : i \in 1 .. MaxFiles /\ RepairedSuper.slots[i] = es[i]
  BY <1>1, <1>2, SlotsOfGood, GeometryAssumption DEF Good, Listing
<1>4. torn \in SuperBlock /\ torn.count = Len(es)
  BY <1>2, TornType, TornSlots DEF SuperOf
<1>5. \A i \in 1 .. Len(es) : torn.slots[i] = es[i]
  BY <1>1, <1>2, <1>3, TornSame
<1>6. Len(es) <= torn.count /\ \A i \in 1 .. torn.count : i <= Len(es)
  BY <1>1, <1>4 DEF Good, Listing
<1> HIDE DEF torn
<1> QED BY <1>1, <1>4, <1>5, <1>6, EntriesAre DEF es, torn

LEMMA CutFormatIsEmpty ==
    ASSUME super = Blank, super \in SuperBlock, NEW cut
    PROVE  /\ Entries(super) = <<>>
           /\ Entries(FreshSuper) = <<>>
           /\ Entries(Torn(super, FreshSuper, cut)) = <<>>
<1>1. NamesCut(super) /\ super.count = 0
  BY NameAssumption DEF Blank, ZeroSlot, NamesCut
<1>2. FreshSuper \in SuperBlock /\ FreshSuper.count = 0
  BY EmptyListing, SuperOfType, GeometryAssumption DEF FreshSuper
<1>3. Torn(super, FreshSuper, cut) \in SuperBlock /\ Torn(super, FreshSuper, cut).count = 0
  BY <1>2, TornType, TornSlots
<1>4. ASSUME NEW sb \in SuperBlock, sb.count = 0 PROVE Entries(sb) = <<>>
  BY <1>4, GoodEmpty, EntriesAre
<1> QED BY <1>1, <1>2, <1>3, <1>4

(* Mounting loses and changes no file, whichever handlers and torn writes   *)
(* left the disk as it is, if the device reports no errors.                 *)
THEOREM MountKeepsTheFiles ==
    ASSUME Faults = {}
    PROVE  Spec => MountKeepsFiles
<1>1. ASSUME BootInv, [Next]_vars, boot # "run",
             boot' # "down" \/ FirstSlots(super) = SlotsRead(super)
      PROVE  FilesOn(super', data') = Files
  <2>1. super \in SuperBlock /\ super' \in SuperBlock /\ NamesCut(super)
    <3>1. TypeInv /\ TypeInv' /\ NamesCut(super)
      BY <1>1, TypeStep DEF BootInv
    <3> QED BY <3>1 DEF TypeInv, TypeOK
  <2>2. Entries(super') = Entries(super)
    <3>1. CASE super' = super \/ super' = RepairedSuper
      BY <2>1, <3>1, CleanSupers
    <3>2. CASE super' = FreshSuper /\ super = Blank
      BY <2>1, <3>2, CutFormatIsEmpty
    <3>3. CASE boot' = "down" /\ super' \in Interrupted(super, RepairedSuper)
      BY <1>1, <2>1, <3>3, CleanSupers, CutMountKeepsEntries DEF Interrupted
    <3>4. CASE super = Blank /\ super' \in Interrupted(super, FreshSuper)
      BY <2>1, <3>4, CutFormatIsEmpty DEF Interrupted
    <3> QED BY <1>1, <3>1, <3>2, <3>3, <3>4, QuietMount
  <2>3. data' = data
    BY <1>1, QuietMount
  <2> QED BY <2>1, <2>2, <2>3, FilesOnSame DEF Files
<1>2. BootInv /\ [Next]_vars =>
        [(boot # "run" /\ (boot' # "down" \/ FirstSlots(super) = SlotsRead(super)))
            => FilesOn(super', data') = Files]_vars
  BY <1>1
<1> QED BY <1>2, BootInvariant, PTL DEF Spec, MountKeepsFiles

(* When a mount without device errors is over, the superblock needs no      *)
(* repair, also when the last boot ended in a torn write.                   *)
THEOREM MountCleans ==
    ASSUME Faults = {}
    PROVE  Spec => MountLeavesClean
<1>1. ASSUME BootInv, [Next]_vars, boot # "run", boot' = "run"
      PROVE  ~Dirty(super')
  <2>1. \A c \in Clients : pc[c] = "idle"
    BY <1>1 DEF BootInv, Serves
  <2>2. ~\E c \in Clients : Handler(c)
    BY <1>1, <2>1 DEF Handler, Start, Load, WriteData, WriteSuper, Publish, Fetch
  <2>3. super \in SuperBlock /\ NamesCut(super)
    BY <1>1 DEF BootInv, TypeInv, TypeOK
  <2>4. CASE Check
    BY <1>1, <2>4 DEF Check, disk, BootInv
  <2>5. CASE Format
    BY <1>1, <2>3, <2>5, CleanSupers DEF Format
  <2>6. Check \/ Format
    BY <1>1, <2>2 DEF Next, Mount, Connect, Repair, Crash, Reset, vars
  <2> QED BY <2>4, <2>5, <2>6
<1>2. BootInv /\ [Next]_vars => [(boot # "run" /\ boot' = "run") => ~Dirty(super')]_vars
  BY <1>1
<1> QED BY <1>2, BootInvariant, PTL DEF Spec, MountLeavesClean

-------------------------------------------------------------------------------
(* The cache, with one handler that changes files and names that fit the   *)
(* name field.                                                              *)

ShortNames == \A c \in Clients : \A r \in Requests[c] : OnDiskName[r.name] = r.name

LEMMA PlannedGood ==
    ASSUME ShortNames, WriterInv, NEW c \in Clients, pc[c] = "super"
    PROVE  Good(plan[c].entries) /\ plan[c].next_free \in 0 .. DiskSectors
<1> DEFINE es == Entries(super)
<1>1. /\ super \in SuperBlock /\ NamesCut(super)
      /\ req[c] \in Request /\ req[c] \in Requests[c]
      /\ plan[c].next_free \in 0 .. DiskSectors
      /\ \/ RemovePlan(req[c], super, plan[c])
         \/ WritePlan(req[c], super, plan[c])
  BY DEF WriterInv, TypeInv, TypeOK, Plan, Serving, Serves, Plans
<1>2. Good(es)
  BY <1>1, EntriesGood
<1> HIDE DEF es
<1>3. CASE RemovePlan(req[c], super, plan[c])
  BY <1>1, <1>2, <1>3, KeptGood DEF RemovePlan, es
<1>4. CASE WritePlan(req[c], super, plan[c])
  <2> DEFINE new == Written(req[c], super)
  <2>1. /\ new \in Entry /\ new.name = req[c].name
        /\ DirSectors <= new.start /\ Finish(new) <= DiskSectors
        /\ plan[c].entries = Place(es, new)
    BY <1>1, <1>4, WrittenProperties, PlanProperties DEF es
  <2>2. ~DirectoryFull(es, new.name)
    BY <1>4, <2>1 DEF WritePlan, es
  <2> HIDE DEF new
  <2>3. validate_entry(new) /\ OnDiskName[new.name] = new.name
    BY <1>1, <2>1, NameAssumption DEF validate_entry, Entry, ShortNames
  <2> QED BY <1>1, <1>2, <2>1, <2>2, <2>3, PlaceGood
<1> QED BY <1>1, <1>3, <1>4

(* What comes back from the superblock of a plan is the plan. *)
LEMMA PlannedEntries ==
    ASSUME ShortNames, WriterInv, NEW c \in Clients, pc[c] = "super"
    PROVE  /\ Entries(PlannedSuper(c)) = plan[c].entries
           /\ FirstSlots(PlannedSuper(c)) = SlotsRead(PlannedSuper(c))
BY PlannedGood, RoundTrip DEF PlannedSuper

CacheFresh == cache = CacheOf(Entries(super))

CacheInv ==
    /\ WriterInv /\ BootInv
    /\ boot = "repair" \/ (boot = "check" /\ super.formatted) => CacheFresh
    /\ boot = "run" => CacheFresh \/ \E c \in Clients : pc[c] = "publish"
    /\ \A c \in Clients : pc[c] = "publish" => Good(plan[c].entries)

LEMMA CacheStep ==
    ASSUME OneWriter, ShortNames, Faults = {}
    PROVE  CacheInv /\ [Next]_vars => CacheInv'
<1> SUFFICES ASSUME CacheInv, [Next]_vars PROVE CacheInv'
  OBVIOUS
<1> DEFINE Rest == /\ boot = "repair" \/ (boot = "check" /\ super.formatted) => CacheFresh
                   /\ boot = "run" => CacheFresh \/ \E c \in Clients : pc[c] = "publish"
                   /\ \A c \in Clients : pc[c] = "publish" => Good(plan[c].entries)
<1>1. WriterInv' /\ BootInv'
  BY PlansStep, BootStep DEF CacheInv
<1>2. /\ super \in SuperBlock /\ NamesCut(super)
      /\ pc \in [Clients -> Labels] /\ plan \in [Clients -> Plan]
  BY DEF CacheInv, WriterInv, TypeInv, TypeOK
<1>3. boot # "run" => \A c \in Clients : pc[c] = "idle"
  BY DEF CacheInv, WriterInv, Serves
<1>4. ASSUME Connect PROVE Rest'
  BY <1>3, <1>4 DEF Connect, update_cache, disk, handlers, CacheFresh
<1>5. ASSUME Repair PROVE Rest'
  BY <1>2, <1>3, <1>5, CleanSupers DEF Repair, handlers, CacheFresh, CacheInv
<1>6. ASSUME Check PROVE Rest'
  BY <1>3, <1>6 DEF Check, disk, handlers, CacheFresh, CacheInv
<1>7. ASSUME Format PROVE Rest'
  BY <1>2, <1>3, <1>7, CleanSupers DEF Format, update_cache, handlers, CacheFresh
<1>8. ASSUME Crash PROVE Rest'
  BY <1>8 DEF Crash, Reset
<1>9. ASSUME NEW c \in Clients,
             (\E r \in Requests[c] : Start(c, r)) \/ Load(c) \/ WriteData(c) \/ Fetch(c)
      PROVE  Rest'
  <2>1. /\ UNCHANGED <<super, cache, boot>>
        /\ pc[c] # "publish" /\ pc'[c] # "publish"
        /\ \A d \in Clients \ {c} : pc'[d] = pc[d] /\ plan'[d] = plan[d]
    BY <1>2, <1>9 DEF Start, Load, PlanWrite, PlanDelete, WriteData, Fetch, Goto, Fail, Answer, disk
  <2>2. boot # "repair" /\ boot # "check"
    BY <1>9 DEF Start, Load, WriteData, Fetch, CacheInv, WriterInv, Serves
  <2> QED BY <2>1, <2>2 DEF CacheInv, CacheFresh
<1>10. ASSUME NEW c \in Clients, WriteSuper(c) PROVE Rest'
  <2>1. boot = "run" /\ boot' = boot
    BY <1>10 DEF WriteSuper, CacheInv, WriterInv, Serves
  <2>2. /\ pc[c] = "super" /\ pc'[c] = "publish" /\ plan'[c] = plan[c]
        /\ \A d \in Clients \ {c} : pc'[d] = pc[d] /\ plan'[d] = plan[d]
    BY <1>2, <1>10 DEF WriteSuper, Goto
  <2>3. Good(plan[c].entries)
    BY <2>2, PlannedGood DEF CacheInv
  <2> QED BY <2>1, <2>2, <2>3 DEF CacheInv
<1>11. ASSUME NEW c \in Clients, Publish(c) PROVE Rest'
  <2>1. boot = "run" /\ boot' = boot /\ super' = super /\ cache' = CacheOf(plan[c].entries)
    BY <1>11 DEF Publish, update_cache, disk, CacheInv, WriterInv, Serves
  <2>2. /\ pc[c] = "publish" /\ pc'[c] # "publish"
        /\ \A d \in Clients \ {c} : pc'[d] = pc[d] /\ plan'[d] = plan[d]
    BY <1>2, <1>11 DEF Publish, Answer
  <2>3. super = SuperOf(plan[c].entries, plan[c].next_free) /\ Good(plan[c].entries)
        /\ plan[c].next_free \in 0 .. DiskSectors
    BY <1>2, <2>2 DEF CacheInv, WriterInv, Plans, PlannedSuper, Plan
  <2>4. Entries(super) = plan[c].entries
    BY <2>3, RoundTrip
  <2> QED BY <2>1, <2>2, <2>4 DEF CacheInv, CacheFresh
<1>12. ASSUME UNCHANGED vars PROVE Rest'
  BY <1>12 DEF vars, CacheInv, CacheFresh
<1>13. Rest'
  BY <1>4, <1>5, <1>6, <1>7, <1>8, <1>9, <1>10, <1>11, <1>12 DEF Next, Mount, Handler
<1> QED BY <1>1, <1>13 DEF CacheInv

LEMMA CacheInvariant ==
    ASSUME OneWriter, ShortNames, Faults = {}
    PROVE  Spec => []CacheInv
<1>1. Init => CacheInv
  BY WriterInit, BootInit DEF CacheInv, Init
<1>2. CacheInv /\ [Next]_vars => CacheInv'
  BY CacheStep
<1> QED BY <1>1, <1>2, PTL DEF Spec

(* Between a superblock write and its update_cache the cache is behind; at  *)
(* any other time, whatever was torn and repaired before, ls and cat see    *)
(* what the directory on disk says.                                         *)
THEOREM CacheFollowsDisk ==
    ASSUME OneWriter, ShortNames, Faults = {}
    PROVE  Spec => []CacheCoherent
<1>1. CacheInv => CacheCoherent
  BY DEF CacheInv, CacheFresh, CacheCoherent
<1> QED BY <1>1, CacheInvariant, PTL

-------------------------------------------------------------------------------
(* Answered writes.  The disk of an answered write needs no repair and no   *)
(* format, so that only the next request of its caller can change it.      *)

Answered(c) ==
    req[c].kind = "write" /\ (pc[c] = "publish" \/ (pc[c] = "idle" /\ reply[c].result = "ok"))

Holding(sb, d, n, x) ==
    \E k \in 1 .. Len(Entries(sb)) :
        Entries(sb)[k].name = n /\ ContentAt(d, Entries(sb)[k]) = x

AckInv ==
    /\ WriterInv
    /\ boot = "repair" => super.formatted /\ Dirty(super)
    /\ boot = "format" => ~super.formatted
    /\ \A c \in Clients : Answered(c) =>
          /\ super.formatted /\ ~Dirty(super)
          /\ Holding(super, data, req[c].name, req[c].content)

(* The superblock of a write is clean and leads to the data of the write.  *)
LEMMA PlannedWrite ==
    ASSUME ShortNames, WriterInv, NEW c \in Clients, pc[c] = "super", req[c].kind = "write"
    PROVE  /\ PlannedSuper(c).formatted /\ ~Dirty(PlannedSuper(c))
           /\ Holding(PlannedSuper(c), data, req[c].name, req[c].content)
<1> DEFINE es == Entries(super)
<1> DEFINE new == Written(req[c], super)
<1>1. /\ super \in SuperBlock /\ req[c] \in Request /\ Body(req[c]) = req[c].content
      /\ WritePlan(req[c], super, plan[c]) /\ Holds(data, plan[c], Body(req[c]))
  BY DEF WriterInv, TypeInv, TypeOK, Serving, Plans, RemovePlan, Body
<1>2. /\ new \in Entry /\ new.name = req[c].name /\ OnDisk(new) /\ Body(req[c]) \in Contents
      /\ DirSectors <= new.start
      /\ plan[c].entries = Place(es, new) /\ plan[c].next_free = Finish(new)
      /\ new.start = NextFree(super)
      /\ plan[c].start = new.start /\ plan[c].size = new.size /\ OnDisk(plan[c])
  BY <1>1, WrittenProperties, PlanProperties
<1>3. Listing(es) /\ DistinctNames(es) /\ \A i \in 1 .. Len(es) : Finish(es[i]) <= new.start
  BY <1>1, <1>2, EntriesListing, EntriesProperties, NextFreeProperties DEF DistinctNames
<1>4. /\ PlannedSuper(c) \in SuperBlock
      /\ PlannedSuper(c) = SuperOf(plan[c].entries, plan[c].next_free)
      /\ Good(plan[c].entries) /\ plan[c].next_free \in 0 .. DiskSectors
      /\ Entries(PlannedSuper(c)) = plan[c].entries
  BY PlannedGood, PlannedEntries, WrittenSupers DEF WriterInv, TypeInv, PlannedSuper
<1> HIDE DEF es, new
<1>5. ~Dirty(PlannedSuper(c)) /\ PlannedSuper(c).formatted
  <2>1. NextFree(PlannedSuper(c)) = plan[c].next_free
    BY <1>2, <1>3, <1>4, NextFreeOfPlace
  <2> QED BY <1>4, <2>1, CleanWrite DEF SuperOf
<1>6. ContentAt(data, new) = req[c].content
  <2>1. ContentAt(data, plan[c]) = Body(req[c])
    BY <1>1, <1>2, ContentAtIs
  <2> QED BY <1>1, <1>2, <2>1, ContentAtSame
<1>7. PICK k \in 1 .. Len(Place(es, new)) : Place(es, new)[k] = new
  BY <1>2, <1>3, PlaceProperties
<1> QED BY <1>2, <1>4, <1>5, <1>6, <1>7 DEF Holding

(* No step changes the disk under an answered write. *)
LEMMA AnsweredKeepsDisk ==
    ASSUME OneWriter, AckInv, [Next]_vars, NEW c \in Clients, Answered(c)
    PROVE  UNCHANGED <<super, data>>
<1>1. \A d \in Clients : pc[d] # "data" /\ pc[d] # "super"
  <2> SUFFICES ASSUME NEW d \in Clients, pc[d] \in {"data", "super"} PROVE FALSE
    OBVIOUS
  <2>1. req[d] \in Requests[d] /\ req[d].kind # "cat"
    BY DEF AckInv, WriterInv, Serves, Writing
  <2>2. req[c] \in Requests[c] /\ req[c].kind # "cat"
    BY DEF AckInv, WriterInv, Serves, Answered, NoRequest
  <2>3. c = d
    BY <2>1, <2>2 DEF OneWriter
  <2> QED BY <2>3 DEF Answered
<1>2. boot # "repair" /\ boot # "format"
  BY DEF AckInv
<1>3. CASE Mount
  BY <1>2, <1>3 DEF Mount, Connect, Repair, Check, Format, disk
<1>4. CASE Crash
  BY <1>1, <1>2, <1>4 DEF Crash, disk
<1>5. ASSUME NEW d \in Clients, Handler(d)
      PROVE  UNCHANGED <<super, data>>
  BY <1>1, <1>5 DEF Handler, Start, Load, WriteData, WriteSuper, Publish, Fetch, disk
<1>6. CASE UNCHANGED vars
  BY <1>6 DEF vars
<1> QED BY <1>3, <1>4, <1>5, <1>6 DEF Next

(* An answer "ok" to a write comes from its superblock write. *)
LEMMA NewlyAnswered ==
    ASSUME WriterInv, [Next]_vars, NEW c \in Clients, Answered(c)'
    PROVE  /\ req'[c] = req[c]
           /\ \/ Answered(c)
              \/ pc[c] = "super" /\ super' = PlannedSuper(c) /\ data' = data
<1>1. /\ pc \in [Clients -> Labels] /\ req \in [Clients -> Request \cup {NoRequest}]
      /\ reply \in [Clients -> Reply]
      /\ \A d \in Clients : pc[d] = "fetch" => req[d].kind = "cat"
  BY DEF WriterInv, TypeInv, TypeOK, Serves
<1>2. CASE Mount
  BY <1>2 DEF Mount, Connect, Repair, Check, Format, handlers, Answered
<1>3. CASE Crash
  BY <1>1, <1>3 DEF Crash, Reset, Answered, NoReply
<1>4. ASSUME NEW d \in Clients, Handler(d), d # c
      PROVE  pc'[c] = pc[c] /\ req'[c] = req[c] /\ reply'[c] = reply[c]
  BY <1>1, <1>4 DEF Handler, Start, Load, PlanWrite, PlanDelete, WriteData, WriteSuper, Publish,
                    Fetch, Goto, Fail, Answer
<1>5. ASSUME NEW r \in Requests[c], Start(c, r)
      PROVE  FALSE
  <2>1. pc'[c] # "publish" /\ (pc'[c] = "idle" => reply'[c].result # "ok")
    BY <1>1, <1>5 DEF Start, Goto, Fail, Answer
  <2> QED BY <2>1 DEF Answered
<1>6. ASSUME Load(c) \/ WriteData(c)
      PROVE  FALSE
  <2>1. pc'[c] # "publish" /\ (pc'[c] = "idle" => reply'[c].result # "ok")
    BY <1>1, <1>6 DEF Load, PlanWrite, PlanDelete, WriteData, Goto, Fail, Answer
  <2> QED BY <2>1 DEF Answered
<1>7. CASE WriteSuper(c)
  <2>1. \/ super' = PlannedSuper(c) /\ data' = data
        \/ pc'[c] = "idle" /\ reply'[c].result = "Block_error"
    BY <1>1, <1>7 DEF WriteSuper, Fail, Answer
  <2> QED BY <1>7, <2>1 DEF WriteSuper, Answered
<1>8. CASE Publish(c)
  BY <1>8 DEF Publish, Answered
<1>9. ASSUME Fetch(c) PROVE FALSE
  BY <1>1, <1>9 DEF Fetch, Answered
<1>10. CASE UNCHANGED vars
  BY <1>10 DEF vars, Answered
<1>11. ASSUME NEW d \in Clients, Handler(d), d # c
       PROVE  req'[c] = req[c] /\ Answered(c)
  BY <1>4, <1>11 DEF Answered
<1> QED BY <1>2, <1>3, <1>5, <1>6, <1>7, <1>8, <1>9, <1>10, <1>11 DEF Next, Handler

LEMMA AckStep ==
    ASSUME OneWriter, ShortNames, "read" \notin Faults
    PROVE  AckInv /\ [Next]_vars => AckInv'
<1> SUFFICES ASSUME AckInv, [Next]_vars PROVE AckInv'
  OBVIOUS
<1>1. WriterInv'
  BY PlansStep DEF AckInv
<1>2. /\ boot' = "repair" => super'.formatted /\ Dirty(super')
      /\ boot' = "format" => ~super'.formatted
  <2>1. CASE Mount
    BY <2>1 DEF Mount, Connect, Repair, Check, Format, disk
  <2>2. CASE Crash
    BY <2>2 DEF Crash, Reset
  <2>3. ASSUME NEW c \in Clients, NEW r \in Requests[c], Start(c, r)
        PROVE  boot' = "run"
    BY <2>3 DEF Start
  <2>4. ASSUME NEW c \in Clients, Load(c) \/ WriteData(c) \/ WriteSuper(c) \/ Publish(c) \/ Fetch(c)
        PROVE  boot' = "run"
    <3>1. pc[c] # "idle" /\ boot' = boot
      BY <2>4 DEF Load, WriteData, WriteSuper, Publish, Fetch
    <3> QED BY <3>1 DEF AckInv, WriterInv, Serves
  <2>5. CASE UNCHANGED vars
    BY <2>5 DEF vars, AckInv
  <2> QED BY <2>1, <2>2, <2>3, <2>4, <2>5 DEF Next, Handler
<1>3. ASSUME NEW c \in Clients, Answered(c)'
      PROVE  /\ super'.formatted /\ ~Dirty(super')
             /\ Holding(super', data', req'[c].name, req'[c].content)
  <2>1. WriterInv
    BY DEF AckInv
  <2>2. CASE Answered(c)
    BY <1>3, <2>1, <2>2, NewlyAnswered, AnsweredKeepsDisk DEF AckInv
  <2>3. CASE pc[c] = "super" /\ super' = PlannedSuper(c) /\ data' = data
    <3>1. req'[c] = req[c] /\ req[c].kind = "write"
      BY <1>3, <2>1, NewlyAnswered DEF Answered
    <3> QED BY <2>1, <2>3, <3>1, PlannedWrite
  <2> QED BY <1>3, <2>1, <2>2, <2>3, NewlyAnswered
<1> QED BY <1>1, <1>2, <1>3 DEF AckInv

(* A write that was answered is on the disk, and stays there until its      *)
(* caller asks for something else: through crashes at any point, repairs    *)
(* and formats of later mounts, torn superblock writes and device write     *)
(* errors.  (After a read error a mount formats the disk.)                  *)
THEOREM AckedWritesStay ==
    ASSUME OneWriter, ShortNames, "read" \notin Faults
    PROVE  Spec => []AckedWriteStored
<1>1. Init => AckInv
  BY WriterInit DEF AckInv, Init, Answered, NoRequest
<1>2. AckInv /\ [Next]_vars => AckInv'
  BY AckStep
<1>3. AckInv => AckedWriteStored
  <2> SUFFICES ASSUME AckInv, NEW c \in Clients, Answered(c), pc[c] = "idle"
               PROVE  LET n == OnDiskName[req[c].name]
                      IN  n \in DOMAIN Files /\ Files[n] = req[c].content
    BY DEF AckedWriteStored, Answered
  <2>1. super \in SuperBlock /\ req[c] \in Requests[c]
    BY DEF AckInv, WriterInv, TypeInv, TypeOK, Serves, Answered, NoRequest
  <2>2. OnDiskName[req[c].name] = req[c].name
    BY <2>1 DEF ShortNames
  <2>3. PICK k \in 1 .. Len(Entries(super)) :
           /\ Entries(super)[k].name = req[c].name
           /\ ContentAt(data, Entries(super)[k]) = req[c].content
    BY DEF AckInv, Holding
  <2>4. req[c].name \in DOMAIN Files /\ Files[req[c].name] = req[c].content
    BY <2>1, <2>3, FilesOnProperties DEF Files, NamesIn
  <2> QED BY <2>2, <2>4
<1> QED BY <1>1, <1>2, <1>3, PTL DEF Spec

-------------------------------------------------------------------------------
(* Torn superblock writes.  As long as superblock writes are atomic, the    *)
(* superblock on disk is one that write_superblock lays out for a good      *)
(* list; then the next write of it may be cut anywhere.                     *)

Neat(sb) ==
    /\ Len(Entries(sb)) = sb.count
    /\ \A i \in 1 .. MaxFiles :
          sb.slots[i] = IF i <= sb.count THEN Entries(sb)[i] ELSE ZeroSlot

NeatInv == WriterInv /\ Neat(super)

LEMMA NeatWrite ==
    ASSUME NEW es, Good(es), NEW nf \in 0 .. DiskSectors
    PROVE  Neat(SuperOf(es, nf))
<1>1. Entries(SuperOf(es, nf)) = es /\ SuperOf(es, nf).count = Len(es)
  BY RoundTrip, SuperOfType DEF Good
<1> QED BY <1>1, SlotsOfGood DEF Neat

LEMMA NeatStep ==
    ASSUME OneWriter, ShortNames, Cuts = {}
    PROVE  NeatInv /\ [Next]_vars => NeatInv'
<1> SUFFICES ASSUME NeatInv, [Next]_vars PROVE NeatInv'
  OBVIOUS
<1>1. WriterInv /\ WriterInv' /\ super \in SuperBlock /\ NamesCut(super)
  BY PlansStep DEF NeatInv, WriterInv, TypeInv, TypeOK
<1>2. Neat(RepairedSuper)
  BY <1>1, EntriesGood, NextFreeProperties, NeatWrite, GeometryAssumption DEF RepairedSuper
<1>3. Neat(FreshSuper)
  BY GoodEmpty, NeatWrite, GeometryAssumption DEF FreshSuper
<1>4. \A c \in Clients : pc[c] = "super" => Neat(PlannedSuper(c))
  BY <1>1, PlannedGood, NeatWrite DEF PlannedSuper
<1>5. \/ super' \in {super, RepairedSuper, FreshSuper}
      \/ \E c \in Clients : pc[c] = "super" /\ super' = PlannedSuper(c)
  BY DiskStep
<1>6. Neat(super')
  BY <1>2, <1>3, <1>4, <1>5 DEF NeatInv
<1> QED BY <1>1, <1>6 DEF NeatInv

LEMMA NeatInvariant ==
    ASSUME OneWriter, ShortNames, Cuts = {}
    PROVE  Spec => []NeatInv
<1>1. ASSUME Init PROVE NeatInv
  <2>1. WriterInv /\ super \in SuperBlock
    BY <1>1, WriterInit DEF WriterInv, TypeInv, TypeOK
  <2>2. super.count = 0 /\ \A i \in 1 .. MaxFiles : super.slots[i] = ZeroSlot
    BY <1>1 DEF Init, Blank
  <2>3. Entries(super) = <<>>
    BY <2>1, <2>2, GoodEmpty, EntriesAre
  <2>4. Neat(super)
    BY <2>2, <2>3, GoodEmpty DEF Neat
  <2> QED BY <2>1, <2>4 DEF NeatInv
<1>2. NeatInv /\ [Next]_vars => NeatInv'
  BY NeatStep
<1> QED BY <1>1, <1>2, PTL DEF Spec

(* A slot with the name of the new file and the zeros of an unused slot is  *)
(* no entry: sector 0 holds the superblock.                                 *)
LEMMA HalfSlotInvalid ==
    ASSUME NEW name
    PROVE  /\ ~validate_entry(ZeroSlot)
           /\ ~validate_entry([ZeroSlot EXCEPT !.name = name])
BY GeometryAssumption DEF validate_entry, ZeroSlot

(* The torn superblock of a write lists the old directory or the new one.  *)
LEMMA TornPlaceEntries ==
    ASSUME NEW old \in SuperBlock, NamesCut(old), Neat(old),
           NEW w \in Entry, Good(Place(Entries(old), w)), NEW nf \in 0 .. DiskSectors,
           NEW cut \in 1 .. MaxFiles
    PROVE  Entries(Torn(old, SuperOf(Place(Entries(old), w), nf), cut))
              \in {Entries(old), Place(Entries(old), w)}
<1> DEFINE es == Entries(old)
<1> DEFINE l == Place(es, w)
<1> DEFINE new == SuperOf(l, nf)
<1> DEFINE torn == Torn(old, new, cut)
<1>1. /\ Good(es) /\ Good(l) /\ Len(es) = old.count
      /\ Len(es) \in 0 .. MaxFiles /\ Len(l) \in 0 .. MaxFiles /\ MaxFiles \in Nat
      /\ \A i \in 1 .. MaxFiles : old.slots[i] = IF i <= Len(es) THEN es[i] ELSE ZeroSlot
  BY EntriesGood, EntriesProperties, GeometryAssumption DEF Neat, Good, Listing
<1>g. Good(es) /\ Good(l)
  BY <1>1
<1>2. new \in SuperBlock /\ new.count = Len(l)
  BY <1>1, SuperOfType DEF Good
<1>3. \A i \in 1 .. MaxFiles : new.slots[i] = IF i <= Len(l) THEN l[i] ELSE ZeroSlot
  BY <1>1, SlotsOfGood
<1> HIDE DEF new
<1>4. torn \in SuperBlock /\ torn.count = Len(l)
  BY <1>2, TornType, TornSlots
<1>t. torn \in SuperBlock
  BY <1>4
<1>5. \A i \in 1 .. MaxFiles :
         torn.slots[i] = IF i < cut THEN new.slots[i]
                         ELSE IF i = cut THEN [old.slots[i] EXCEPT !.name = new.slots[i].name]
                         ELSE old.slots[i]
  BY <1>2, TornSlots
<1>6. \A i \in 1 .. MaxFiles : old.slots[i] = new.slots[i] => torn.slots[i] = new.slots[i]
  BY <1>2, TornSame
<1>7. es \in Seq(Entry) /\ \A i \in 1 .. Len(es) : es[i] \in Entry
  BY <1>1 DEF Good, Listing
(* A new file takes the slot behind the last. *)
<1>8. CASE Located(es, w.name) = {}
  <2>1. /\ Len(l) = Len(es) + 1
        /\ \A i \in 1 .. Len(es) : l[i] = es[i]
    BY <1>7, <1>8 DEF Place
  <2> HIDE DEF l, torn, es
  <2>2. \A i \in 1 .. Len(es) : i \in 1 .. MaxFiles /\ torn.slots[i] = es[i] /\ i \in 1 .. Len(l)
    <3> SUFFICES ASSUME NEW i \in 1 .. Len(es)
                 PROVE  i \in 1 .. MaxFiles /\ torn.slots[i] = es[i] /\ i \in 1 .. Len(l)
      OBVIOUS
    <3>1. i \in 1 .. MaxFiles /\ i \in 1 .. Len(l) /\ i <= Len(es) /\ i <= Len(l)
      BY <1>1, <2>1
    <3>2. old.slots[i] = es[i] /\ new.slots[i] = es[i]
      BY <1>1, <1>3, <2>1, <3>1
    <3> QED BY <1>6, <3>1, <3>2
  <2>3. Len(l) \in 1 .. MaxFiles /\ old.slots[Len(l)] = ZeroSlot /\ new.slots[Len(l)] = l[Len(l)]
    BY <1>1, <1>3, <2>1
  <2>4. CASE Len(l) < cut
    <3>1. torn.slots[Len(l)] = l[Len(l)]
      BY <1>5, <2>3, <2>4
    <3>2. \A i \in 1 .. Len(l) : i \in 1 .. Len(es) \/ i = Len(l)
      BY <1>1, <2>1
    <3>3. \A i \in 1 .. Len(l) : torn.slots[i] = l[i]
      BY <2>1, <2>2, <3>1, <3>2
    <3>4. /\ Len(l) <= torn.count
          /\ \A i \in 1 .. torn.count : ~(i <= Len(l)) => ~validate_entry(torn.slots[i])
      BY <1>1, <1>4
    <3>5. Entries(torn) = l
      BY <1>g, <1>t, <3>3, <3>4, EntriesAre
    <3> QED BY <3>5 DEF torn, new, l, es
  <2>5. CASE ~(Len(l) < cut)
    <3>1. ~validate_entry(torn.slots[Len(l)])
      BY <1>5, <2>3, <2>5, HalfSlotInvalid
    <3>2. \A i \in 1 .. torn.count : ~(i <= Len(es)) => ~validate_entry(torn.slots[i])
      <4>1. \A i \in 1 .. torn.count : ~(i <= Len(es)) => i = Len(l)
        BY <1>1, <1>4, <2>1
      <4> QED BY <3>1, <4>1
    <3>3. Len(es) <= torn.count
      BY <1>1, <1>4, <2>1
    <3>4. Entries(torn) = es
      BY <1>g, <1>t, <2>2, <3>2, <3>3, EntriesAre
    <3> QED BY <3>4 DEF torn, new, l, es
  <2> QED BY <2>4, <2>5
(* An overwrite changes the extent in the slot of the file. *)
<1>9. CASE Located(es, w.name) # {}
  <2>1. PICK at \in 1 .. Len(es) : es[at].name = w.name
    BY <1>9 DEF Located
  <2>2. \A i \in 1 .. Len(es) : i # at => es[i].name # w.name
    BY <1>1, <2>1 DEF Good
  <2>3. /\ Len(l) = Len(es) /\ l[at] = w
        /\ \A i \in 1 .. Len(es) : i # at => l[i] = es[i]
    BY <1>7, <1>9, <2>1, <2>2 DEF Place
  <2> HIDE DEF l, torn, es
  <2>4. at \in 1 .. MaxFiles /\ old.slots[at] = es[at] /\ new.slots[at] = w
    BY <1>1, <1>3, <2>1, <2>3
  <2>5. \A i \in 1 .. Len(es) : i # at => torn.slots[i] = es[i] /\ torn.slots[i] = l[i]
    <3> SUFFICES ASSUME NEW i \in 1 .. Len(es), i # at
                 PROVE  torn.slots[i] = es[i] /\ torn.slots[i] = l[i]
      OBVIOUS
    <3>1. i \in 1 .. MaxFiles /\ i <= Len(es) /\ i <= Len(l) /\ l[i] = es[i]
      BY <1>1, <2>3
    <3>2. old.slots[i] = es[i] /\ new.slots[i] = es[i]
      BY <1>1, <1>3, <3>1
    <3> QED BY <1>6, <3>1, <3>2
  <2>6. /\ Len(es) <= torn.count /\ Len(l) <= torn.count
        /\ \A i \in 1 .. torn.count : ~(i <= Len(es)) => ~validate_entry(torn.slots[i])
        /\ \A i \in 1 .. torn.count : ~(i <= Len(l)) => ~validate_entry(torn.slots[i])
    BY <1>1, <1>4, <2>3
  <2>7. CASE at < cut
    <3>1. torn.slots[at] = l[at]
      BY <1>5, <2>3, <2>4, <2>7
    <3>2. \A i \in 1 .. Len(l) : torn.slots[i] = l[i]
      BY <2>3, <2>5, <3>1
    <3>3. Entries(torn) = l
      BY <1>g, <1>t, <2>6, <3>2, EntriesAre
    <3> QED BY <3>3 DEF torn, new, l, es
  <2>8. CASE ~(at < cut)
    <3>1. torn.slots[at] = es[at]
      <4>1. [es[at] EXCEPT !.name = w.name] = es[at]
        BY <1>7, <2>1 DEF Entry
      <4> QED BY <1>5, <2>4, <2>8, <4>1
    <3>2. \A i \in 1 .. Len(es) : torn.slots[i] = es[i]
      BY <2>5, <3>1
    <3>3. Entries(torn) = es
      BY <1>g, <1>t, <2>6, <3>2, EntriesAre
    <3> QED BY <3>3 DEF torn, new, l, es
  <2> QED BY <2>7, <2>8
<1> QED BY <1>8, <1>9

(* A write drops no name. *)
LEMMA PlaceNames ==
    ASSUME NEW sb \in SuperBlock, NEW w \in Entry
    PROVE  NamesIn(Entries(sb)) \subseteq NamesIn(Place(Entries(sb), w))
<1> DEFINE es == Entries(sb)
<1>1. Listing(es) /\ DistinctNames(es)
  BY EntriesListing, EntriesProperties DEF DistinctNames
<1> HIDE DEF es
<1>2. /\ \A i \in 1 .. Len(es) : es[i].name # w.name =>
            i \in 1 .. Len(Place(es, w)) /\ Place(es, w)[i] = es[i]
      /\ \E k \in 1 .. Len(Place(es, w)) : Place(es, w)[k] = w
  BY <1>1, PlaceProperties
<1>3. ASSUME NEW i \in 1 .. Len(es) PROVE es[i].name \in NamesIn(Place(es, w))
  <2>1. \E k \in 1 .. Len(Place(es, w)) : Place(es, w)[k].name = es[i].name
    BY <1>2
  <2> QED BY <2>1 DEF NamesIn
<1> QED BY <1>3 DEF NamesIn, es

(* The superblock write of a write or a touch, cut at any slot, shows every *)
(* file as before it or as after it: its names are written over equal ones, *)
(* and the slot it adds is no entry while its extent is zero.               *)
THEOREM TornWriteIsOldOrNew ==
    ASSUME OneWriter, ShortNames, Cuts = {}
    PROVE  Spec => []TornWriteShowsOldOrNew
<1>1. NeatInv => TornWriteShowsOldOrNew
  <2> SUFFICES ASSUME NeatInv, NEW c \in Clients, pc[c] = "super", req[c].kind # "rm",
                      NEW cut \in 1 .. MaxFiles,
                      NEW n \in DOMAIN Files
                                \cup DOMAIN FilesOn(Torn(super, PlannedSuper(c), cut), data)
               PROVE  LET torn == FilesOn(Torn(super, PlannedSuper(c), cut), data)
                          new == FilesOn(PlannedSuper(c), data)
                      IN  \/ n \in DOMAIN Files \cap DOMAIN torn /\ torn[n] = Files[n]
                          \/ n \in DOMAIN new \cap DOMAIN torn /\ torn[n] = new[n]
    BY DEF TornWriteShowsOldOrNew
  <2> DEFINE torn == Torn(super, PlannedSuper(c), cut)
  <2>1. /\ WriterInv /\ super \in SuperBlock /\ NamesCut(super) /\ Neat(super)
        /\ req[c] \in Request /\ WritePlan(req[c], super, plan[c])
    BY DEF NeatInv, WriterInv, TypeInv, TypeOK, Serving, Plans, RemovePlan
  <2>2. PlannedSuper(c) \in SuperBlock
    BY <2>1, WrittenSupers DEF WriterInv, TypeInv
  <2>3. /\ Written(req[c], super) \in Entry
        /\ plan[c].entries = Place(Entries(super), Written(req[c], super))
    BY <2>1, WrittenProperties, PlanProperties
  <2>4. /\ Good(plan[c].entries) /\ plan[c].next_free \in 0 .. DiskSectors
        /\ Entries(PlannedSuper(c)) = plan[c].entries
    BY <2>1, PlannedGood, PlannedEntries
  <2>5. torn \in SuperBlock /\ Entries(torn) \in {Entries(super), Entries(PlannedSuper(c))}
    BY <2>1, <2>2, <2>3, <2>4, TornType, TornPlaceEntries DEF PlannedSuper
  <2> HIDE DEF torn
  <2>6. \/ FilesOn(torn, data) = Files
        \/ FilesOn(torn, data) = FilesOn(PlannedSuper(c), data)
    <3>1. \A tb \in SuperBlock : Entries(torn) = Entries(tb) =>
             FilesOn(torn, data) = FilesOn(tb, data)
      BY <2>5, SameEntriesSameFiles
    <3> QED BY <2>1, <2>2, <2>5, <3>1 DEF Files
  <2>7. DOMAIN Files \subseteq DOMAIN FilesOn(PlannedSuper(c), data)
    <3>1. /\ DOMAIN Files = NamesIn(Entries(super))
          /\ DOMAIN FilesOn(PlannedSuper(c), data) = NamesIn(plan[c].entries)
      BY <2>1, <2>2, <2>4, FilesOnProperties DEF Files
    <3>2. NamesIn(Entries(super)) \subseteq NamesIn(plan[c].entries)
      BY <2>1, <2>3, PlaceNames
    <3> QED BY <3>1, <3>2
  <2> QED BY <2>6, <2>7 DEF torn
<1> QED BY <1>1, NeatInvariant, PTL

(* The entries in front of a removed one keep their place. *)
LEMMA KeptFront ==
    ASSUME NEW es, Listing(es), NEW name,
           NEW i \in 1 .. Len(es), \A j \in Located(es, name) : i < j
    PROVE  i \in 1 .. Len(Kept(es, name)) /\ Kept(es, name)[i] = es[i]
<1> DEFINE I == (1 .. Len(es)) \ Located(es, name)
<1>1. Len(es) \in Nat /\ I \in SUBSET (1 .. Len(es)) /\ i \in Nat
  BY DEF Listing
<1>2. {j \in I : j <= i} = 1 .. i
  <2>1. \A j \in 1 .. i : j \in 1 .. Len(es) /\ j <= i /\ j \notin Located(es, name)
    <3> SUFFICES ASSUME NEW j \in 1 .. i
                 PROVE  j \in 1 .. Len(es) /\ j <= i /\ j \notin Located(es, name)
      OBVIOUS
    <3>1. j \in 1 .. Len(es) /\ j <= i /\ ~(i < j)
      BY <1>1
    <3> QED BY <3>1
  <2>2. \A j \in I : j <= i => j \in 1 .. i
    BY <1>1
  <2> QED BY <2>1, <2>2
<1>3. i \in I
  BY <1>1, <1>2
<1> HIDE DEF I
<1>4. Rank(I, i) = i
  <2>1. Cardinality(1 .. i) = i
    BY <1>1, FS_Interval
  <2> QED BY <1>2, <2>1 DEF Rank
<1>5. /\ Rank(I, i) \in 1 .. Cardinality(I)
      /\ Sublist(es, I)[Rank(I, i)] = es[i]
      /\ Len(Sublist(es, I)) = Cardinality(I)
  <2>1. /\ Rank(I, i) \in 1 .. Cardinality(I)
        /\ Sublist(es, I)[Rank(I, i)] = es[i]
    BY <1>1, <1>3, RankIsIndex
  <2>2. Len(Sublist(es, I)) = Cardinality(I)
    BY <1>1, SublistProperties
  <2> QED BY <2>1, <2>2
<1> QED BY <1>4, <1>5 DEF Kept, I

(* The superblock write of an rm, cut at any slot, keeps the files in front *)
(* of the removed one: their slots are written over equal ones.             *)
THEOREM TornRemoveKeepsTheFront ==
    ASSUME OneWriter, ShortNames, Cuts = {}
    PROVE  Spec => []TornRemoveKeepsFront
<1>1. NeatInv => TornRemoveKeepsFront
  <2> SUFFICES ASSUME NeatInv, NEW c \in Clients, pc[c] = "super", req[c].kind = "rm",
                      NEW cut \in 1 .. MaxFiles, NEW i \in 1 .. Len(Entries(super)),
                      \A j \in Located(Entries(super), req[c].name) : i < j
               PROVE  LET torn == FilesOn(Torn(super, PlannedSuper(c), cut), data)
                          n == Entries(super)[i].name
                      IN  n \in DOMAIN torn /\ torn[n] = Files[n]
    BY DEF TornRemoveKeepsFront
  <2> DEFINE es == Entries(super)
  <2> DEFINE new == PlannedSuper(c)
  <2> DEFINE torn == Torn(super, new, cut)
  <2>1. /\ WriterInv /\ super \in SuperBlock /\ NamesCut(super) /\ Neat(super)
        /\ RemovePlan(req[c], super, plan[c])
    BY DEF NeatInv, WriterInv, TypeInv, TypeOK, Plans, WritePlan
  <2>2. Good(es) /\ Listing(es) /\ Len(es) \in 0 .. MaxFiles /\ es \in Seq(Entry)
    BY <2>1, EntriesGood, EntriesProperties DEF Good
  <2>3. /\ new \in SuperBlock /\ new = SuperOf(plan[c].entries, plan[c].next_free)
        /\ Good(plan[c].entries) /\ plan[c].entries = Kept(es, req[c].name)
        /\ new.count = Len(plan[c].entries)
    BY <2>1, WrittenSupers, PlannedGood DEF WriterInv, TypeInv, RemovePlan, PlannedSuper, SuperOf
  <2>4. torn \in SuperBlock /\ torn.count = new.count
    BY <2>1, <2>3, TornType, TornSlots
  <2> HIDE DEF es, new, torn
(* In front of the removed entry, the kept ones and the old ones are the   *)
(* same, so that a cut leaves those slots as they are.                      *)
  <2>5. ASSUME NEW k \in 1 .. Len(es), \A j \in Located(es, req[c].name) : k < j
        PROVE  /\ k \in 1 .. torn.count /\ k \in 1 .. MaxFiles
               /\ torn.slots[k] = es[k]
    <3>1. k \in 1 .. Len(plan[c].entries) /\ plan[c].entries[k] = es[k]
      BY <2>2, <2>3, <2>5, KeptFront
    <3>2. k \in 1 .. MaxFiles
      BY <2>2, GeometryAssumption
    <3>3. super.slots[k] = es[k]
      BY <2>1, <2>2, <3>2 DEF Neat, es
    <3>4. new.slots[k] = es[k]
      BY <2>3, <3>1, <3>2, SlotsOfGood
    <3>5. torn.slots[k] = new.slots[k]
      BY <2>1, <2>3, <3>2, <3>3, <3>4, TornSame DEF torn
    <3> QED BY <2>3, <2>4, <3>1, <3>2, <3>4, <3>5
  <2>6. /\ i \in Nat
        /\ \A k \in 1 .. i : /\ k \in 1 .. Len(es)
                             /\ \A j \in Located(es, req[c].name) : k < j
    BY <2>2 DEF es, Located
  <2>7. ASSUME NEW k \in 1 .. i
        PROVE  k \in ValidSlots(torn) /\ torn.slots[k] = es[k]
    <3>1. k \in SlotsRead(torn) /\ torn.slots[k] = es[k]
      BY <2>4, <2>5, <2>6, SlotsReadRange
    <3>2. validate_entry(es[k])
      BY <2>2, <2>6 DEF Good
    <3> QED BY <3>1, <3>2 DEF ValidSlots
  <2>8. i \in FirstSlots(torn)
    <3>1. \A k \in ValidSlots(torn) : k \in Nat /\ 1 <= k
      BY <2>4, SlotsReadRange DEF SuperBlock
    <3>2. \A k \in 1 .. i : k # i => es[k].name # es[i].name
      BY <2>2, <2>6 DEF Good
    <3> QED BY <2>6, <2>7, <3>1, <3>2 DEF FirstSlots
  <2>9. PICK m \in 1 .. Len(Entries(torn)) : Entries(torn)[m] = es[i]
    BY <2>4, <2>6, <2>7, <2>8, EntriesAreSlots
  <2>10. /\ es[i].name \in DOMAIN FilesOn(torn, data)
         /\ FilesOn(torn, data)[es[i].name] = ContentAt(data, es[i])
    BY <2>4, <2>9, FilesOnProperties DEF NamesIn
  <2>11. Files[es[i].name] = ContentAt(data, es[i])
    BY <2>1, FilesOnProperties DEF Files, es
  <2> QED BY <2>10, <2>11 DEF es, new, torn
<1> QED BY <1>1, NeatInvariant, PTL
===============================================================================
