------------------------------- MODULE FileDisk -------------------------------
(***************************************************************************)
(* The file-backed block device of the Unix platform                       *)
(* (nano_os/lib/unix/file_disk.ml).  All calls share one file descriptor   *)
(* and so one file offset; a call moves the offset with Lwt_unix.lseek and *)
(* transfers with Lwt_unix.read or write, and Lwt may run another call     *)
(* between the two.  A transfer advances the offset; a read that meets the *)
(* end of the file is an error, a write there extends the file.  A write   *)
(* may end early, here between two sectors, which is an error as well.     *)
(***************************************************************************)
EXTENDS Naturals, Sequences

CONSTANTS
    Callers,   \* the callers with a device call in flight
    Calls,     \* Calls[p]: what p may ask: kind, sector, and the sectors moved
    Image      \* the file at the start, a sequence of sectors

IsSequence(s) == s \in Seq({s[i] : i \in DOMAIN s})

ASSUME DiskAssumption ==
    /\ IsSequence(Image)
    /\ \A p \in Callers : \A r \in Calls[p] :
          r.kind \in {"read", "write"} /\ r.sector \in Nat /\ IsSequence(r.buffer)

VARIABLES
    image,     \* the file
    offset,    \* the offset of the shared descriptor, in sectors
    pc,        \* "idle", before its "seek", or before its "transfer"
    op,        \* the call of each caller
    result     \* what its last call returned: the sectors moved, or an error

diskvars == <<image, offset, pc, op, result>>

Out_of_bounds == <<"Out_of_bounds">>
NoOp == [kind |-> "none", sector |-> 0, buffer |-> <<>>]

DiskInit ==
    /\ image = Image
    /\ offset = 0
    /\ pc = [p \in Callers |-> "idle"]
    /\ op = [p \in Callers |-> NoOp]
    /\ result = [p \in Callers |-> <<>>]

(* read or write is called: lseek is queued.                               *)
Begin(p, r) ==
    /\ pc[p] = "idle"
    /\ pc' = [pc EXCEPT ![p] = "seek"]
    /\ op' = [op EXCEPT ![p] = r]
    /\ UNCHANGED <<image, offset, result>>

(* Mutant: a call trusts the offset it expects its predecessor to leave.    *)
SeekSkipped(p) ==
    /\ pc[p] = "seek"
    /\ pc' = [pc EXCEPT ![p] = "transfer"]
    /\ UNCHANGED <<image, offset, op, result>>

Seek(p) ==
    /\ pc[p] = "seek"
    /\ offset' = op[p].sector
    /\ pc' = [pc EXCEPT ![p] = "transfer"]
    /\ UNCHANGED <<image, op, result>>

Length(p) == Len(op[p].buffer)

(* The file after b is written at the offset; to write nothing does not     *)
(* extend it.                                                               *)
Overlaid(b) ==
    LET end == offset + Len(b)
    IN  [i \in 1 .. (IF b # <<>> /\ end > Len(image) THEN end ELSE Len(image)) |->
            IF offset < i /\ i <= end THEN b[i - offset]
            ELSE IF i <= Len(image) THEN image[i] ELSE "hole"]

Transfer(p) ==
    /\ pc[p] = "transfer"
    /\ pc' = [pc EXCEPT ![p] = "idle"]
    /\ \/ /\ op[p].kind = "write"
          /\ \E n \in 0 .. Length(p) :
                /\ image' = Overlaid(SubSeq(op[p].buffer, 1, n))
                /\ offset' = offset + n
                /\ result' = [result EXCEPT ![p] = IF n = Length(p) THEN op[p].buffer
                                                   ELSE Out_of_bounds]
       \/ /\ op[p].kind = "read" /\ offset + Length(p) <= Len(image)
          /\ offset' = offset + Length(p)
          /\ result' = [result EXCEPT ![p] = SubSeq(image, offset + 1, offset + Length(p))]
          /\ UNCHANGED image
       \/ /\ op[p].kind = "read" /\ offset + Length(p) > Len(image)
          /\ offset' = IF offset > Len(image) THEN offset ELSE Len(image)
          /\ result' = [result EXCEPT ![p] = Out_of_bounds]
          /\ UNCHANGED image
    /\ UNCHANGED op

DiskNext ==
    \E p \in Callers :
        \/ \E r \in Calls[p] : Begin(p, r)
        \/ Seek(p)
        \/ Transfer(p)

DiskSpec == DiskInit /\ [][DiskNext]_diskvars

-------------------------------------------------------------------------------
(* The sectors of an image that a call names. *)
Named(img, r) == SubSeq(img, r.sector + 1, r.sector + Len(r.buffer))

(* Sector-addressed access ("afterwards reads and writes at random by       *)
(* sector", nano_os/docs/Explain.md:575): a read returns the sectors it     *)
(* names, or an error when the file ends before them; a write changes the   *)
(* sectors it names and no others, all of them if it succeeds, and leaves   *)
(* each of them as it was or as it should be if it ends early.              *)
AccessBySector ==
    [][\A p \in Callers : Transfer(p) =>
          IF op[p].kind = "read"
          THEN result'[p] = IF op[p].sector + Length(p) <= Len(image)
                            THEN Named(image, op[p]) ELSE Out_of_bounds
          ELSE /\ result'[p] # Out_of_bounds => Named(image', op[p]) = op[p].buffer
               /\ \A i \in 1 .. Len(image) :
                     IF op[p].sector < i /\ i <= op[p].sector + Length(p)
                     THEN image'[i] \in {image[i], op[p].buffer[i - op[p].sector]}
                     ELSE image'[i] = image[i]]_diskvars
===============================================================================
