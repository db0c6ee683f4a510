------------------------------- MODULE MCNanoFS -------------------------------
(***************************************************************************)
(* Small instances of NanoFS.  Two-byte sectors, one sector of directory,  *)
(* room for two to four files; "a" and "b" fit the name field of an        *)
(* entry, "a+" is a longer name whose stored part is "a".                  *)
(***************************************************************************)
EXTENDS NanoFS

CONSTANTS h1, h2, a, b, d, along, e, x1, x2, y1, zero

MCContentSize == [x \in Contents |-> IF x = zero THEN 0 ELSE IF x = x2 THEN 3 ELSE 2]
MCOnDiskName == [n \in Names |-> IF n = along THEN a ELSE n]

Ask(k, n, x) == [kind |-> k, name |-> n, content |-> x]

(* A handler that changes three files, and a reader of one of them.        *)
WriterAndReader ==
    [c \in Clients |->
        IF c = h1
        THEN {Ask("write", a, x1), Ask("write", a, x2), Ask("write", b, y1),
              Ask("touch", a, zero), Ask("touch", d, zero), Ask("rm", a, zero)}
        ELSE {Ask("cat", a, zero)}]

(* Three files and their removal, with devices that fail and superblock     *)
(* writes that may tear: a removal moves the later entries to other slots. *)
FaultyRequests ==
    [c \in Clients |->
          {Ask("write", a, x1), Ask("write", b, y1), Ask("touch", d, zero),
           Ask("rm", a, zero), Ask("rm", b, zero), Ask("cat", a, zero)}]

(* Four files and the removal of the first, which moves three entries: cut, *)
(* and cut again in the repair, it leaves any mixture of the slots.         *)
FourFiles ==
    [c \in Clients |->
          {Ask("write", a, x1), Ask("write", b, y1), Ask("touch", d, zero),
           Ask("touch", e, zero), Ask("rm", a, zero), Ask("cat", a, zero)}]

(* Two handlers, each with a file of its own and an empty message, so that  *)
(* only the directory is written.                                          *)
TwoWriters ==
    [c \in Clients |-> IF c = h1 THEN {Ask("write", a, zero)} ELSE {Ask("write", b, zero)}]

(* Names that do not fit their field.                                      *)
LongNameRequests ==
    [c \in Clients |-> {Ask("write", along, x1), Ask("write", along, x2)}]
===============================================================================
