------------------------------ MODULE NanoFSStore ------------------------------
(***************************************************************************)
(* The file system of NanoFS implements the abstract FileStore.            *)
(*                                                                         *)
(* files, call and shown are history variables: the files that the cache   *)
(* leads to while the kernel runs, and those that a mount of the disk would *)
(* find while it does not; the requests in progress; and what a cat in     *)
(* progress may answer.                                                    *)
(***************************************************************************)
EXTENDS NanoFS

VARIABLES files, call, shown

Visible(b, c, s, d) ==
    IF b = "run" THEN [n \in DOMAIN c |-> ContentAt(d, c[n])] ELSE FilesOn(s, d)

(* A request that changes files takes effect when the cache is brought up   *)
(* to date, or in a crash between its superblock write and that.            *)
Calls(at, r) == [c \in Clients |-> IF at[c] = "idle" THEN NoRequest ELSE r[c]]

Store == INSTANCE FileStore WITH NoCall <- NoRequest, answer <- reply

StoreInit ==
    /\ Init
    /\ files = Visible(boot, cache, super, data)
    /\ call = Calls(pc, req)
    /\ shown = [c \in Clients |-> {}]

StoreNext ==
    /\ Next
    /\ files' = Visible(boot', cache', super', data')
    /\ call' = Calls(pc', req')
    /\ Store!Watch

StoreSpec == StoreInit /\ [][StoreNext]_<<vars, files, call, shown>>

(* Every behaviour of fs.ml under one handler that changes files and any    *)
(* that read them, crashes between and during device calls included, is one *)
(* of the map a caller is promised: a cat answers what its file held when   *)
(* it was called, whatever is overwritten and whichever other files are     *)
(* removed while it waits for the disk; a refused request and a repair      *)
(* change nothing; an interrupted request takes effect whole or not at all. *)
(* Of a cat whose own file is removed meanwhile nothing is said.            *)
ImplementsFileStore == Store!Spec
===============================================================================
