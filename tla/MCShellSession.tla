---------------------------- MODULE MCShellSession ----------------------------
(***************************************************************************)
(* A file is made, and then any command is typed on it.                    *)
(***************************************************************************)
EXTENDS ShellSession

CONSTANTS client, server, m1, m2, f, a

MCScript == <<m1, m2>>
MCSrc == [m \in Msgs |-> client]
MCDst == [m \in Msgs |-> server]

Lines(kinds) == [kind : kinds, name : {f}, content : {a}]
MCMenu == <<Lines({"write", "touch"}), Lines({"write", "touch", "rm", "cat"})>>
===============================================================================
