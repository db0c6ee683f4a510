------------------------------ MODULE JsonPrinter ------------------------------
(***************************************************************************)
(* to_string of json_parser/lib/json_parser.ml, which calls itself on the  *)
(* values in an array or an object.                                        *)
(***************************************************************************)
EXTENDS JsonParser

RECURSIVE to_string(_)

to_string(v) == Printed(v, [i \in DOMAIN Inner(v) |-> to_string(Inner(v)[i])])
===============================================================================
