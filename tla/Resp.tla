---------------------------------- MODULE Resp ----------------------------------
(***************************************************************************)
(* The values of RESP and the commands that they stand for                 *)
(* (mini_redis/lib/mini_redis.ml).  A byte is a short string.  Command     *)
(* names have one letter, and the wording of error replies is left out.    *)
(***************************************************************************)
EXTENDS Integers, Sequences

CONSTANT Byte    \* the characters

(* RESP values: [type, value], value being a sequence of bytes, or of       *)
(* values for an array.                                                     *)
SimpleString(s) == [type |-> "Simple", value |-> s]
ErrorString(s) == [type |-> "Error", value |-> s]
Integer(i) == [type |-> "Integer", value |-> i]
BulkString(s) == [type |-> "Bulk", value |-> s]
NullBulk == [type |-> "NullBulk", value |-> <<>>]
Array(elements) == [type |-> "Array", value |-> elements]
NullArray == [type |-> "NullArray", value |-> <<>>]

CRLF == <<"CR", "LF">>

(* What decode returns: a value and the rest of the buffer, or an error.    *)
Ok(v, rest) == [ok |-> TRUE, value |-> v, rest |-> rest]
Error(why) == [ok |-> FALSE, why |-> why]

-------------------------------------------------------------------------------
(* Commands: [op, key, value]. *)
Command(op, key, value) == [op |-> op, key |-> key, value |-> value]
Command_Error == Command("Invalid", <<>>, <<>>)

IsString(r) == r.type \in {"Bulk", "Simple"}

uppercase_ascii(s) ==
    [i \in DOMAIN s |-> CASE s[i] = "p" -> "P" [] s[i] = "g" -> "G" [] s[i] = "s" -> "S"
                          [] OTHER -> s[i]]

(* P, G and S stand for PING, GET and SET. *)
parse_command(r) ==
    IF r.type # "Array" THEN Command_Error
    ELSE IF r.value = <<>> THEN Command_Error
    ELSE IF \E i \in DOMAIN r.value : ~IsString(r.value[i]) THEN Command_Error
    ELSE LET name == uppercase_ascii(r.value[1].value)
             arity == Len(r.value) - 1
             arg(i) == r.value[i + 1].value
         IN  CASE name = <<"P">> /\ arity = 0 -> Command("Ping", <<>>, <<>>)
               [] name = <<"P">> /\ arity = 1 -> Command("Echo", <<>>, arg(1))
               [] name = <<"G">> /\ arity = 1 -> Command("Get", arg(1), <<>>)
               [] name = <<"S">> /\ arity = 2 -> Command("Set", arg(1), arg(2))
               [] OTHER -> Command_Error
===============================================================================
