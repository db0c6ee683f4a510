------------------------------- MODULE MCPrograms -------------------------------
(***************************************************************************)
(* The small programs next to NanoOS.  A behaviour is one of Mini Redis,   *)
(* of the queue, of the calendar, or the choice of one text for the JSON   *)
(* parser.                                                                 *)
(*                                                                         *)
(* Mini Redis has two clients.  The first may pipeline two requests, and   *)
(* its stream is cut at any byte; the second sends one, which is read      *)
(* whole, may send a line that is not RESP behind it, and may go away.  A  *)
(* value may be a line break, and a name may be in lower case.             *)
(***************************************************************************)
EXTENDS MiniRedis, RespEncoder, FunctionalQueue, Calendar, JsonPrinter

CONSTANTS c1, c2, MaxHeld

Bulk(s) == BulkString(s)

SetA == [cmd |-> Command("Set", <<"a">>, CRLF),
         resp |-> Array(<<Bulk(<<"S">>), Bulk(<<"a">>), Bulk(CRLF)>>)]
GetA == [cmd |-> Command("Get", <<"a">>, <<>>),
         resp |-> Array(<<SimpleString(<<"g">>), Bulk(<<"a">>)>>)]
Ping == [cmd |-> Command("Ping", <<>>, <<>>), resp |-> Array(<<Bulk(<<"P">>)>>)]
LongText == <<"$", "$", "$", "$", "$", "$", "$", "$", "$", "$">>
Echo == [cmd |-> Command("Echo", <<>>, LongText),
         resp |-> Array(<<Bulk(<<"p">>), Bulk(LongText)>>)]
GetNothing == [cmd |-> Command_Error, resp |-> Array(<<Bulk(<<"G">>), NullBulk>>)]
Nested == [cmd |-> Command_Error, resp |-> Array(<<Array(<<Bulk(<<"P">>), NullArray>>)>>)]
OverwriteA == [cmd |-> Command("Set", <<"a">>, <<"b">>),
               resp |-> Array(<<Bulk(<<"s">>), Bulk(<<"a">>), SimpleString(<<"b">>)>>)]

MCRequests == (c1 :> {SetA, GetA, Ping}) @@ (c2 :> {GetNothing, OverwriteA, Echo, Nested})
MCMaxRequests == (c1 :> 2) @@ (c2 :> 1)
MCReads == (c1 :> {1, 40}) @@ (c2 :> {1024})

MCByte == {"*", "$", ":", "+", "-", "P", "p", "G", "g", "S", "s", "a", "b", "CR", "LF",
           "PONG", "OK", "ERR"} \cup Range(Digit)

(* What may follow a request: at most two bytes, or the start of another.   *)
MCRests ==
    UNION {[1 .. n -> {"*", "$", ":", "+", "-", "1", "2", "a", "CR", "LF"}] : n \in 0 .. 2}
    \cup UNION {LET bytes == encode(r.resp) IN {SubSeq(bytes, 1, n) : n \in 0 .. Len(bytes)} :
                    r \in MCRequests[c1] \cup MCRequests[c2]}

ASSUME CodecAssumption == CodecSound(MCRests)

(* Requests and answers are values of the kind that the theorem about the   *)
(* decoder is for (Transmissible), with arrays in at most one array.        *)
ASSUME ValueAssumption ==
    LET Flat(r) == Plain(r) \/ (r.type = "Array" /\ \A i \in DOMAIN r.value : Plain(r.value[i]))
    IN  /\ \A r \in MCRequests[c1] \cup MCRequests[c2] :
              r.resp.type = "Array" /\ \A i \in DOMAIN r.resp.value : Flat(r.resp.value[i])
        /\ \A v \in Answers : Plain(v)

-------------------------------------------------------------------------------
RedisIdle == Init
QueueIdle == QueueInit
CalendarIdle == CalendarInit
NoText == TextInit

ProgramsInit == RedisIdle /\ QueueIdle /\ CalendarIdle /\ NoText

Redis ==
    /\ QueueIdle /\ CalendarIdle /\ NoText
    /\ Next
    /\ UNCHANGED <<queuevars, calendarvars, text>>

Queue ==
    /\ RedisIdle /\ CalendarIdle /\ NoText
    /\ QueueNext
    /\ Len(queue'.front) + Len(queue'.back) <= MaxHeld
    /\ UNCHANGED <<vars, calendarvars, text>>

Days ==
    /\ RedisIdle /\ QueueIdle /\ NoText
    /\ CalendarNext
    /\ UNCHANGED <<vars, queuevars, text>>

Text ==
    /\ RedisIdle /\ QueueIdle /\ CalendarIdle /\ NoText
    /\ ChooseText
    /\ UNCHANGED <<vars, queuevars, calendarvars>>

Programs ==
    /\ ProgramsInit /\ [][Redis \/ Queue \/ Days \/ Text]_<<vars, queuevars, calendarvars, text>>
    /\ Fairness
===============================================================================
