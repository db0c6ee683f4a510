-------------------------------- MODULE MiniRedis --------------------------------
(***************************************************************************)
(* Mini Redis: execute (mini_redis/lib/mini_redis.ml) and the loop that    *)
(* serves a connection (mini_redis/bin/main.ml).  TCP delivers the bytes   *)
(* of a client in order and in pieces of any size; a piece may end inside  *)
(* a request and may hold several.  The codec is a parameter: RespCodec    *)
(* has that of the program.                                                *)
(***************************************************************************)
EXTENDS Resp

CONSTANTS
    Decode(_), Encode(_),   \* decode and encode of mini_redis.ml
    Clients,
    Requests,     \* what each client may ask: [cmd |-> a command, resp |-> its RESP value]
    MaxRequests,  \* how many requests each makes at most
    Reads,        \* Reads[c]: the sizes at which a read of its connection may be cut
    Unruly        \* the clients that may send a line that is not RESP, or go away

VARIABLES
    store,    \* the values of the keys that were set
    asked,    \* the commands a client has sent (history)
    client,   \* "open", "inline" after a line that is not RESP, or "gone"
    wire,     \* the bytes on their way to the server
    buffer,   \* accum_buffer of the connection
    pc,       \* where its loop waits: to "read" or to "flush"; or "closed"
    reply,    \* the response that is being flushed
    replies   \* the values that the client has decoded

vars == <<store, asked, client, wire, buffer, pc, reply, replies>>

(* A request names the command that parse_command makes of it.              *)
ASSUME RequestAssumption ==
    \A c \in Clients : \A r \in Requests[c] : parse_command(r.resp) = r.cmd

ASSUME ReadAssumption == \A c \in Clients : Reads[c] \subseteq Nat \ {0}

ASSUME ByteAssumption == {"P", "CR", "LF"} \subseteq Byte

-------------------------------------------------------------------------------
(* The response of execute, and the store after it. *)
Response(cmd) ==
    CASE cmd.op = "Ping"    -> SimpleString(<<"PONG">>)
      [] cmd.op = "Echo"    -> BulkString(cmd.value)
      [] cmd.op = "Get"     -> IF cmd.key \in DOMAIN store THEN BulkString(store[cmd.key]) ELSE NullBulk
      [] cmd.op = "Set"     -> SimpleString(<<"OK">>)
      [] cmd.op = "Invalid" -> ErrorString(<<"ERR">>)

Stored(cmd) ==
    IF cmd.op = "Set"
    THEN [k \in DOMAIN store \cup {cmd.key} |-> IF k = cmd.key THEN cmd.value ELSE store[k]]
    ELSE store

-------------------------------------------------------------------------------
(* The values that a client decodes from the bytes of a response: the one   *)
(* they hold, which nothing may follow.                                     *)
Decoded(bytes) ==
    IF bytes = <<>> THEN <<>>
    ELSE LET d == Decode(bytes)
         IN  IF d.ok /\ d.rest = <<>> THEN <<d.value>> ELSE <<[type |-> "Garbled", value |-> bytes]>>

Init ==
    /\ store = [k \in {} |-> <<>>]
    /\ asked = [c \in Clients |-> <<>>]
    /\ client = [c \in Clients |-> "open"]
    /\ wire = [c \in Clients |-> <<>>]
    /\ buffer = [c \in Clients |-> <<>>]
    /\ pc = [c \in Clients |-> "read"]
    /\ reply = [c \in Clients |-> <<>>]
    /\ replies = [c \in Clients |-> <<>>]

(* A client sends a request without waiting for the answers before it. *)
Send(c, r) ==
    /\ client[c] = "open" /\ Len(asked[c]) < MaxRequests[c]
    /\ asked' = [asked EXCEPT ![c] = Append(@, r.cmd)]
    /\ wire' = [wire EXCEPT ![c] = @ \o Encode(r.resp)]
    /\ UNCHANGED <<store, client, buffer, pc, reply, replies>>

(* It sends a line that is not RESP, such as a command typed by hand.       *)
InlineCommand == <<"P", "CR", "LF">>

SendInline(c) ==
    /\ c \in Unruly /\ client[c] = "open"
    /\ client' = [client EXCEPT ![c] = "inline"]
    /\ wire' = [wire EXCEPT ![c] = @ \o InlineCommand]
    /\ UNCHANGED <<store, asked, buffer, pc, reply, replies>>

(* It goes away; what it has sent last may not arrive.                      *)
HangUp(c) ==
    /\ c \in Unruly /\ client[c] # "gone"
    /\ client' = [client EXCEPT ![c] = "gone"]
    /\ \E n \in {0, Len(wire[c])} : wire' = [wire EXCEPT ![c] = SubSeq(@, 1, n)]
    /\ UNCHANGED <<store, asked, buffer, pc, reply, replies>>

(* handle_loop with these bytes in its buffer. *)
handle_loop(c, bytes) ==
    LET d == Decode(bytes)
    IN  \/ /\ d.ok
           /\ LET cmd == parse_command(d.value)
              IN  /\ reply' = [reply EXCEPT ![c] = Encode(Response(cmd))]
                  /\ store' = Stored(cmd)
           /\ buffer' = [buffer EXCEPT ![c] = d.rest]
           /\ pc' = [pc EXCEPT ![c] = "flush"]
        \/ /\ ~d.ok /\ d.why \in {"Empty buffer", "Incomplete"}
           /\ buffer' = [buffer EXCEPT ![c] = bytes]
           /\ reply' = [reply EXCEPT ![c] = <<>>]
           /\ pc' = [pc EXCEPT ![c] = "read"]
           /\ UNCHANGED store
        \/ /\ ~d.ok /\ d.why \notin {"Empty buffer", "Incomplete"}
           /\ buffer' = [buffer EXCEPT ![c] = bytes]
           /\ reply' = [reply EXCEPT ![c] = <<>>]
           /\ pc' = [pc EXCEPT ![c] = "closed"]
           /\ UNCHANGED store

UpTo(n, bytes) == SubSeq(bytes, 1, IF n < Len(bytes) THEN n ELSE Len(bytes))
Beyond(n, bytes) == SubSeq(bytes, n + 1, Len(bytes))

read_more(c) ==
    /\ pc[c] = "read" /\ wire[c] # <<>>
    /\ \E n \in Reads[c] :
        /\ wire' = [wire EXCEPT ![c] = Beyond(n, @)]
        /\ handle_loop(c, buffer[c] \o UpTo(n, wire[c]))
    /\ UNCHANGED <<asked, client, replies>>

(* read_into returns 0 at the end of the stream. *)
Disconnected(c) ==
    /\ pc[c] = "read" /\ client[c] = "gone" /\ wire[c] = <<>>
    /\ pc' = [pc EXCEPT ![c] = "closed"]
    /\ UNCHANGED <<store, asked, client, wire, buffer, reply, replies>>

(* Mutant: the loop reads before it looks at what the buffer still holds.   *)
FlushThenRead(c) ==
    /\ pc[c] = "flush"
    /\ replies' = [replies EXCEPT ![c] = @ \o Decoded(reply[c])]
    /\ reply' = [reply EXCEPT ![c] = <<>>]
    /\ pc' = [pc EXCEPT ![c] = "read"]
    /\ UNCHANGED <<store, asked, client, wire, buffer>>

(* Mutant: only the response of the last buffered request is flushed.       *)
FlushLast(c) ==
    /\ pc[c] = "flush"
    /\ replies' = [replies EXCEPT ![c] = IF Decode(buffer[c]).ok THEN @ ELSE @ \o Decoded(reply[c])]
    /\ handle_loop(c, buffer[c])
    /\ UNCHANGED <<asked, client, wire>>

(* The response is flushed, and the loop goes on with the rest.             *)
Flush(c) ==
    /\ pc[c] = "flush"
    /\ replies' = [replies EXCEPT ![c] = @ \o Decoded(reply[c])]
    /\ handle_loop(c, buffer[c])
    /\ UNCHANGED <<asked, client, wire>>

(* The client is gone: write or flush raises, and accept_connection ends    *)
(* the connection.                                                          *)
FlushFails(c) ==
    /\ pc[c] = "flush" /\ client[c] = "gone"
    /\ pc' = [pc EXCEPT ![c] = "closed"]
    /\ UNCHANGED <<store, asked, client, wire, buffer, reply, replies>>

Serve(c) == read_more(c) \/ Disconnected(c) \/ Flush(c) \/ FlushFails(c)

Next ==
    \E c \in Clients :
        \/ \E r \in Requests[c] : Send(c, r)
        \/ SendInline(c) \/ HangUp(c)
        \/ Serve(c)

-------------------------------------------------------------------------------
(* The answers to the commands of the clients.                              *)
Commands == {r.cmd : r \in UNION {Requests[c] : c \in Clients}}
Answers ==
    {SimpleString(<<"PONG">>), SimpleString(<<"OK">>), ErrorString(<<"ERR">>), NullBulk}
    \cup {BulkString(cmd.value) : cmd \in Commands}

(* What the loop needs of its codec: a request is decoded as what it is,    *)
(* whichever of rests follows it, and is incomplete until its last byte is  *)
(* there; the line typed by hand is nothing; an answer is decoded as itself.*)
CodecSound(rests) ==
    /\ \A c \in Clients : \A r \in Requests[c] :
          LET bytes == Encode(r.resp)
          IN  /\ bytes \in Seq(Byte)
              /\ \A rest \in rests : Decode(bytes \o rest) = Ok(r.resp, rest)
              /\ \A n \in 0 .. (Len(bytes) - 1) :
                    Decode(SubSeq(bytes, 1, n)) \in {Error("Empty buffer"), Error("Incomplete")}
    /\ \A n \in 0 .. Len(InlineCommand) : ~Decode(SubSeq(InlineCommand, 1, n)).ok
    /\ \A v \in Answers : /\ Encode(v) \in Seq(Byte) \ {<<>>}
                           /\ Decode(Encode(v)) = Ok(v, <<>>)

(* Lwt resumes a loop whose read or flush can go on: weak fairness of       *)
(* Serve, with its ENABLED written out as Ready.                            *)
Ready(c) ==
    \/ pc[c] = "flush"
    \/ pc[c] = "read" /\ (wire[c] # <<>> \/ client[c] = "gone")
Fairness == \A c \in Clients : []<>~Ready(c) \/ []<><<Serve(c)>>_vars

Spec == Init /\ [][Next]_vars /\ Fairness

-------------------------------------------------------------------------------
(* The answers that a client has or is about to have.                       *)
answers == [c \in Clients |-> replies[c] \o Decoded(reply[c])]

Service == INSTANCE KeyValue

(* Requests are answered in order, each with its own result, and executed   *)
(* once and in one step, however the stream is cut into reads, however many *)
(* requests are pipelined and whatever the other connections do             *)
(* (handle_loop and read_more keep the unconsumed bytes).                   *)
ImplementsKeyValue == Service!Spec

(* A request is answered unless its client goes away, even if a line that   *)
(* is not RESP follows it: the loop never waits for bytes that it already   *)
(* has (handle_loop recurs on the rest before it reads).                    *)
RequestsAnswered ==
    \A c \in Clients : \A n \in 1 .. MaxRequests[c] :
        Len(asked[c]) >= n ~> Len(replies[c]) >= n \/ client[c] = "gone"
===============================================================================
