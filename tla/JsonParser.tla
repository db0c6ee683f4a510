------------------------------ MODULE JsonParser ------------------------------
(***************************************************************************)
(* The recursive-descent parser of json_parser/lib/json_parser.ml, which   *)
(* json_parser_custom and simple_lwt repeat, on sequences of tokens.  A    *)
(* number, true, false and null are treated alike by the parser and are    *)
(* the token "1"; strings, which may also be keys, are the tokens of Keys. *)
(***************************************************************************)
EXTENDS Integers, Sequences, SequencesExt

CONSTANTS
    Keys,        \* string tokens
    MaxText,     \* the longest text of the grammar that is given to the parser
    Show(_)      \* to_string

(* A string is not taken for another token.                                 *)
ASSUME TextAssumption ==
    MaxText \in Nat /\ Keys \cap {"{", "}", "[", "]", ":", ","} = {}

VARIABLE text    \* the tokens of a text, <<>> before one is chosen

Atoms == {"1"} \cup Keys
Tokens == Atoms \cup {"{", "}", "[", "]", ":", ","}

Atom(t) == [kind |-> "Atom", body |-> <<t>>]
JsonArray(vals) == [kind |-> "Array", body |-> vals]
JsonObject(fields) == [kind |-> "Object", body |-> fields]

(* A parse function returns a value and the tokens behind it, or fails.     *)
Parsed(v, rest) == [ok |-> TRUE, value |-> v, rest |-> rest]
Failure == [ok |-> FALSE, value |-> JsonArray(<<>>), rest |-> <<>>]

Starts(tokens, t) == tokens # <<>> /\ Head(tokens) = t

(* The parse functions call each other on fewer tokens.  What they need of  *)
(* that are the functions that parse the rest of a list: shorter.items is   *)
(* parse_comma_separated_value, shorter.fields is parse_object_fields.      *)
Whole(kind, p) == IF p.ok THEN Parsed([kind |-> kind, body |-> p.value], p.rest) ELSE Failure

(* Mutant: the list is closed by the other bracket as well.                 *)
ArrayClosedByAny(tokens, shorter) ==
    IF Starts(tokens, "]") \/ Starts(tokens, "}") THEN Parsed(JsonArray(<<>>), Tail(tokens))
    ELSE Whole("Array", shorter.items[tokens])

parse_array(tokens, shorter) ==
    IF Starts(tokens, "]") THEN Parsed(JsonArray(<<>>), Tail(tokens))
    ELSE Whole("Array", shorter.items[tokens])

parse_object(tokens, shorter) ==
    IF Starts(tokens, "}") THEN Parsed(JsonObject(<<>>), Tail(tokens))
    ELSE Whole("Object", shorter.fields[tokens])

parse_value(tokens, shorter) ==
    IF tokens = <<>> THEN Failure
    ELSE IF Head(tokens) \in Atoms THEN Parsed(Atom(Head(tokens)), Tail(tokens))
    ELSE IF Head(tokens) = "{" THEN parse_object(Tail(tokens), shorter)
    ELSE IF Head(tokens) = "[" THEN parse_array(Tail(tokens), shorter)
    ELSE Failure

(* The code has the items in front in acc; here they are put in front of    *)
(* what is returned.                                                        *)
InFront(item, p) == IF p.ok THEN Parsed(<<item>> \o p.value, p.rest) ELSE Failure

parse_comma_separated_value(tokens, shorter) ==
    IF Starts(tokens, "]") THEN Parsed(<<>>, Tail(tokens))
    ELSE LET p == parse_value(tokens, shorter)
         IN  IF ~p.ok THEN Failure
             ELSE IF Starts(p.rest, ",") THEN InFront(p.value, shorter.items[Tail(p.rest)])
             ELSE IF Starts(p.rest, "]") THEN Parsed(<<p.value>>, Tail(p.rest))
             ELSE Failure

parse_object_fields(tokens, shorter) ==
    IF Len(tokens) < 2 \/ Head(tokens) \notin Keys \/ tokens[2] # ":" THEN Failure
    ELSE LET p == parse_value(Tail(Tail(tokens)), shorter)
             field == <<Head(tokens), p.value>>
         IN  IF ~p.ok THEN Failure
             ELSE IF Starts(p.rest, ",") THEN InFront(field, shorter.fields[Tail(p.rest)])
             ELSE IF Starts(p.rest, "}") THEN Parsed(<<field>>, Tail(p.rest))
             ELSE Failure

(* upto[n] parses lists of n tokens at most. *)
list_parsers(length) ==
    LET upto[n \in 0 .. length] ==
            [items |-> [t \in Seq(Tokens) |->
                           IF n = 0 THEN Failure ELSE parse_comma_separated_value(t, upto[n - 1])],
             fields |-> [t \in Seq(Tokens) |->
                           IF n = 0 THEN Failure ELSE parse_object_fields(t, upto[n - 1])]]
    IN  upto[length]

parse_json(tokens) ==
    LET p == parse_value(tokens, list_parsers(Len(tokens)))
    IN  IF p.ok /\ p.rest = <<>> THEN p ELSE Failure

(* The tokens that to_string prints: parts are those of the values in v.    *)
Inner(v) ==
    CASE v.kind = "Atom" -> <<>>
      [] v.kind = "Array" -> v.body
      [] v.kind = "Object" -> [i \in DOMAIN v.body |-> v.body[i][2]]

(* Mutant: items and fields are not separated.                              *)
ListedUnseparated(texts) == FlattenSeq(texts)

Listed(texts) ==
    LET n == Len(texts)
        last[k \in 1 .. n] ==
            IF k = 1 THEN texts[n] ELSE texts[n - k + 1] \o <<",">> \o last[k - 1]
    IN  IF n = 0 THEN <<>> ELSE last[n]

Printed(v, parts) ==
    CASE v.kind = "Atom" -> v.body
      [] v.kind = "Array" -> <<"[">> \o Listed(parts) \o <<"]">>
      [] v.kind = "Object" ->
            <<"{">> \o Listed([i \in DOMAIN v.body |-> <<v.body[i][1], ":">> \o parts[i]]) \o <<"}">>

-------------------------------------------------------------------------------
(* The grammar of JSON (RFC 8259), as the pairs of a text and its value, by *)
(* length of the text and from the inside out.                              *)

Pair(t, v) == [text |-> t, value |-> v]

(* The values of n tokens, and the items and fields, at least one, that     *)
(* commas separate; shorter has those of fewer tokens.                      *)
ValuesOf(n, shorter) ==
    IF n = 0 THEN {}
    ELSE IF n = 1 THEN {Pair(<<t>>, Atom(t)) : t \in Atoms}
    ELSE IF n = 2 THEN {Pair(<<"[", "]">>, JsonArray(<<>>)), Pair(<<"{", "}">>, JsonObject(<<>>))}
    ELSE {Pair(<<"[">> \o p.text \o <<"]">>, JsonArray(p.value)) : p \in shorter[n - 2].items} \cup
         {Pair(<<"{">> \o p.text \o <<"}">>, JsonObject(p.value)) : p \in shorter[n - 2].fields}

ItemsOf(n, shorter) ==
    {Pair(p.text, <<p.value>>) : p \in ValuesOf(n, shorter)} \cup
    UNION {{Pair(pq[1].text \o <<",">> \o pq[2].text, <<pq[1].value>> \o pq[2].value) :
               pq \in shorter[k].values \X shorter[n - 1 - k].items} : k \in 1 .. (n - 2)}

FieldsOf(n, shorter) ==
    IF n < 3 THEN {}
    ELSE {Pair(<<kp[1], ":">> \o kp[2].text, <<<<kp[1], kp[2].value>>>>) :
             kp \in Keys \X shorter[n - 2].values} \cup
         UNION {{Pair(<<kpq[1], ":">> \o kpq[2].text \o <<",">> \o kpq[3].text,
                      <<<<kpq[1], kpq[2].value>>>> \o kpq[3].value) :
                    kpq \in Keys \X shorter[k].values \X shorter[n - 3 - k].fields} : k \in 1 .. (n - 4)}

Derived[n \in 0 .. (MaxText + 1)] ==
    [values |-> ValuesOf(n, Derived), items |-> ItemsOf(n, Derived), fields |-> FieldsOf(n, Derived)]

Grammar == UNION {Derived[n].values : n \in 0 .. (MaxText + 1)}

Sentences == {p.text : p \in Grammar}

(* to_string puts together what it prints of the values inside.             *)
ASSUME ShowAssumption ==
    \A p \in Grammar :
        Show(p.value) = Printed(p.value, [i \in DOMAIN Inner(p.value) |-> Show(Inner(p.value)[i])])

(* What differs from a text by one token.                                   *)
NearMisses(t) ==
    {RemoveAt(t, i) : i \in DOMAIN t}
    \cup {InsertAt(t, i, token) : i \in 1 .. (Len(t) + 1), token \in Tokens}
    \cup {[t EXCEPT ![i] = token] : i \in DOMAIN t, token \in Tokens}

Texts == {t \in Sentences : Len(t) <= MaxText} \cup
         UNION {NearMisses(t) : t \in {u \in Sentences : Len(u) <= MaxText}}

TextInit == text = <<>>

ChooseText == text = <<>> /\ text' \in Texts

TextSpec == TextInit /\ [][ChooseText]_text

(* A text with a comma in front of a bracket that closes an array; no text  *)
(* of the grammar has one.                                                  *)
CommaBeforeBracket(t) == \E i \in 1 .. (Len(t) - 1) : t[i] = "," /\ t[i + 1] = "]"

(* parse_json returns the value of every text of the grammar, and of the    *)
(* other texts it accepts none but those with a comma in front of a closing *)
(* bracket (the first line of parse_comma_separated_value).                 *)
ParserFollowsGrammar ==
    LET p == parse_json(text)
    IN  IF p.ok THEN Pair(text, p.value) \in Grammar \/ CommaBeforeBracket(text)
        ELSE text \notin Sentences

(* "@raise Failure if the string is not valid JSON" (json_parser.mli:16).   *)
ParserRaisesOnInvalid == text \notin Sentences => ~parse_json(text).ok

(* What to_string prints of a parsed value is parsed to the same value: it  *)
(* does not escape strings, but separates and nests as the parser expects.  *)
ParserReadsPrinter ==
    LET p == parse_json(text)
    IN  p.ok => parse_json(Show(p.value)) = p
===============================================================================
