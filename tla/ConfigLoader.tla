---------------------------- MODULE ConfigLoader ----------------------------
(***************************************************************************)
(* The configuration loader (src/src/core/config_loader.cpp), one step per *)
(* turn of one of its loops, so that a loop that does not end is seen as   *)
(* one.  A file is a sequence of lexemes; the lexeme "Comment" is a run of *)
(* white space and comments, "Slash" a '/' that begins no comment,         *)
(* "Unexpected" a character that begins no token.                          *)
(*                                                                         *)
(* The three nested loops over the members of the root object, of a route  *)
(* and of a backend differ only in the keys they know; "level" says which  *)
(* one runs.                                                               *)
(***************************************************************************)
EXTENDS Integers, Sequences

CONSTANTS
    Documents,     \* files: [text, valid, plain, means], see LoadsWhatItSays
    IntKeys,       \* integer keys of the root object
    Initial,       \* GatewayConfig's initial values of those
    StackValues,   \* what an int without initialiser may hold
    IntBits,       \* width of int
    LongBits       \* width of long

\* The values of an int.
Ints == -(2 ^ (IntBits - 1)) .. (2 ^ (IntBits - 1) - 1)

ASSUME LoaderAssumption ==
    /\ 2 ^ (IntBits - 1) \in Nat \ {0} /\ 2 ^ (IntBits - 1) <= 2 ^ LongBits /\ 2 ^ LongBits \in Nat
    /\ Initial \in [IntKeys -> Ints]

VARIABLES
    at,        \* where parse_config() is
    level,     \* the object it is in: "root", "route" or "backend"
    parser,    \* JsonParser: pos_, current_, error_; hung in skip_whitespace()
    key,       \* key, route_key or bk_key
    nesting,   \* skip_value(): what it counts, and depth
    cfg,       \* the configuration read so far
    route,     \* the route read so far
    backend,   \* the backend read so far
    doc        \* history: the file

loader_vars == <<at, level, parser, key, nesting, cfg, route, backend, doc>>

Lexeme == [type : {"ObjectStart", "ObjectEnd", "ArrayStart", "ArrayEnd", "Colon", "Comma", "String",
                   "Number", "Boolean", "Null", "End", "Comment", "Slash", "Unexpected"},
           text : STRING, num : Int]

End == [type |-> "End", text |-> "", num |-> 0]
NoNesting == [open |-> "", close |-> "", depth |-> 0]
NoRoute == [prefix |-> "", backends |-> <<>>]

-----------------------------------------------------------------------------
(* The lexer. *)

skip_whitespace(pos) ==
    IF pos <= Len(doc.text) /\ doc.text[pos].type = "Comment" THEN pos + 1 ELSE pos

\* An unexpected character is reported and not consumed: the current token
\* stays.  skip_whitespace() does not get past a '/' that begins no comment.
advance(p) ==
    LET i == skip_whitespace(p.pos)
        lexeme == IF i <= Len(doc.text) THEN doc.text[i] ELSE End
    IN  CASE lexeme.type = "Slash"      -> [p EXCEPT !.pos = i, !.hung = TRUE]
          [] lexeme.type = "Unexpected" -> [p EXCEPT !.pos = i, !.error = TRUE]
          [] lexeme.type = "End"        -> [p EXCEPT !.pos = i, !.current = End]
          [] OTHER                      -> [p EXCEPT !.pos = i + 1, !.current = lexeme]

Is(p, type) == p.current.type = type

\* if (current_type() == type) advance();
advance_if(p, type) == IF Is(p, type) THEN advance(p) ELSE p

\* Past the value and the comma after it, to the next key.
next_member(p) == advance_if(advance(p), "Comma")

\* strtol() reports what does not fit a long; the cast to int wraps.
read_int(token, default) ==
    LET half == 2 ^ (IntBits - 1)
        long == -(2 ^ (LongBits - 1)) .. (2 ^ (LongBits - 1) - 1)
    IN  IF token.type = "Number" /\ token.num \in long
        THEN ((token.num + half) % (2 * half)) - half
        ELSE default

read_string(token) == IF token.type = "String" THEN token.text ELSE ""

-----------------------------------------------------------------------------
(* parse_config(). *)

LoaderInit ==
    /\ doc \in Documents
    /\ at = "open" /\ level = "root" /\ key = "" /\ nesting = NoNesting
    /\ parser = [pos |-> 1, current |-> End, error |-> FALSE, hung |-> FALSE]
    /\ cfg = [ints |-> Initial, routes |-> <<>>]
    /\ route = NoRoute /\ backend = [host |-> "", port |-> 0]

Take(p, to) ==
    /\ parser' = p
    /\ at' = IF p.hung THEN "hung" ELSE to

\* fopen(), ftell() or fread() fails, or the file is empty.
load_fails ==
    /\ at = "open" /\ at' = "failed"
    /\ UNCHANGED <<level, parser, key, nesting, cfg, route, backend, doc>>

load_json ==
    /\ at = "open"
    /\ LET p == advance(parser)
       IN  IF Is(p, "ObjectStart") THEN Take(advance(p), "object") ELSE Take(p, "failed")
    /\ UNCHANGED <<level, key, nesting, cfg, route, backend, doc>>

\* One turn of while (current_type() == String): the key, ':' and the value.
read_key ==
    /\ at = "object" /\ Is(parser, "String")
    /\ key' = parser.current.text
    /\ Take(advance(advance(parser)), "value")
    /\ UNCHANGED <<level, nesting, cfg, route, backend, doc>>

Known == CASE level = "root" -> IntKeys [] level = "route" -> {"prefix"} [] level = "backend" -> {"host", "port"}

ArrayKeys == CASE level = "root" -> {"routes"} [] level = "route" -> {"backends"} [] level = "backend" -> {}

read_value ==
    /\ at = "value" /\ key \in Known
    /\ LET token == parser.current
       IN  /\ cfg' = IF level = "root" THEN [cfg EXCEPT !.ints[key] = read_int(token, @)] ELSE cfg
           /\ route' = IF key = "prefix" THEN [route EXCEPT !.prefix = read_string(token)] ELSE route
           /\ backend' = CASE key = "host" -> [backend EXCEPT !.host = read_string(token)]
                           [] key = "port" -> [backend EXCEPT !.port = read_int(token, 0)]
                           [] OTHER        -> backend
    /\ Take(next_member(parser), "object")
    /\ UNCHANGED <<level, key, nesting, doc>>

\* "routes" and "backends".
enter_array ==
    /\ at = "value" /\ key \in ArrayKeys
    /\ IF Is(parser, "ArrayStart")
       THEN /\ Take(advance(parser), "array")
            /\ level' = IF level = "root" THEN "route" ELSE "backend"
       ELSE at' = "failed" /\ UNCHANGED <<parser, level>>
    /\ UNCHANGED <<key, nesting, cfg, route, backend, doc>>

\* An unknown key: what is neither object nor array is one token.
skip_value ==
    /\ at = "value" /\ key \notin Known \cup ArrayKeys
    /\ \/ /\ Is(parser, "ObjectStart") /\ at' = "skip"
          /\ nesting' = [open |-> "ObjectStart", close |-> "ObjectEnd", depth |-> 1]
          /\ UNCHANGED parser
       \/ /\ Is(parser, "ArrayStart") /\ at' = "skip"
          /\ nesting' = [open |-> "ArrayStart", close |-> "ArrayEnd", depth |-> 1]
          /\ UNCHANGED parser
       \/ /\ ~Is(parser, "ObjectStart") /\ ~Is(parser, "ArrayStart")
          /\ Take(next_member(parser), "object")
          /\ UNCHANGED nesting
    /\ UNCHANGED <<level, key, cfg, route, backend, doc>>

\* Mutant: every opening token counts, whatever closes it.
skip_turnAnyOpen ==
    /\ at = "skip"
    /\ LET q == advance(parser)
           d == nesting.depth + (IF q.current.type \in {"ObjectStart", "ArrayStart"} THEN 1
                                 ELSE IF Is(q, nesting.close) THEN -1 ELSE 0)
       IN  IF d = 0 \/ Is(q, "End")
           THEN Take(next_member(q), "object") /\ nesting' = NoNesting
           ELSE Take(q, "skip") /\ nesting' = [nesting EXCEPT !.depth = d]
    /\ UNCHANGED <<level, key, cfg, route, backend, doc>>

\* Mutant: goes on at the end of the file.
skip_turnPastEnd ==
    /\ at = "skip"
    /\ LET q == advance(parser)
           d == nesting.depth + (IF Is(q, nesting.open) THEN 1 ELSE IF Is(q, nesting.close) THEN -1 ELSE 0)
       IN  IF d = 0
           THEN Take(next_member(q), "object") /\ nesting' = NoNesting
           ELSE /\ Take(q, IF q = parser /\ ~Is(q, nesting.close) THEN "hung" ELSE "skip")
                /\ nesting' = [nesting EXCEPT !.depth = d]
    /\ UNCHANGED <<level, key, cfg, route, backend, doc>>

\* One turn of a loop of skip_value().  Once nothing is consumed the same token
\* is counted for ever, unless it is a closing one.
skip_turn ==
    /\ at = "skip"
    /\ LET q == advance(parser)
           d == nesting.depth + (IF Is(q, nesting.open) THEN 1 ELSE IF Is(q, nesting.close) THEN -1 ELSE 0)
       IN  \/ /\ d = 0 \/ Is(q, "End")
              /\ Take(next_member(q), "object")
              /\ nesting' = NoNesting
           \/ /\ d > 0 /\ ~Is(q, "End")
              /\ Take(q, IF q = parser /\ ~Is(q, nesting.close) THEN "hung" ELSE "skip")
              /\ nesting' = [nesting EXCEPT !.depth = d]
    /\ UNCHANGED <<level, key, cfg, route, backend, doc>>

\* One turn of while (current_type() == ObjectStart).  Backend::port has no
\* initial value.
enter_element ==
    /\ at = "array" /\ Is(parser, "ObjectStart")
    /\ Take(advance(parser), "object")
    /\ route' = IF level = "route" THEN NoRoute ELSE route
    /\ IF level = "backend" THEN \E v \in StackValues : backend' = [host |-> "", port |-> v]
                            ELSE UNCHANGED backend
    /\ UNCHANGED <<level, key, nesting, cfg, doc>>

leave_array ==
    /\ at = "array" /\ ~Is(parser, "ObjectStart")
    /\ level' = IF level = "route" THEN "root" ELSE "route"
    /\ Take(next_member(parser), "object")
    /\ UNCHANGED <<key, nesting, cfg, route, backend, doc>>

AtEnd(l) == at = "object" /\ level = l /\ ~Is(parser, "String")

end_backend ==
    /\ AtEnd("backend")
    /\ route' = IF backend.host # "" /\ backend.port > 0
                THEN [route EXCEPT !.backends = Append(@, backend)] ELSE route
    /\ Take(advance_if(parser, "Comma"), "array")
    /\ UNCHANGED <<level, key, nesting, cfg, backend, doc>>

end_route ==
    /\ AtEnd("route")
    /\ cfg' = IF route.prefix # "" /\ route.backends # <<>>
              THEN [cfg EXCEPT !.routes = Append(@, route)] ELSE cfg
    /\ Take(advance_if(advance_if(advance(parser), "ObjectEnd"), "Comma"), "array")
    /\ UNCHANGED <<level, key, nesting, route, backend, doc>>

\* The check that breaks out of the outer loop leaves it just as the loop's
\* condition does.
end_root ==
    /\ AtEnd("root")
    /\ at' = IF parser.error THEN "failed" ELSE "loaded"
    /\ UNCHANGED <<level, parser, key, nesting, cfg, route, backend, doc>>

parse_config ==
    \/ load_json \/ read_key \/ read_value \/ enter_array \/ skip_value \/ skip_turn
    \/ enter_element \/ leave_array \/ end_backend \/ end_route \/ end_root

-----------------------------------------------------------------------------
(* Properties. *)

\* What the loader returns is what the file says: every integer, every route
\* with its backends; comments and unknown keys count for nothing wherever they
\* stand; and a valid file is not refused.  doc.means is the meaning of a valid
\* file by its structure.  A file is plain when its integers fit an int, no
\* route has a second backend, "backends" is the last key of a route and a
\* backend has its port.
LoadsWhatItSays ==
    /\ at = "loaded" /\ doc.plain => cfg = doc.means
    /\ at = "failed" => ~doc.valid \/ parser.pos = 1

\* The header's promise for the structure it shows: every route and every
\* backend of it is read ("supported JSON structure").
DocumentedIsLoaded == at = "loaded" => cfg = doc.means

NextIs(type) ==
    LET i == skip_whitespace(parser.pos) IN i <= Len(doc.text) /\ doc.text[i].type = type

\* A character that begins no token holds a loop for ever when it comes after
\* what the loop looks for: a string, for the members of an object, a brace, for
\* the elements of "routes" and "backends", anything but the closing token for
\* skip_value(); a '/' that begins no comment holds the lexer.
Stuck ==
    \/ at = "hung" /\ (NextIs("Unexpected") \/ NextIs("Slash"))
    \/ NextIs("Unexpected") /\ (Is(parser, "String") \/ (Is(parser, "ObjectStart") /\ level # "root"))

\* The loader comes back from every file, cut off anywhere or with anything in
\* the wrong place, but for the stray characters Stuck names.
LoadReturns == <>(at \in {"loaded", "failed"} \/ Stuck)
=============================================================================
