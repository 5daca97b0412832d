-------------------------------- MODULE StrXML --------------------------------
(***************************************************************************)
(* strxml.cc: reading an XML node from a socket, token by token.  A token  *)
(* is a bracket or what stands between two brackets; of a text the reader  *)
(* takes the bracket after it as well and keeps it in last_char, a static  *)
(* variable of next_token that all threads of a process share.             *)
(*                                                                         *)
(* A symbol is [kind, name, load]: a bracket, a tag that opens, closes or  *)
(* is empty, or a text.  Tags nested in a message are left out: its one    *)
(* text carries what they say.                                             *)
(***************************************************************************)
EXTENDS Integers, Sequences

CONSTANT Clients

VARIABLES
    last_char,  \* "", "<" or ">"
    left_by,    \* history: the client whose text it followed, as a set
    crossed,    \* history: a thread has taken or lost another one's bracket
    toServer,   \* per client, the symbols on their way to the server
    hung_up     \* the clients that have closed their socket

readVars == <<last_char, left_by, crossed, toServer>>

Sym(kind, name, load) == [kind |-> kind, name |-> name, load |-> load]
Left == Sym("<", "<", "")
Right == Sym(">", ">", "")
Bracket(b) == IF b = "<" THEN Left ELSE Right
EMPTY_STRING == Sym("", "", "")

SingleTag(name) == <<Left, Sym("single", name, ""), Right>>
Element(name, load) ==
    <<Left, Sym("open", name, ""), Right, Sym("text", "", load),
      Left, Sym("close", name, ""), Right>>

\* The state of parse_node: what it does with the next token, how deep it is,
\* the name of the top node and the texts found in it.
NewSink == [expect |-> "text", depth |-> 0, top |-> "", texts |-> <<>>, result |-> "none"]

Failed(ps) == [ps EXCEPT !.result = "null"]

\* do_node; a bracket or a text taken for a tag opens a node of that name.
Tag(ps, token) ==
    LET top == IF ps.depth = 0 THEN token.name ELSE ps.top
        delta == CASE token.kind = "close" -> -1 [] token.kind = "single" -> 0 [] OTHER -> 1
    IN  IF token = EMPTY_STRING THEN Failed(ps)
        ELSE [ps EXCEPT !.expect = ">", !.depth = @ + delta,
                        !.top = IF delta < 0 THEN @ ELSE top]

\* The body of parse_node's loop, cut at the calls of next_token.
Parsed(ps, token) ==
    CASE ps.expect = "text" /\ token = EMPTY_STRING -> Failed(ps)
      [] ps.expect = "text" /\ token = Left -> [ps EXCEPT !.expect = "tag"]
      [] ps.expect = "text" /\ token \notin {EMPTY_STRING, Left} ->
            [ps EXCEPT !.texts = Append(@, token.load)]
      [] ps.expect = "tag" -> Tag(ps, token)
      [] ps.expect = ">" /\ token # Right -> Failed(ps)
      [] ps.expect = ">" /\ token = Right ->
            IF ps.depth = 0 THEN [ps EXCEPT !.result = "node"] ELSE [ps EXCEPT !.expect = "text"]

\* next_token returns the bracket that is left over.
TakesLast(c, token) ==
    /\ last_char # ""
    /\ token = Bracket(last_char)
    /\ last_char' = "" /\ left_by' = {}
    /\ crossed' = (crossed \/ left_by # {c})
    /\ UNCHANGED toServer

\* next_token, having found no bracket left over, reads from the socket; one
\* that another thread has left in the meantime is overwritten.
TakesArrived(c, token) ==
    LET in == toServer[c]
    IN  CASE in = <<>> -> c \in hung_up /\ token = EMPTY_STRING /\ UNCHANGED readVars
          [] in # <<>> /\ Head(in) \in {Left, Right} ->
                /\ token = Head(in)
                /\ last_char' = "" /\ left_by' = {}
                /\ crossed' = (crossed \/ left_by # {})
                /\ toServer' = [toServer EXCEPT ![c] = Tail(in)]
          [] in # <<>> /\ Head(in) \notin {Left, Right} ->
                /\ token = Head(in)
                /\ last_char' = in[2].kind /\ left_by' = {c}
                /\ crossed' = (crossed \/ left_by # {})
                /\ toServer' = [toServer EXCEPT ![c] = SubSeq(in, 3, Len(in))]
=============================================================================
