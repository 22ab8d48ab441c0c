------------------------------- MODULE Syntax -------------------------------
(***************************************************************************)
(* The text of Logo programs (crates/bricklogo-lang/src): tokenizer.rs,    *)
(* parser.rs, check.rs and unparse.rs, as operators.                       *)
(*                                                                         *)
(* A text is a sequence of lexemes, what blanks separate, each with its    *)
(* kind and its spelling (an infix operator between blanks too); of the    *)
(* tokenizer there remains what depends on the neighbours, the sign of a   *)
(* number, and what does not survive being written, a "|word with blanks|. *)
(* A token is a lexeme; the end of the text is one more.  Letters are      *)
(* lower case, lines and columns of errors are left out.                   *)
(*                                                                         *)
(* A tree is a node: its kind, its spelling and its parts.  A parse gives  *)
(* the state it ends in, "ok", "more" (LogoError::Incomplete), "error" or  *)
(* "panic" (the unwrap of a number of two dots), the tree or the trees,    *)
(* the place of the next token, and the arities, which a `to` extends as   *)
(* soon as its header is read.                                             *)
(***************************************************************************)
EXTENDS Naturals, Sequences

Lex(k, v) == [k |-> k, v |-> v]
Word(v) == Lex("word", v)
Num(v) == Lex("num", v)
Open == Lex("[", "[")
Close == Lex("]", "]")
ParenOpen == Lex("(", "(")
ParenClose == Lex(")", ")")
Newline == Lex("nl", "nl")
Eof == Lex("eof", "")

Node(k, v, parts) == [k |-> k, v |-> v, parts |-> parts]

(* The parts that follow the keyword of a control structure.  output and   *)
(* op are one; true and false are words.                                   *)
Forms == [repeat |-> <<"expr", "body">>, forever |-> <<"body">>, launch |-> <<"body">>,
          foreach |-> <<"name", "expr", "body">>, while |-> <<"body", "body">>,
          until |-> <<"body", "body">>, if |-> <<"expr", "body">>,
          ifelse |-> <<"expr", "body", "body">>, waituntil |-> <<"body">>,
          carefully |-> <<"body", "body">>, output |-> <<"expr">>, op |-> <<"expr">>,
          stop |-> <<>>]

----------------------------------------------------------------------------
(* The tokenizer.                                                          *)

(* A minus and digits are a negative number at the start of the text or of *)
(* a line, and after a bracket, a parenthesis or an operator; elsewhere    *)
(* the minus is an operator.                                               *)
SignedAfter == {"[", "(", "op", "nl"}

(* The tokens of a text: of lexemes, only a negative number can be two.    *)
Tokens(text) ==
  LET tokens[i \in 0 .. Len(text)] ==
        IF i = 0 THEN <<>>
        ELSE LET before == tokens[i - 1]
                 signed == before = <<>> \/ before[Len(before)].k \in SignedAfter
             IN  IF text[i] = Num("-1") /\ ~signed
                 THEN before \o <<Lex("op", "-"), Num("1")>>
                 ELSE Append(before, text[i])
  IN  Append(tokens[Len(text)], Eof)

----------------------------------------------------------------------------
(* The parser.                                                             *)

Parsed(n, i, ar) == [st |-> "ok", n |-> n, i |-> i, ar |-> ar]
Fails(st, i, ar) == [st |-> st, n |-> <<>>, i |-> i, ar |-> ar]

(* What a parse s that went well, of several parts, goes on with: one part *)
(* more, a node made of them, the next token, the next line; the first     *)
(* part that fails is the result.                                          *)
Start(i, ar) == Parsed(<<>>, i, ar)
Add(s, part) == IF part.st = "ok" THEN [part EXCEPT !.n = Append(s.n, part.n)] ELSE part
Made(s, k, v) == IF s.st = "ok" THEN [s EXCEPT !.n = Node(k, v, s.n)] ELSE s
Past(s) == IF s.st = "ok" THEN [s EXCEPT !.i = s.i + 1] ELSE s

RECURSIVE SkipNewlines(_, _)
SkipNewlines(ts, i) == IF ts[i] = Newline THEN SkipNewlines(ts, i + 1) ELSE i
Skip(ts, s) == IF s.st = "ok" THEN [s EXCEPT !.i = SkipNewlines(ts, s.i)] ELSE s

(* A number token becomes a number, or takes the thread down.              *)
Number(t, i, ar) ==
  IF t.v = "1.1.1" THEN Fails("panic", i, ar) ELSE Parsed(Node("num", t.v, <<>>), i + 1, ar)

Arity(ar, name) == IF name \in DOMAIN ar THEN ar[name] ELSE 0

RECURSIVE Expression(_, _, _), Infix(_, _), Atom(_, _, _), Inputs(_, _, _), Parts(_, _, _),
          Nodes(_, _, _), Block(_, _, _, _), Body(_, _, _), Raw(_, _), ParenInputs(_, _),
          Definition(_, _, _)

(* parse_expression: operators all bind alike, to the left.                *)
Expression(ts, i, ar) == Infix(ts, Atom(ts, i, ar))

(* The loop of parse_expression, after its first atom.                     *)
Both(left, op, right) == Made(Add([left EXCEPT !.n = <<left.n>>], right), "infix", op)
Infix(ts, left) ==
  IF left.st # "ok" \/ ts[left.i].k # "op" THEN left
  ELSE Infix(ts, Both(left, ts[left.i].v, Atom(ts, left.i + 1, left.ar)))

(* parse_atom, with parse_word_expr and parse_paren_expr.                  *)
Closed(ts, inner) ==
  IF inner.st = "ok" /\ ts[inner.i] # ParenClose THEN Fails("error", inner.i, inner.ar) ELSE Past(inner)
Atom(ts, i, ar) ==
  LET t == ts[i] IN
  CASE t.k = "num" -> Number(t, i, ar)
    [] t.k = "var" -> Parsed(Node("var", t.v, <<>>), i + 1, ar)
    [] t.k = "quoted" -> Parsed(Node("lit", t.v, <<>>), i + 1, ar)
    [] t.k = "[" -> Raw(ts, Start(i + 1, ar))
    [] t.k = "(" ->
         IF ts[i + 1].k = "word"
         THEN Past(Made(ParenInputs(ts, Start(i + 2, ar)), "paren", ts[i + 1].v))
         ELSE Closed(ts, Expression(ts, i + 1, ar))
    [] t.k = "word" /\ t.v = "to" -> Definition(ts, i + 1, ar)
    [] t.k = "word" /\ t.v \in {"true", "false"} -> Parsed(Node("lit", t.v, <<>>), i + 1, ar)
    [] t.k = "word" /\ t.v \in DOMAIN Forms ->
         Made(Parts(ts, Start(i + 1, ar), Forms[t.v]), "form", IF t.v = "op" THEN "output" ELSE t.v)
    [] t.k = "word" /\ t.v \notin DOMAIN Forms \cup {"to", "true", "false"} ->
         Made(Inputs(ts, Start(i + 1, ar), Arity(ar, t.v)), "call", t.v)
    [] OTHER -> Fails("error", i, ar)

(* The inputs of a call, as many as the name is known to take: the text    *)
(* may end before one, the line may not.                                   *)
Inputs(ts, s, n) ==
  CASE s.st # "ok" \/ n = 0 -> s
    [] s.st = "ok" /\ n > 0 /\ ts[s.i] = Eof -> Fails("more", s.i, s.ar)
    [] s.st = "ok" /\ n > 0 /\ ts[s.i] = Newline -> Fails("error", s.i, s.ar)
    [] OTHER -> Inputs(ts, Add(s, Expression(ts, s.i, s.ar)), n - 1)

(* parse_repeat ... parse_until.  foreach wants a word for its variable.   *)
OfForm(kind, part) ==
  IF kind = "name" /\ part.st = "ok" /\ part.n.k # "lit" THEN Fails("error", part.i, part.ar) ELSE part
Parts(ts, s, form) ==
  IF s.st # "ok" \/ form = <<>> THEN s
  ELSE Parts(ts, Add(s, IF Head(form) = "body" THEN Body(ts, s.i, s.ar)
                        ELSE OfForm(Head(form), Expression(ts, s.i, s.ar))), Tail(form))

(* The loops of parse, parse_list_body and parse_procedure_def.            *)
Nodes(ts, s, close) ==
  CASE s.st # "ok" -> s
    [] s.st = "ok" /\ ts[s.i] = close -> s
    [] s.st = "ok" /\ ts[s.i] # close /\ ts[s.i] = Eof -> Fails("more", s.i, s.ar)
    [] OTHER -> Nodes(ts, Skip(ts, Add(s, Expression(ts, s.i, s.ar))), close)
Block(ts, i, ar, close) == Past(Made(Nodes(ts, Start(i, ar), close), "body", ""))

(* parse_list_body.                                                        *)
Body(ts, i, ar) ==
  IF ts[i] = Open THEN Block(ts, SkipNewlines(ts, i + 1), ar, Close) ELSE Fails("error", i, ar)

(* parse_list and parse_raw_atom: inside a list bare words are data.       *)
Raw(ts, s) ==
  IF s.st # "ok" THEN s
  ELSE LET t == ts[s.i] IN
  CASE t = Newline -> Raw(ts, Past(s))
    [] t = Close -> Past(Made(s, "list", ""))
    [] t = Eof -> Fails("more", s.i, s.ar)
    [] t.k = "num" -> Raw(ts, Add(s, Number(t, s.i, s.ar)))
    [] t.k = "var" -> Raw(ts, Add(s, Parsed(Node("var", t.v, <<>>), s.i + 1, s.ar)))
    [] t.k \in {"quoted", "word"} -> Raw(ts, Add(s, Parsed(Node("lit", t.v, <<>>), s.i + 1, s.ar)))
    [] t = Open -> Raw(ts, Add(s, Raw(ts, Start(s.i + 1, s.ar))))
    [] OTHER -> Fails("error", s.i, s.ar)

(* (name input ...): as many inputs as there are.                          *)
ParenInputs(ts, s) ==
  CASE s.st # "ok" -> s
    [] s.st = "ok" /\ ts[s.i] = ParenClose -> s
    [] s.st = "ok" /\ ts[s.i] = Eof -> Fails("more", s.i, s.ar)
    [] OTHER -> ParenInputs(ts, Add(s, Expression(ts, s.i, s.ar)))

RECURSIVE Params(_, _, _)
Params(ts, i, params) ==
  IF ts[i].k = "var" THEN Params(ts, i + 1, Append(params, Node("var", ts[i].v, <<>>)))
  ELSE [i |-> i, params |-> params]

(* parse_procedure_def: the name's arity counts from here on, for calls in *)
(* the body too.                                                           *)
Definition(ts, i, ar) ==
  IF ts[i].k # "word" THEN Fails("error", i, ar)
  ELSE LET name == ts[i].v
           header == Params(ts, i + 1, <<>>)
           params == Node("params", "", header.params)
           known == [x \in DOMAIN ar \cup {name} |->
                       IF x = name THEN Len(header.params) ELSE ar[x]]
           j == SkipNewlines(ts, header.i)
       IN  Made(Add(Parsed(<<params>>, j, known),
                    IF ts[j] = Open THEN Body(ts, j, known) ELSE Block(ts, j, known, Word("end"))),
                "to", name)

(* parse; check_input looks at the state only.                             *)
Parse(text, ar) == LET ts == Tokens(text) IN Nodes(ts, Start(SkipNewlines(ts, 1), ar), Eof)

----------------------------------------------------------------------------
(* unparse.rs: the text a tree is saved as.                                *)

(* Mutant of Literal: a word is written bare.                              *)
Bare(v) == <<Word(v)>>

(* A word gets its quote; one with a blank in it is two words once read.   *)
Literal(v) == IF v = "a b" THEN <<Lex("quoted", "a"), Word("b")>> ELSE <<Lex("quoted", v)>>

RECURSIVE Source(_), SourceAll(_)
(* node_to_source: parentheses round an expression are not in the tree,    *)
(* and none are written.                                                   *)
Source(node) ==
  CASE node.k \in {"num", "var"} -> <<Lex(node.k, node.v)>>
    [] node.k = "lit" -> Literal(node.v)
    [] node.k \in {"list", "body"} -> <<Open>> \o SourceAll(node.parts) \o <<Close>>
    [] node.k = "infix" ->
         Source(node.parts[1]) \o <<Lex("op", node.v)>> \o Source(node.parts[2])
    [] node.k = "paren" ->
         <<ParenOpen, Word(node.v)>> \o SourceAll(node.parts) \o <<ParenClose>>
    [] node.k \in {"call", "form"} -> <<Word(node.v)>> \o SourceAll(node.parts)
    [] node.k = "to" ->
         LET lines == node.parts[2].parts
             body[i \in 0 .. Len(lines)] ==
               IF i = 0 THEN <<>> ELSE body[i - 1] \o Source(lines[i]) \o <<Newline>>
         IN  <<Word("to"), Word(node.v)>> \o SourceAll(node.parts[1].parts) \o <<Newline>>
               \o (IF lines = <<>> THEN <<Newline>> ELSE body[Len(lines)]) \o <<Word("end")>>
SourceAll(nodes) == IF nodes = <<>> THEN <<>> ELSE Source(Head(nodes)) \o SourceAll(Tail(nodes))

(* procedures_to_source: the procedures in the order they come.            *)
Page(procedures) ==
  LET text[i \in 0 .. Len(procedures)] ==
        IF i = 0 THEN <<>>
        ELSE (IF i = 1 THEN <<>> ELSE text[i - 1] \o <<Newline, Newline>>) \o Source(procedures[i])
  IN  Append(text[Len(procedures)], Newline)
=============================================================================
