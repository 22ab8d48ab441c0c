----------------------------- MODULE MCPrograms -----------------------------
(***************************************************************************)
(* What a user enters: a behaviour edits lines at the prompt ("edit"),     *)
(* enters them in sessions ("session"), or writes the body of a procedure, *)
(* lexeme by lexeme, that save then writes to a page ("text"); or it is a  *)
(* conversion with one input: a frame for a hub, byte by byte ("frame"), a *)
(* message of the network ("message"), a turn ("turn").                    *)
(***************************************************************************)
EXTENDS LineEditor, Session, TLC

CONSTANTS MaxBody, MaxBlock, MaxData, Lengths, None

VARIABLES
  which,
  body          (* what is converted: lexemes, bytes, variables, or angles *)

prompt == <<line, past, app, editor>>
allVars == <<which, prompt, sessionVars, body>>

----------------------------------------------------------------------------
(* The instances.                                                          *)

(* The one name Tab completes, which gets a blank at the end of the line.  *)
Completed == {<<"a", "a">>}

SomePrimitives == [save |-> 0, load |-> 1, namepage |-> 1, erase |-> 1, print |-> 1]
T == INSTANCE Syntax
TextParsed(text, arities) == T!Parse(text, arities)
PageWritten(definitions) == T!Page(definitions)
NewlineLexeme == T!Newline
Quoted(v) == T!Lex("quoted", v)
Var(v) == T!Lex("var", v)
Op(v) == T!Lex("op", v)

(* Lines that define p and q, in one line or several, and use them; that   *)
(* are incomplete, wrong, or take the App down; that run for ever.         *)
TypedLines == {
  <<T!Word("to"), T!Word("q"), Var("x")>>,
  <<T!Word("end")>>,
  <<T!Word("q")>>,
  <<T!Word("to"), T!Word("p"), T!Open, T!Word("q"), T!Num("1"), T!Close>>,
  <<T!Word("forever"), T!Open>>,
  <<T!Close>>,
  <<T!Num("1.1.1")>>,
  <<T!Word("erase"), Quoted("q")>>,
  <<T!Word("namepage"), Quoted("page"), T!Word("save")>>,
  <<T!Word("load"), Quoted("page")>>,
  <<T!Word("load"), Quoted("bad"), T!Word("p")>>}

(* A page written elsewhere, with a number of two dots in it.              *)
DiskPages == [bad |-> <<T!Word("p"), T!Num("1.1.1"), T!Newline>>]

C == INSTANCE Codecs
R == INSTANCE Rotations

Known == SomePrimitives @@ [q |-> 1]

(* What the body of a procedure is written with; q takes an input.         *)
Lexemes == {T!Num("1"), T!Num("-1"), Quoted("w"), Quoted("a b"), Var("x"), Op("+"), T!Open, T!Close,
            T!ParenOpen, T!ParenClose, T!Newline, T!Word("q"), T!Word("repeat"), T!Word("output")}

(* The text of p, whose body may still go on: no error before its end.     *)
Header == <<T!Word("to"), T!Word("p"), T!Newline>>
CanGoOn(text) ==
  LET parsed == T!Parse(Header \o text, Known)
  IN  parsed.st = "error" => parsed.i > Len(T!Tokens(Header \o text)) - 1

Write(lexeme) ==
  /\ Len(body) < MaxBody
  /\ body' = Append(body, lexeme)
  /\ CanGoOn(body')

(* Bytes: the three delimiters, and one that is none.                      *)
Send(byte) == Len(body) < MaxData /\ body' = Append(body, byte)

(* Names, words and lists that fit, that just fit and that do not.         *)
Labels == {<<>>, <<7>>, <<7, 8>>}
Nine == C!Value("number", <<9>>, <<>>)
Listed(items) == C!Value("list", <<>>, items)
Values == {Nine, Listed(<<C!Value("word", <<7>>, <<>>), Listed(<<Nine>>)>>)}
            \cup {C!Value("word", [i \in 1 .. n |-> C!NumberTag], <<>>) : n \in 0 .. Lengths + 1}
            \cup {Listed([i \in 1 .. n |-> Nine]) : n \in 0 .. Lengths + 1}
Messages == UNION {[1 .. n -> [name : Labels, value : Values]] : n \in 0 .. 2}
              \cup {[i \in 1 .. n |-> [name |-> <<7>>, value |-> Nine]] : n \in 3 .. Lengths + 1}

(* Where a motor may be, and where it is sent.                             *)
Turns == UNION {(360 * turn - 1) .. (360 * turn + 1) : turn \in -2 .. 2}
           \cup UNION {(360 * turn + 179) .. (360 * turn + 181) : turn \in -2 .. 1}
Angles == {[from |-> from, target |-> target] : from \in Turns, target \in Turns}

----------------------------------------------------------------------------
StartAll ==
  /\ Init /\ SessionInit
  /\ \/ which \in {"edit", "session"} /\ body = None
     \/ which \in {"text", "frame"} /\ body = <<>>
     \/ which = "message" /\ body \in Messages
     \/ which = "turn" /\ body \in Angles

NextAll ==
  \/ which = "edit" /\ Next /\ UNCHANGED <<which, sessionVars, body>>
  \/ which = "session" /\ SessionNext /\ UNCHANGED <<which, prompt, body>>
  \/ which = "text" /\ (\E lexeme \in Lexemes : Write(lexeme)) /\ UNCHANGED <<which, prompt, sessionVars>>
  \/ which = "frame" /\ (\E byte \in C!Delimiters \cup {9} : Send(byte)) /\ UNCHANGED <<which, prompt, sessionVars>>

SpecAll == StartAll /\ [][NextAll]_allVars

----------------------------------------------------------------------------
(* What save writes is what load reads: a page of p and q, in either order *)
(* of the HashMap, gives the same two procedures again, in a session that  *)
(* knows them and in a new one, ...                                        *)
q == T!Parse(<<T!Word("to"), T!Word("q"), Var("x"), T!Newline, T!Word("end")>>, SomePrimitives).n[1]

(* ... but for what the text of a page cannot say: parentheses round an    *)
(* expression are not written, so it is grouped anew or, where its value   *)
(* begins with a minus, an error; a word with a blank is two; a negative   *)
(* number that began a line in brackets follows other things on the line.  *)
Plain ==
  \A i \in DOMAIN body :
    /\ body[i] = T!ParenOpen => i < Len(body) /\ body[i + 1].k = "word"
    /\ body[i] # Quoted("a b")
    /\ body[i] = T!Num("-1") => i > 1 /\ body[i - 1] # T!Newline

(* And a new session does not know yet how many inputs a procedure takes   *)
(* that comes later in the page.                                           *)
InOrder(order) == order[1] = q \/ \A i \in DOMAIN body : body[i] # T!Word("q")

PageReadsBack ==
  LET p == T!Parse(Header \o body \o <<T!Newline, T!Word("end")>>, Known)
  IN  Plain /\ p.st = "ok" /\ Len(p.n) = 1 =>
    \A order \in {<<p.n[1], q>>, <<q, p.n[1]>>} :
      /\ T!Parse(T!Page(order), Known).n = order
      /\ InOrder(order) => T!Parse(T!Page(order), SomePrimitives).n = order

(* What is converted comes back: a page, a frame of the hub, a message of  *)
(* the network whose lengths fit in their two bytes.  And rotateto and     *)
(* rotatetoabs end where they were told to, within a turn, their way.      *)
ReadsBack ==
  CASE which = "text" -> PageReadsBack
    [] which = "frame" -> C!FrameReadsBack(body)
    [] which = "message" -> C!MessageReadsBack(body)
    [] which = "turn" -> R!TurnLands(body.from, body.target)
    [] OTHER -> TRUE
=============================================================================
