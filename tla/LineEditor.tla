------------------------------ MODULE LineEditor ------------------------------
(***************************************************************************)
(* The line being typed (crates/bricklogo/src/repl.rs), with the history   *)
(* of App (crates/bricklogo-tui/src/app.rs).                               *)
(*                                                                         *)
(* The input is a String, a sequence of bytes; cursor_position counts      *)
(* bytes, but typing moves it by one whatever the character.  A character  *)
(* is one byte (a letter, a blank) or the two bytes of a wide one; a       *)
(* String operation at a place between these panics, and takes the App     *)
(* down with the terminal still raw and the motors still on.  What a line  *)
(* does when it is entered is chosen here and modelled in Session.         *)
(***************************************************************************)
EXTENDS Integers, Sequences, SequencesExt

CONSTANTS
  Commands,   (* the names Tab completes, as sequences of letters          *)
  MaxInput,   (* bound: bytes of the input                                 *)
  MaxHistory  (* bound: lines of the history                               *)

Blank == "_"
Lead == "lead"     (* the two bytes of a wide character                    *)
Trail == "trail"
Letters == UNION {{name[i] : i \in DOMAIN name} : name \in Commands}
Characters == {<<x>> : x \in Letters \cup {Blank}} \cup {<<Lead, Trail>>}

ASSUME LineEditorAssumption ==
  /\ \A name \in Commands : name \in Seq(STRING \ {Blank, Lead, Trail})
  /\ MaxInput \in Nat /\ MaxHistory \in Nat

VARIABLES
  input,    (* App::input                                                  *)
  cursor,   (* App::cursor_position                                        *)
  history,  (* App::input_history, the newest first                        *)
  index,    (* App::history_index                                          *)
  running,  (* App::busy                                                   *)
  gathering,(* App::multi_line is Some                                     *)
  help,     (* App::help_mode                                              *)
  armed,    (* the windows that are open: "esc", "ctrlc"                   *)
  editor    (* the main loop: "up", "quit" or "dead"                       *)

vars == <<input, cursor, history, index, running, gathering, help, armed, editor>>
line == <<input, cursor>>
past == <<history, index>>
app == <<running, gathering, help, armed>>

Init ==
  /\ input = <<>> /\ cursor = 0 /\ history = <<>> /\ index = -1
  /\ running = FALSE /\ gathering = FALSE /\ help = FALSE /\ armed = {} /\ editor = "up"

----------------------------------------------------------------------------
(* Strings.                                                                *)

(* is_char_boundary.                                                       *)
Boundary(i) == i <= Len(input) /\ (i = 0 \/ i = Len(input) \/ input[i + 1] # Trail)

(* The ends of the run of such bytes to the left and to the right of i.    *)
LeftWhile(i, bytes) == Max({0} \cup {j \in 1 .. i : input[j] \notin bytes})
RightWhile(i, bytes) ==
  Min({Len(input)} \cup {j \in i .. Len(input) - 1 : input[j + 1] \notin bytes})
Word == Letters \cup {Lead, Trail}

(* word_boundary_left and word_boundary_right, on bytes.                   *)
WordLeft == LeftWhile(LeftWhile(cursor, {Blank}), Word)
WordRight == RightWhile(RightWhile(cursor, Word), {Blank})

(* The input without the bytes from i to j.                                *)
Without(i, j) == SubSeq(input, 1, i) \o SubSeq(input, j + 1, Len(input))

(* trim.                                                                   *)
Trimmed(s) ==
  LET kept == {i \in DOMAIN s : s[i] # Blank}
  IN  IF kept = {} THEN <<>> ELSE SubSeq(s, Min(kept), Max(kept))

----------------------------------------------------------------------------
(* Keys.                                                                   *)

Panic == editor' = "dead" /\ UNCHANGED <<input, cursor, history, index, app>>

(* The keys that move the cursor, and those that change the line.          *)
Key == editor = "up" /\ ~help
Edit == editor = "up" /\ ~help /\ ~running

(* String::insert, which panics between the bytes of a character.          *)
Type(c) ==
  /\ Edit /\ Len(input) + Len(c) <= MaxInput
  /\ IF Boundary(cursor)
     THEN /\ input' = SubSeq(input, 1, cursor) \o c \o SubSeq(input, cursor + 1, Len(input))
          /\ cursor' = cursor + 1
          /\ UNCHANGED <<past, app, editor>>
     ELSE Panic

(* Home, End, Left, Right and the moves by a word, also while it runs.     *)
Move ==
  /\ Key
  /\ cursor' \in {0, Len(input), WordLeft, WordRight}
                   \cup {i \in {cursor - 1, cursor + 1} : i \in 0 .. Len(input)}
  /\ UNCHANGED <<input, past, app, editor>>

(* Control-U, -K, -W, Alt-D and the deletions by a word: String::drain     *)
(* (or truncate) of the bytes from i to j, the cursor left at i.           *)
Cut(i, j) ==
  /\ Edit /\ i < j
  /\ IF Boundary(i) /\ Boundary(j)
     THEN /\ input' = Without(i, j) /\ cursor' = i
          /\ UNCHANGED <<past, app, editor>>
     ELSE Panic
Cuts == \/ Cut(0, cursor) \/ Cut(cursor, Len(input)) \/ Cut(WordLeft, cursor) \/ Cut(cursor, WordRight)

(* Mutant of DeleteAt: it removes a byte.                                  *)
DeleteByte(i) ==
  /\ Edit /\ i \in 0 .. Len(input) - 1
  /\ IF Boundary(i)
     THEN input' = Without(i, i + 1) /\ cursor' = i /\ UNCHANGED <<past, app, editor>>
     ELSE editor' = "dead" /\ UNCHANGED <<line, past, app>>

(* String::remove of the character at i, the cursor left there.            *)
DeleteAt(i) ==
  /\ Edit /\ i \in 0 .. Len(input) - 1
  /\ IF Boundary(i)
     THEN LET width == IF input[i + 1] = Lead THEN 2 ELSE 1
          IN  /\ input' = Without(i, i + width) /\ cursor' = i
              /\ UNCHANGED <<past, app, editor>>
     ELSE /\ editor' = "dead" /\ UNCHANGED <<line, past, app>>

(* Backspace and Delete.                                                   *)
Delete == DeleteAt(cursor - 1) \/ DeleteAt(cursor)

(* Tab: complete_at_cursor on the letters left of the cursor, when no more *)
(* of the word is to the right.  A whole name at the end gets a blank.     *)
Token == SubSeq(input, LeftWhile(cursor, Word) + 1, cursor)
Matches == {name \in Commands : IsPrefix(Token, name)}
Common == LongestCommonPrefix(Matches)
Complete ==
  /\ Edit
  /\ IF ~Boundary(cursor) THEN Panic
     ELSE LET start == LeftWhile(cursor, Word)
              whole == Cardinality(Matches) = 1
              added == Common \o IF whole /\ cursor = Len(input) THEN <<Blank>> ELSE <<>>
          IN  /\ cursor < Len(input) => input[cursor + 1] = Blank
              /\ Token # <<>> /\ Matches # {} /\ Len(Common) > Len(Token)
              /\ start + Len(added) + Len(input) - cursor <= MaxInput
              /\ input' = SubSeq(input, 1, start) \o added \o SubSeq(input, cursor + 1, Len(input))
              /\ cursor' = start + Len(added)
              /\ UNCHANGED <<past, app, editor>>

(* Up and Down: history_up and history_down.                               *)
HistoryUp ==
  /\ Edit /\ ~gathering /\ history # <<>>
  /\ index' = IF index + 1 < Len(history) THEN index + 1 ELSE Len(history) - 1
  /\ input' = history[index' + 1] /\ cursor' = Len(input')
  /\ UNCHANGED <<history, app, editor>>

(* Mutant of HistoryDown: the cursor stays where it was.                   *)
HistoryDownOnly ==
  /\ Edit /\ ~gathering
  /\ index' = IF index <= 0 THEN -1 ELSE index - 1
  /\ input' = (IF index <= 0 THEN <<>> ELSE history[index]) /\ UNCHANGED cursor
  /\ UNCHANGED <<history, app, editor>>

HistoryDown ==
  /\ Edit /\ ~gathering
  /\ index' = IF index <= 0 THEN -1 ELSE index - 1
  /\ input' = (IF index <= 0 THEN <<>> ELSE history[index]) /\ cursor' = Len(input')
  /\ UNCHANGED <<history, app, editor>>

(* Enter: submit_input.  The line may run, be gathered, open the help or   *)
(* quit; an empty one does nothing.                                        *)
Enter ==
  /\ Edit /\ Trimmed(input) # <<>>
  /\ LET new == history = <<>> \/ Head(history) # Trimmed(input)
     IN  /\ new => Len(history) < MaxHistory
         /\ history' = IF new THEN <<Trimmed(input)>> \o history ELSE history
  /\ index' = -1 /\ input' = <<>> /\ cursor' = 0
  /\ \/ running' \in BOOLEAN /\ gathering' \in BOOLEAN /\ ~(running' /\ gathering')
        /\ UNCHANGED <<help, armed, editor>>
     \/ ~gathering /\ help' = TRUE /\ UNCHANGED <<running, gathering, armed, editor>>
     \/ ~gathering /\ editor' = "quit" /\ UNCHANGED app

(* tick: what ran is over.                                                 *)
Done ==
  /\ editor = "up" /\ running
  /\ running' = FALSE
  /\ UNCHANGED <<line, past, gathering, help, armed, editor>>

(* q or Escape leaves the help; nothing else does anything there.          *)
LeaveHelp ==
  /\ editor = "up" /\ help /\ help' = FALSE
  /\ UNCHANGED <<line, past, running, gathering, armed, editor>>

(* handle_escape_press, in the order of its cases.                         *)
Escape ==
  /\ Key
  /\ \/ running /\ armed' = armed \ {"esc"} /\ UNCHANGED <<line, gathering>>
     \/ ~running /\ gathering /\ armed' = armed \ {"esc"} /\ gathering' = FALSE /\ UNCHANGED line
     \/ /\ ~running /\ ~gathering /\ "esc" \in armed
        /\ armed' = armed \ {"esc"} /\ input' = <<>> /\ cursor' = 0 /\ UNCHANGED gathering
     \/ /\ ~running /\ ~gathering /\ "esc" \notin armed /\ input # <<>>
        /\ armed' = armed \cup {"esc"} /\ UNCHANGED <<line, gathering>>
  /\ UNCHANGED <<past, running, help, editor>>

(* Control-C: the second in a second quits.  SIGINT quits at once.         *)
ControlC ==
  /\ Key
  /\ IF "ctrlc" \in armed THEN editor' = "quit" /\ UNCHANGED app
     ELSE /\ armed' = armed \cup {"ctrlc"}
          /\ UNCHANGED <<running, gathering, help, editor>>
  /\ UNCHANGED <<line, past>>

(* A second is over: a window closes.                                      *)
Expire ==
  /\ editor = "up"
  /\ \E window \in armed : armed' = armed \ {window}
  /\ UNCHANGED <<line, past, running, gathering, help, editor>>

Next ==
  \/ \E c \in Characters : Type(c)
  \/ Move \/ Cuts \/ Delete \/ Complete \/ HistoryUp \/ HistoryDown
  \/ Enter \/ Done \/ LeaveHelp \/ Escape \/ ControlC \/ Expire

Spec == Init /\ [][Next]_vars

----------------------------------------------------------------------------
(* What can go wrong.                                                      *)

(* The cursor never leaves the line, whatever was typed, cut, completed or *)
(* fetched, nor the place in the history the history; so the String        *)
(* operations panic only inside a wide character, which is all that is     *)
(* wrong with counting a character as one.                                 *)
CursorInLine ==
  /\ cursor \in 0 .. Len(input) /\ index \in -1 .. Len(history) - 1
  /\ editor = "dead" => \E i \in DOMAIN input : input[i] = Trail

(* No half of a wide character is ever left in the line or in the history: *)
(* what is deleted, cut out, completed or trimmed begins and ends between  *)
(* characters.                                                             *)
Whole(text) ==
  \A i \in DOMAIN text :
    /\ text[i] = Lead => i < Len(text) /\ text[i + 1] = Trail
    /\ text[i] = Trail => i > 1 /\ text[i - 1] = Lead
TextIsWhole == Whole(input) /\ \A i \in DOMAIN history : Whole(history[i])

(* Both: what every edit needs of the line, and leaves to the next.        *)
LineIsSound == CursorInLine /\ TextIsWhole
=============================================================================
