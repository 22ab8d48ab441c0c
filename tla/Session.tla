------------------------------- MODULE Session -------------------------------
(***************************************************************************)
(* A session at the prompt: the App (crates/bricklogo-tui/src/app.rs)      *)
(* takes lines, gathers those of an unfinished program, and hands a        *)
(* complete one with the evaluator to a thread; the evaluator              *)
(* (crates/bricklogo-lang/src/evaluator.rs, primitives.rs) parses it       *)
(* again, runs it node by node, defines, erases, saves and loads           *)
(* procedures; tick brings the evaluator back.  The App and the process    *)
(* may end at any time; pages stay on the disk.                            *)
(*                                                                         *)
(* The lines typed are members of Lines.  Of the primitives those that act *)
(* on procedures and pages are modelled; any other node may end well or    *)
(* with an error, and forever goes round until it is stopped.              *)
(* What a text means is left to ParseOf and PageOf; Syntax defines them.   *)
(***************************************************************************)
EXTENDS Naturals, SequencesExt

CONSTANTS
  ParseOf(_, _),(* of a text, with the arities that are known: st and n    *)
  PageOf(_),    (* the text of a page with these procedures                *)
  LineEnd,      (* the lexeme at the end of a line                         *)
  Lines,        (* the lines that are typed                                *)
  Found,        (* the pages on the disk at first, with their texts        *)
  Primitives,   (* min_args of the primitives                              *)
  MaxMulti,     (* bound: lines gathered                                   *)
  MaxProcedures (* bound: procedures defined                               *)

VARIABLES
  ui,         (* the App's thread: "up", "quit" or "dead" (a panic)        *)
  multi,      (* multi_line: the lines gathered, none when it is None      *)
  busy,       (* App::busy                                                 *)
  home,       (* App::evaluator is Some                                    *)
  thread,     (* the evaluation: pc, the text, the nodes left to run       *)
  stop,       (* stop_requested                                            *)
  procedures, (* Evaluator::procedures: name -> its definition             *)
  page,       (* page_name, "" for None                                    *)
  disk        (* the files: page -> its text                               *)

sessionVars == <<ui, multi, busy, home, thread, stop, procedures, page, disk>>

Thread(pc, text, nodes) == [pc |-> pc, text |-> text, nodes |-> nodes]
Idle == Thread("none", <<>>, <<>>)

SessionInit ==
  /\ ui = "up" /\ multi = <<>> /\ busy = FALSE /\ home = TRUE /\ thread = Idle /\ stop = FALSE
  /\ procedures = <<>> /\ page = "" /\ disk = Found

(* build_arity_map.                                                        *)
Arities == [x \in DOMAIN Primitives \cup DOMAIN procedures |->
              IF x \in DOMAIN procedures
              THEN Len(procedures[x].parts[1].parts) ELSE Primitives[x]]

----------------------------------------------------------------------------
(* The App's thread.                                                       *)

(* MultiLineBuffer::source.                                                *)
Joined(lines) ==
  LET text[i \in 0 .. Len(lines)] ==
        IF i = 0 THEN <<>>
        ELSE (IF i = 1 THEN <<>> ELSE Append(text[i - 1], LineEnd)) \o lines[i]
  IN  text[Len(lines)]

(* The process ends: its threads, whatever they were doing, and all but    *)
(* the disk.                                                               *)
Gone ==
  /\ multi' = <<>> /\ busy' = FALSE /\ home' = TRUE /\ thread' = Idle /\ stop' = FALSE
  /\ procedures' = <<>> /\ page' = "" /\ UNCHANGED disk

Same == UNCHANGED <<home, busy, thread>>

(* execute: the command goes nowhere when there is no evaluator.           *)
Execute(text) ==
  IF home THEN /\ home' = FALSE /\ busy' = TRUE
               /\ thread' = Thread("given", text, <<>>)
  ELSE Same

(* check_input, with no arities when the evaluator is gone.                *)
Checked(text) == ParseOf(text, IF home THEN Arities ELSE <<>>).st

(* Mutant of AfterError: the line with the error stays in the buffer.      *)
KeepLine(lines) == multi' = lines

(* pop_line: a first line with an error opens no buffer.                   *)
AfterError(lines) == multi' = Front(lines)

(* Enter on a line: submit_input.  A line that is not a program of its own *)
(* opens the buffer; in the buffer a line with an error is dropped.        *)
EnterLine(line) ==
  /\ ui = "up" /\ ~busy
  /\ LET lines == Append(multi, line)
         text == Joined(lines)
     IN  \E st \in {Checked(text)} :
           \/ st = "panic" /\ ui' = "dead" /\ Gone
           \/ /\ \/ st = "ok" /\ multi' = <<>> /\ Execute(text)
                 \/ st = "more" /\ Len(lines) <= MaxMulti /\ multi' = lines /\ Same
                 \/ st = "error" /\ AfterError(lines) /\ Same
              /\ UNCHANGED <<ui, stop, procedures, page, disk>>

(* Escape: stop what runs, else drop the buffer.                           *)
RequestStop ==
  /\ ui = "up" /\ (busy \/ multi # <<>>)
  /\ stop' = (stop \/ busy)
  /\ multi' = IF busy THEN multi ELSE <<>>
  /\ UNCHANGED <<ui, busy, home, thread, procedures, page, disk>>

(* Mutant of Tick: a thread that has not answered yet counts as over.      *)
TickEarly ==
  /\ ui = "up" /\ thread.pc # "none"
  /\ busy' = FALSE
  /\ home' = (thread.pc = "sent")
  /\ thread' = IF thread.pc \in {"sent", "dead"} THEN Idle ELSE thread
  /\ UNCHANGED <<ui, multi, stop, procedures, page, disk>>

(* tick: the evaluator comes back with its result, or its thread is gone   *)
(* and the evaluator with it.                                              *)
Tick ==
  /\ ui = "up" /\ thread.pc \in {"sent", "dead"}
  /\ busy' = FALSE
  /\ home' = (thread.pc = "sent")
  /\ thread' = Idle
  /\ UNCHANGED <<ui, multi, stop, procedures, page, disk>>

(* bye, Control-C twice, SIGINT.                                           *)
Quit == ui = "up" /\ ui' = "quit" /\ Gone

(* The program is started again.                                           *)
Restart ==
  /\ ui # "up" /\ ui' = "up"
  /\ UNCHANGED <<multi, busy, home, thread, stop, procedures, page, disk>>

----------------------------------------------------------------------------
(* The evaluator's thread.                                                 *)

Ends == thread' = Thread("sent", <<>>, <<>>)
Runs(nodes) == thread' = Thread("run", <<>>, nodes)

(* evaluate: the stop flag is lowered, the text parsed.                    *)
Begin ==
  /\ ui = "up" /\ thread.pc = "given"
  /\ stop' = FALSE
  /\ LET program == ParseOf(thread.text, Arities)
     IN  CASE program.st = "ok"    -> Runs(program.n)
           [] program.st = "panic" -> thread' = Thread("dead", <<>>, <<>>)
           [] OTHER -> Ends
  /\ UNCHANGED <<ui, multi, busy, home, procedures, page, disk>>

Running == ui = "up" /\ thread.pc = "run"

(* check_stop, at every node.                                              *)
Stopped ==
  /\ Running /\ stop /\ thread.nodes # <<>> /\ Head(thread.nodes).k # "loaded"
  /\ stop' = FALSE /\ Ends
  /\ UNCHANGED <<ui, multi, busy, home, procedures, page, disk>>

Finish ==
  /\ Running /\ thread.nodes = <<>>
  /\ Ends
  /\ UNCHANGED <<ui, multi, busy, home, stop, procedures, page, disk>>

(* The node whose turn it is, unless there is a stop.                      *)
Turn(k) == Running /\ thread.nodes # <<>> /\ ~stop /\ Head(thread.nodes).k = k
Go == Runs(Tail(thread.nodes))
Node1 == Head(thread.nodes)
Calls(name) == Turn("call") /\ Node1.v = name

(* define_procedure.                                                       *)
Define ==
  /\ Turn("to")
  /\ Cardinality(DOMAIN procedures \cup {Node1.v}) <= MaxProcedures
  /\ procedures' = [x \in DOMAIN procedures \cup {Node1.v} |->
                      IF x = Node1.v THEN Node1 ELSE procedures[x]]
  /\ Go
  /\ UNCHANGED <<ui, multi, busy, home, stop, page, disk>>

(* A value, a motor command, ... or an error.                              *)
Other ==
  /\ \/ Turn("num") \/ Turn("lit") \/ Turn("list") \/ Turn("infix") \/ Turn("paren")
     \/ Turn("call") /\ Node1.v \notin {"save", "load", "namepage", "erase"}
  /\ Go \/ Ends
  /\ UNCHANGED <<ui, multi, busy, home, stop, procedures, page, disk>>

(* forever goes on, or its body raises an error.                           *)
Forever ==
  /\ Turn("form") /\ Node1.v = "forever"
  /\ UNCHANGED thread \/ Ends
  /\ UNCHANGED <<ui, multi, busy, home, stop, procedures, page, disk>>

NamePage ==
  /\ Calls("namepage")
  /\ page' = Node1.parts[1].v
  /\ Go
  /\ UNCHANGED <<ui, multi, busy, home, stop, procedures, disk>>

Erase ==
  /\ Calls("erase")
  /\ LET name == Node1.parts[1].v
     IN  IF name \in DOMAIN procedures THEN Go ELSE Ends
  /\ procedures' = [x \in DOMAIN procedures \ {Node1.parts[1].v} |-> procedures[x]]
  /\ UNCHANGED <<ui, multi, busy, home, stop, page, disk>>

(* save_page: the procedures in whatever order the HashMap has them; an    *)
(* error without a page name, or of the disk.                              *)
Save ==
  /\ Calls("save")
  /\ \/ /\ page # ""
        /\ \E order \in SetToSeqs(DOMAIN procedures) :
             disk' = [x \in DOMAIN disk \cup {page} |->
                        IF x = page THEN PageOf([i \in DOMAIN order |-> procedures[order[i]]])
                        ELSE disk[x]]
        /\ Go
     \/ Ends /\ UNCHANGED disk
  /\ UNCHANGED <<ui, multi, busy, home, stop, procedures, page>>

(* load_page: the text is parsed as a whole, with the arities known so     *)
(* far, and its nodes are run; the page gets its name when all were.       *)
Load ==
  /\ Calls("load")
  /\ LET name == Node1.parts[1].v
         program == ParseOf(disk[name], Arities)
     IN  IF name \notin DOMAIN disk THEN Ends
         ELSE CASE program.st = "ok" ->
                     Runs(program.n \o <<[k |-> "loaded", v |-> name]>> \o Tail(thread.nodes))
                [] program.st = "panic" -> thread' = Thread("dead", <<>>, <<>>)
                [] OTHER -> Ends
  /\ UNCHANGED <<ui, multi, busy, home, stop, procedures, page, disk>>

Loaded ==
  /\ Running /\ thread.nodes # <<>> /\ Node1.k = "loaded"
  /\ page' = Node1.v
  /\ Go
  /\ UNCHANGED <<ui, multi, busy, home, stop, procedures, disk>>

Evaluate ==
  \/ Begin \/ Stopped \/ Finish \/ Define \/ Other \/ Forever
  \/ NamePage \/ Erase \/ Save \/ Load \/ Loaded

SessionNext ==
  \/ \E line \in Lines : EnterLine(line)
  \/ RequestStop \/ Tick \/ Quit \/ Restart
  \/ Evaluate

SessionSpec == SessionInit /\ [][SessionNext]_sessionVars

----------------------------------------------------------------------------
(* What can go wrong.                                                      *)

(* What the prompt is gathering is always a text that check_input calls    *)
(* incomplete: a line that could not continue it never stays, and nothing  *)
(* runs meanwhile that would change how many inputs its words take.        *)
OpenWantsMore == multi # <<>> => Checked(Joined(multi)) = "more"

(* The prompt takes a command only when there is an evaluator to run it,   *)
(* and the evaluator accepts the text the App found complete.  After a     *)
(* panic there is none (neither busy nor home) and every later command is  *)
(* dropped in silence, though tick's comment says "recover".               *)
TakenIsRun ==
  ui = "up" =>
    /\ busy <=> thread.pc # "none"
    /\ ~(home /\ busy)
    /\ thread.pc = "given" => ParseOf(thread.text, Arities).st = "ok"
=============================================================================
