-------------------------------- MODULE ToyPad --------------------------------
(***************************************************************************)
(* The Dimensions ToyPad: the slot (crates/bricklogo-hal/src/adapters/     *)
(* toypad_adapter.rs) keeps a map of the tags on each pad.  The pad sends  *)
(* an event when a tag is placed or lifted, and answers commands, on one   *)
(* stream: at first the slot lists the tags, then reads the UID of each by *)
(* its index, and the identity of each tag it learns of.  The calls only   *)
(* set colours.                                                            *)
(*                                                                         *)
(* An identity is "own" if it was decoded from the tag's own page.  The    *)
(* ToyPad is external.                                                     *)
(***************************************************************************)
EXTENDS Integers, FiniteSets, Sequences, SequencesExt

CONSTANTS
  Ports,       (* the pads                                                 *)
  Modes,       (* the tags                                                 *)
  MaxLate,     (* bound on the commands queued when another is             *)
  MaxMishaps,  (* bound on what the environment does                       *)
  None

Tags    == Modes
Indices == 1 .. Cardinality(Tags)
Places  == [panel : Ports, index : Indices]
Command == [own : BOOLEAN]
(* A request, which stands for its id as well: fewer than 255 are under    *)
(* way, so an id finds the Pending it was given to.                        *)
Request == [for : {"list"}]
           \cup [for : {"uid"}, panel : Ports, index : Indices]
           \cup [for : {"identity"}, panel : Ports, tag : Tags, index : Indices]
Frame   == [kind : {"add", "remove"}, tag : Tags, panel : Ports, index : Indices]
           \cup [kind : {"list"}, places : SUBSET Places]
           \cup [kind : {"page"}, of : Request, tag : Tags \cup {None}]
Entry   == [index : Indices, identity : {"pending", "own", "wrong"}]

VARIABLES
  call,     (* phase                                                       *)
  open,     (* the adapter holds the slot's channel                        *)
  link,     (* the pad is plugged in                                       *)
  slot,     (* None, or whether it has asked for the list                  *)
  queue,    (* the channel                                                 *)
  cache,    (* shared: per pad and tag an entry, or None                   *)
  down, up, (* requests and frames under way                               *)
  hw,       (* per tag its place, or None                                  *)
  mishaps,
  ran,      (* history: the command issued last was written                *)
  raced     (* history: tags a read of a UID missed, or found on another   *)
            (* pad than the list had said                                  *)

vars == <<call, open, link, slot, queue, cache, down, up, hw, mishaps, ran, raced>>

TypeOK ==
  /\ call \in [phase : {"idle", "waiting", "ok", "failed"}]
  /\ open \in BOOLEAN /\ link \in BOOLEAN
  /\ slot \in [seeded : BOOLEAN] \cup {None}
  /\ queue \in Seq(Command) /\ cache \in [Ports -> [Tags -> Entry \cup {None}]]
  /\ down \in Seq(Request) /\ up \in Seq(Frame)
  /\ hw \in [Tags -> Places \cup {None}]
  /\ mishaps \in 0 .. MaxMishaps /\ ran \in BOOLEAN /\ raced \subseteq Tags

NoCall == [phase |-> "idle"]
Empty  == [p \in Ports |-> [t \in Tags |-> None]]
Over   == call.phase # "waiting"
Mishap == mishaps < MaxMishaps /\ mishaps' = mishaps + 1
Apart(f) == \A t, u \in Tags : (t # u /\ f[t] # None /\ f[u] # None) => f[t].index # f[u].index

Init ==
  /\ call = NoCall /\ open = FALSE /\ link = TRUE /\ slot = None /\ queue = <<>> /\ cache = Empty
  /\ down = <<>> /\ up = <<>>
  /\ hw \in {f \in [Tags -> Places \cup {None}] : Apart(f)}
  /\ mishaps = 0 /\ ran = FALSE /\ raced = {}

(* The wake sequence: from now on the pad sends events.                    *)
Connect ==
  /\ Over /\ ~open /\ link
  /\ open' = TRUE /\ slot' = [seeded |-> FALSE]
  /\ queue' = <<>> /\ down' = <<>> /\ up' = <<>> /\ cache' = Empty
  /\ call' = NoCall /\ ran' = FALSE /\ raced' = {}
  /\ UNCHANGED <<link, hw, mishaps>>
Disconnect ==
  /\ Over /\ open
  /\ open' = FALSE /\ slot' = None /\ queue' = <<>> /\ down' = <<>> /\ up' = <<>>
  /\ call' = NoCall /\ ran' = FALSE
  /\ UNCHANGED <<link, cache, hw, mishaps, raced>>

(* send_color_command, of set_rgb, fade_rgb and those of several pads.     *)
Issue ==
  /\ Over /\ open /\ Len(queue) <= MaxLate
  /\ call' = [phase |-> "waiting"] /\ ran' = FALSE
  /\ queue' = Append([i \in DOMAIN queue |-> [own |-> FALSE]], [own |-> TRUE])
  /\ UNCHANGED <<open, link, slot, cache, down, up, hw, mishaps, raced>>
TimeOut ==
  /\ call.phase = "waiting" /\ Mishap /\ call' = [phase |-> "failed"]
  /\ UNCHANGED <<open, link, slot, queue, cache, down, up, hw, ran, raced>>

----------------------------------------------------------------------------
(* The slot.                                                               *)

(* dispatch: whether the write succeeds is not looked at.                  *)
Dispatch(s) == down' = IF link THEN down \o s ELSE down

(* The first thing the first tick does.                                    *)
Seed ==
  /\ slot # None /\ ~slot.seeded
  /\ slot' = [seeded |-> TRUE] /\ Dispatch(<<[for |-> "list"]>>)
  /\ UNCHANGED <<call, open, link, queue, cache, up, hw, mishaps, ran, raced>>

Identify(p, t, i) == [for |-> "identity", panel |-> p, tag |-> t, index |-> i]
New(i) == [index |-> i, identity |-> "pending"]

(* Mutant of Removed: an entry whose identity is being read is kept.       *)
RemovedLate(f) == IF cache[f.panel][f.tag] # None /\ cache[f.panel][f.tag].identity = "pending"
                  THEN cache ELSE [cache EXCEPT ![f.panel][f.tag] = None]
Removed(f) == [cache EXCEPT ![f.panel][f.tag] = None]
(* handle_message: an event.                                               *)
TakeEvent ==
  /\ slot # None /\ slot.seeded /\ up # <<>> /\ Head(up).kind \in {"add", "remove"}
  /\ LET f == Head(up)
     IN \/ /\ f.kind = "add"
           /\ cache' = [cache EXCEPT ![f.panel][f.tag] = New(f.index)]
           /\ Dispatch(<<Identify(f.panel, f.tag, f.index)>>)
        \/ f.kind = "remove" /\ cache' = Removed(f) /\ UNCHANGED down
  /\ up' = Tail(up)
  /\ UNCHANGED <<call, open, link, slot, queue, hw, mishaps, ran, raced>>

(* handle_response.  An answer that tells of an error changes nothing.     *)
TakeResponse ==
  /\ slot # None /\ slot.seeded /\ up # <<>>
  /\ LET f == Head(up)
     IN \/ /\ f.kind = "list"
           /\ LET s == SetToSeq(f.places)
              IN Dispatch([i \in DOMAIN s |-> [for |-> "uid", panel |-> s[i].panel, index |-> s[i].index]])
           /\ UNCHANGED cache
        \/ /\ f.kind = "page" /\ f.tag = None /\ UNCHANGED <<cache, down>>
        \/ /\ f.kind = "page" /\ f.tag # None /\ f.of.for = "uid"
           /\ cache' = IF cache[f.of.panel][f.tag] # None THEN cache
                       ELSE [cache EXCEPT ![f.of.panel][f.tag] = New(f.of.index)]
           /\ Dispatch(<<Identify(f.of.panel, f.tag, f.of.index)>>)
        \/ /\ f.kind = "page" /\ f.tag # None /\ f.of.for = "identity"
           /\ LET e == cache[f.of.panel][f.of.tag]
              IN cache' = IF e # None /\ e.index = f.of.index
                          THEN [cache EXCEPT ![f.of.panel][f.of.tag].identity =
                                  IF f.tag = f.of.tag THEN "own" ELSE "wrong"]
                          ELSE cache
           /\ UNCHANGED down
  /\ up' = Tail(up)
  /\ UNCHANGED <<call, open, link, slot, queue, hw, mishaps, ran, raced>>

(* A colour; nothing is pending under its id.                              *)
Execute ==
  /\ slot # None /\ slot.seeded /\ queue # <<>>
  /\ queue' = Tail(queue)
  /\ LET own == Head(queue).own
     IN /\ ran' = (ran \/ (own /\ link))
        /\ call' = IF own /\ call.phase = "waiting" THEN [phase |-> IF link THEN "ok" ELSE "failed"] ELSE call
  /\ UNCHANGED <<open, link, slot, cache, down, up, hw, mishaps, raced>>

----------------------------------------------------------------------------
(* The pad.                                                                *)

At(i) == {t \in Tags : hw[t] # None /\ hw[t].index = i}
(* It answers in order.  A page is that of the tag at the index by now; to *)
(* read it may fail.                                                       *)
Answers ==
  /\ link /\ down # <<>>
  /\ down' = Tail(down)
  /\ LET r == Head(down)
     IN \/ /\ r.for = "list"
           /\ up' = Append(up, [kind |-> "list", places |-> {hw[t] : t \in Tags} \ {None}])
           /\ UNCHANGED <<mishaps, raced>>
        \/ /\ r.for # "list"
           /\ \E t \in IF At(r.index) = {} THEN {None} ELSE At(r.index) \cup {None} :
                /\ up' = Append(up, [kind |-> "page", of |-> r, tag |-> t])
                /\ IF t = None /\ At(r.index) # {} THEN Mishap ELSE UNCHANGED mishaps
                /\ raced' = raced \cup {u \in At(r.index) :
                              r.for = "uid" /\ (t = None \/ r.panel # hw[u].panel)}
  /\ UNCHANGED <<call, open, link, slot, queue, cache, hw, ran>>

Tell(f) == up' = IF open THEN Append(up, f) ELSE up
Place ==
  /\ link /\ Mishap
  /\ \E t \in Tags, l \in Places :
       /\ hw[t] = None /\ At(l.index) = {} /\ hw' = [hw EXCEPT ![t] = l]
       /\ Tell([kind |-> "add", tag |-> t, panel |-> l.panel, index |-> l.index])
  /\ UNCHANGED <<call, open, link, slot, queue, cache, down, ran, raced>>
Lift ==
  /\ link /\ Mishap
  /\ \E t \in Tags :
       /\ hw[t] # None /\ hw' = [hw EXCEPT ![t] = None]
       /\ Tell([kind |-> "remove", tag |-> t, panel |-> hw[t].panel, index |-> hw[t].index])
  /\ UNCHANGED <<call, open, link, slot, queue, cache, down, ran, raced>>

LinkDrops ==
  /\ link /\ Mishap /\ link' = FALSE /\ down' = <<>> /\ up' = <<>>
  /\ UNCHANGED <<call, open, slot, queue, cache, hw, ran, raced>>
LinkReturns ==
  /\ ~link /\ ~open /\ link' = TRUE
  /\ UNCHANGED <<call, open, slot, queue, cache, down, up, hw, mishaps, ran, raced>>

Tick == Seed \/ TakeEvent \/ TakeResponse \/ Execute
Next == \/ Connect \/ Disconnect \/ Issue \/ TimeOut \/ Tick \/ Answers \/ Place \/ Lift
        \/ LinkDrops \/ LinkReturns

----------------------------------------------------------------------------
(* Once nothing is under way, a pad's entries are the tags on it, each     *)
(* with an identity of its own or none, however tags and indices were      *)
(* exchanged meanwhile; but for a tag whose UID could not be read, or that *)
(* was found on another pad than the list had said                         *)
(* (toypad_adapter.rs:170).                                                *)
CacheFollowsHub ==
  (open /\ link /\ slot.seeded /\ down = <<>> /\ up = <<>>) =>
     \A p \in Ports, t \in Tags \ raced :
       /\ cache[p][t] # None <=> (hw[t] # None /\ hw[t].panel = p)
       /\ cache[p][t] # None => cache[p][t].identity # "wrong"

(* The call waits for a pad that is gone.                                  *)
Stranded == call.phase = "waiting" /\ ~link
=============================================================================
