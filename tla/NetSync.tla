------------------------------- MODULE NetSync -------------------------------
(***************************************************************************)
(* Global variables shared between a host and its clients                  *)
(* (crates/bricklogo-net/src/host.rs, client.rs and Evaluator::set_global  *)
(* in crates/bricklogo-lang/src/evaluator.rs).                             *)
(*                                                                         *)
(* Every site has a map of global variables and a channel into which make  *)
(* puts what it changed.  The host runs one handler thread for each        *)
(* connection and one thread that broadcasts its own channel; a list of    *)
(* registered clients, each with a bounded channel to its handler, is      *)
(* where a Set is fanned out.  A client's thread applies what arrives and  *)
(* sends what its own channel holds; when the connection is lost it        *)
(* connects again, and the channel goes on filling meanwhile.  A program   *)
(* whose first join fails exits instead.                                   *)
(*                                                                         *)
(* Variables do not interact, so one is modelled: val is its value in each *)
(* site's map.  Passwords, the choice of encoding and other programs that  *)
(* speak the protocol are left out.  A client connects again 5 s after it  *)
(* lost a connection, when the host's handler, which reads with a timeout  *)
(* of 10 ms, has long ended.                                               *)
(***************************************************************************)
EXTENDS Integers, Sequences, FiniteSets

CONSTANTS
  Host, Clients,
  Workers,     (* the threads of a site that run Logo code                 *)
  Values, None,
  Cap,         (* CLIENT_CHANNEL_SIZE                                      *)
  MaxWrites,   (* bound: writes by make, over all sites                    *)
  MaxBreaks    (* bound: connections lost                                  *)

Sites == {Host} \cup Clients

ASSUME NetSyncAssumption ==
  /\ Host \notin Clients /\ None \notin Values
  /\ Cap \in Nat \ {0} /\ MaxWrites \in Nat /\ MaxBreaks \in Nat

Message == [type : {"hello", "hi", "sync", "snapshot", "set"}, val : Values \cup {None}]
Msg(type, v) == [type |-> type, val |-> v]

VARIABLES
  val,       (* global_vars of each site                                   *)
  writing,   (* writing[<<s, w>>]: written by w, not yet in s's channel     *)
  outbox,    (* outbox[s]: var_broadcast, the channel that make fills      *)
  client,    (* what the thread of each client does                        *)
  started,   (* the clients whose first join succeeded: they run Logo code *)
             (* and connect again                                          *)
  handler,   (* what the host's handler of each connection does            *)
  relay,     (* relay[c]: applied by c's handler and not yet fanned out    *)
  listed,    (* the clients in the host's list                             *)
  chan,      (* chan[c]: the bounded channel to c's handler                *)
  up, down,  (* the connection, to the host and to the client              *)
  writes, breaks,
  raced      (* history: a write overlapped another, or was made or left   *)
             (* unsent without a connection                                *)

vars == <<val, writing, outbox, client, started, handler, relay, listed, chan, up, down,
          writes, breaks, raced>>
net == <<up, down>>
history == <<writes, breaks, raced>>

TypeOK ==
  /\ val \in [Sites -> Values \cup {None}]
  /\ writing \in [Sites \X Workers -> Values \cup {None}]
  /\ outbox \in [Sites -> Seq(Values)]
  /\ client \in [Clients -> {"off", "hello", "sync", "on", "exited"}]
  /\ started \subseteq Clients
  /\ handler \in [Clients -> {"none", "hello", "greeted", "serve"}]
  /\ relay \in [Clients -> Values \cup {None}]
  /\ listed \subseteq Clients
  /\ chan \in [Clients -> Seq(Values)] /\ \A c \in Clients : Len(chan[c]) <= Cap
  /\ up \in [Clients -> Seq(Message)] /\ down \in [Clients -> Seq(Message)]
  /\ writes \in 0 .. MaxWrites /\ breaks \in 0 .. MaxBreaks
  /\ raced \in BOOLEAN

Init ==
  /\ val = [s \in Sites |-> None]
  /\ writing = [t \in Sites \X Workers |-> None]
  /\ outbox = [s \in Sites |-> <<>>]
  /\ client = [c \in Clients |-> "off"]
  /\ started = {}
  /\ handler = [c \in Clients |-> "none"]
  /\ relay = [c \in Clients |-> None]
  /\ listed = {}
  /\ chan = [c \in Clients |-> <<>>]
  /\ up = [c \in Clients |-> <<>>] /\ down = [c \in Clients |-> <<>>]
  /\ writes = 0 /\ breaks = 0 /\ raced = FALSE

Connected(s) == s = Host \/ client[s] = "on"

(* No connection of the client's is open.                                  *)
Gone(c) == client[c] \in {"off", "exited"}

(* A Set is on its way, or will be.                                        *)
Carries(link) == \E i \in 1 .. Len(link) : link[i].type = "set"
Settled ==
  /\ \A t \in Sites \X Workers : writing[t] = None
  /\ \A s \in Sites : outbox[s] = <<>>
  /\ \A c \in Clients : /\ relay[c] = None /\ chan[c] = <<>>
                        /\ ~Carries(up[c]) /\ ~Carries(down[c])

Unsent(s) == outbox[s] # <<>> \/ \E w \in Workers : writing[<<s, w>>] # None

----------------------------------------------------------------------------
(* Logo code.                                                              *)

(* make, in the REPL or script that a client starts when it has joined:    *)
(* the map is written under its lock, ...                                  *)
Write(s, w, v) ==
  /\ writes < MaxWrites /\ writing[<<s, w>>] = None
  /\ s = Host \/ s \in started
  /\ val[s] # v
  /\ val' = [val EXCEPT ![s] = v]
  /\ writing' = [writing EXCEPT ![<<s, w>>] = v]
  /\ writes' = writes + 1
  /\ raced' = (raced \/ ~Settled \/ ~Connected(s))
  /\ UNCHANGED <<started, outbox, client, handler, relay, listed, chan, net, breaks>>

(* ... and the channel filled after it is released.                        *)
Publish(s, w) ==
  /\ writing[<<s, w>>] # None
  /\ outbox' = [outbox EXCEPT ![s] = Append(@, writing[<<s, w>>])]
  /\ writing' = [writing EXCEPT ![<<s, w>>] = None]
  /\ UNCHANGED <<started, val, client, handler, relay, listed, chan, net, history>>

----------------------------------------------------------------------------
(* The host.                                                               *)

Full(c) == Len(chan[c]) >= Cap

(* Mutant of FanOut: the channels have no bound.                           *)
UnboundedFanOut(targets, v) ==
  /\ chan' = [c \in Clients |-> IF c \in targets \cap listed
                                THEN Append(chan[c], v) ELSE chan[c]]
  /\ UNCHANGED listed

(* broadcast_to_all and broadcast_to_others: a client whose channel is     *)
(* full is dropped from the list, and nobody tells it.                     *)
FanOut(targets, v) ==
  LET full == {c \in targets \cap listed : Full(c)}
  IN /\ listed' = listed \ full
     /\ chan' = [c \in Clients |-> IF c \in (targets \cap listed) \ full
                                   THEN Append(chan[c], v) ELSE chan[c]]

(* What is sent to a client that has gone is lost.                         *)
SendDown(c, m) ==
  down' = IF Gone(c) THEN down ELSE [down EXCEPT ![c] = Append(@, m)]

(* The broadcast thread.                                                   *)
Broadcast ==
  /\ outbox[Host] # <<>>
  /\ outbox' = [outbox EXCEPT ![Host] = Tail(@)]
  /\ FanOut(Clients, Head(outbox[Host]))
  /\ UNCHANGED <<started, val, writing, client, handler, relay, net, history>>

(* handle_client: hello is answered with hi ...                            *)
Greet(c) ==
  /\ handler[c] = "hello" /\ up[c] # <<>>
  /\ up' = [up EXCEPT ![c] = Tail(@)]
  /\ SendDown(c, Msg("hi", None))
  /\ handler' = [handler EXCEPT ![c] = "greeted"]
  /\ UNCHANGED <<started, val, writing, outbox, client, relay, listed, chan, history>>

(* ... and the client registered with a new channel.                       *)
Register(c) ==
  /\ handler[c] = "greeted"
  /\ listed' = listed \cup {c}
  /\ chan' = [chan EXCEPT ![c] = <<>>]
  /\ handler' = [handler EXCEPT ![c] = "serve"]
  /\ UNCHANGED <<started, val, writing, outbox, client, relay, net, history>>

Serving(c) == handler[c] = "serve" /\ relay[c] = None

(* sync is answered with the map; a Set that changes the map is applied,   *)
(* to be fanned out after the lock on the map is released.                 *)
HandlerRead(c) ==
  /\ Serving(c) /\ up[c] # <<>>
  /\ up' = [up EXCEPT ![c] = Tail(@)]
  /\ LET m == Head(up[c])
     IN \/ /\ m.type = "sync"
           /\ SendDown(c, Msg("snapshot", val[Host]))
           /\ UNCHANGED <<val, relay>>
        \/ /\ m.type = "set" /\ m.val # val[Host]
           /\ val' = [val EXCEPT ![Host] = m.val]
           /\ relay' = [relay EXCEPT ![c] = m.val]
           /\ UNCHANGED down
        \/ /\ m.type = "set" /\ m.val = val[Host]
           /\ UNCHANGED <<val, relay, down>>
  /\ UNCHANGED <<started, writing, outbox, client, handler, listed, chan, history>>

RelayToOthers(c) ==
  /\ relay[c] # None
  /\ FanOut(Clients \ {c}, relay[c])
  /\ relay' = [relay EXCEPT ![c] = None]
  /\ UNCHANGED <<started, val, writing, outbox, client, handler, net, history>>

(* The handler sends what its channel holds.                               *)
Deliver(c) ==
  /\ Serving(c) /\ chan[c] # <<>>
  /\ chan' = [chan EXCEPT ![c] = Tail(@)]
  /\ SendDown(c, Msg("set", Head(chan[c])))
  /\ UNCHANGED <<started, val, writing, outbox, client, handler, relay, listed, up, history>>

(* The connection is found closed: remove_client.                          *)
HandlerEnds(c) ==
  /\ Gone(c) /\ up[c] = <<>>
  /\ Serving(c) \/ handler[c] = "hello"
  /\ handler' = [handler EXCEPT ![c] = "none"]
  /\ listed' = listed \ {c}
  /\ chan' = [chan EXCEPT ![c] = <<>>]
  /\ UNCHANGED <<started, val, writing, outbox, client, relay, net, history>>

----------------------------------------------------------------------------
(* A client.                                                               *)

(* Mutant of GiveUp: a client that fails to connect again exits as well.   *)
ExitAnyway(c) == client' = [client EXCEPT ![c] = "exited"]

(* A connection or an attempt has failed: start_client's thread connects   *)
(* again, but the first attempt is made before that thread and the session *)
(* exist, and its failure ends the program.                                *)
GiveUp(c) == client' = [client EXCEPT ![c] = IF c \in started THEN "off" ELSE "exited"]

(* connect_and_sync begins: hello.                                         *)
Connect(c) ==
  /\ client[c] = "off" /\ handler[c] = "none"
  /\ client' = [client EXCEPT ![c] = "hello"]
  /\ handler' = [handler EXCEPT ![c] = "hello"]
  /\ up' = [up EXCEPT ![c] = <<Msg("hello", None)>>]
  /\ UNCHANGED <<started, val, writing, outbox, relay, listed, chan, down, history>>

(* hi is answered with sync.                                               *)
ReadHi(c) ==
  /\ client[c] = "hello" /\ down[c] # <<>>
  /\ down' = [down EXCEPT ![c] = Tail(@)]
  /\ up' = [up EXCEPT ![c] = Append(@, Msg("sync", None))]
  /\ client' = [client EXCEPT ![c] = "sync"]
  /\ UNCHANGED <<started, val, writing, outbox, handler, relay, listed, chan, history>>

(* Mutant of Apply: a variable the client has is left as it is.            *)
KeepLocal(c, v) == IF val[c] # None THEN val ELSE [val EXCEPT ![c] = v]

(* apply_snapshot: a variable the host does not have is left as it is.     *)
Apply(c, v) == IF v = None THEN val ELSE [val EXCEPT ![c] = v]

(* The snapshot is applied; anything else that comes first, as a Set fanned*)
(* out since the client was registered, ends the attempt.                  *)
ReadSnapshot(c) ==
  /\ client[c] = "sync" /\ down[c] # <<>>
  /\ LET m == Head(down[c])
     IN \/ /\ m.type = "snapshot"
           /\ val' = Apply(c, m.val)
           /\ client' = [client EXCEPT ![c] = "on"]
           /\ started' = started \cup {c}
           /\ down' = [down EXCEPT ![c] = Tail(@)]
        \/ /\ m.type # "snapshot"
           /\ GiveUp(c)
           /\ down' = [down EXCEPT ![c] = <<>>]
           /\ UNCHANGED <<val, started>>
  /\ UNCHANGED <<writing, outbox, handler, relay, listed, chan, up, history>>

(* Mutant of ReadSet: what arrives is written with set_global.             *)
ReadAndPublish(c) ==
  /\ client[c] = "on" /\ down[c] # <<>>
  /\ val' = Apply(c, Head(down[c]).val)
  /\ outbox' = IF val' # val THEN [outbox EXCEPT ![c] = Append(@, val'[c])] ELSE outbox
  /\ down' = [down EXCEPT ![c] = Tail(@)]
  /\ UNCHANGED <<started, writing, client, handler, relay, listed, chan, up, history>>

(* run_loop: a Set is applied, and not published again, ...                *)
ReadSet(c) ==
  /\ client[c] = "on" /\ down[c] # <<>>
  /\ val' = Apply(c, Head(down[c]).val)
  /\ down' = [down EXCEPT ![c] = Tail(@)]
  /\ UNCHANGED <<started, writing, outbox, client, handler, relay, listed, chan, up, history>>

(* ... and what the channel holds is sent.                                 *)
SendSet(c) ==
  /\ client[c] = "on" /\ outbox[c] # <<>>
  /\ up' = [up EXCEPT ![c] = Append(@, Msg("set", Head(outbox[c])))]
  /\ outbox' = [outbox EXCEPT ![c] = Tail(@)]
  /\ UNCHANGED <<started, val, writing, client, handler, relay, listed, chan, down, history>>

(* The connection is lost, with the end of what was on its way to the host *)
(* and everything on its way to the client; or, at a first join, the host  *)
(* is not reached at all.                                                  *)
Break(c) ==
  /\ ~Gone(c) \/ (client[c] = "off" /\ c \notin started)
  /\ breaks < MaxBreaks
  /\ GiveUp(c)
  /\ \E n \in 0 .. Len(up[c]) : up' = [up EXCEPT ![c] = SubSeq(@, 1, n)]
  /\ down' = [down EXCEPT ![c] = <<>>]
  /\ breaks' = breaks + 1
  /\ raced' = (raced \/ Unsent(c))
  /\ UNCHANGED <<started, val, writing, outbox, handler, relay, listed, chan, writes>>

----------------------------------------------------------------------------
HandlerStep(c) ==
  Greet(c) \/ Register(c) \/ HandlerRead(c) \/ RelayToOthers(c) \/ Deliver(c)
  \/ HandlerEnds(c)

ClientStep(c) == Connect(c) \/ ReadHi(c) \/ ReadSnapshot(c) \/ ReadSet(c) \/ SendSet(c)

Next ==
  \/ \E s \in Sites, w \in Workers : Publish(s, w) \/ \E v \in Values : Write(s, w, v)
  \/ Broadcast
  \/ \E c \in Clients : HandlerStep(c) \/ ClientStep(c) \/ Break(c)

Spec == Init /\ [][Next]_vars

(* Threads go on, messages of a connection that holds arrive; a loop reads *)
(* and sends in turn.                                                      *)
FairSpec ==
  /\ Spec
  /\ \A s \in Sites, w \in Workers : WF_vars(Publish(s, w))
  /\ WF_vars(Broadcast)
  /\ \A c \in Clients :
       /\ WF_vars(Greet(c) \/ Register(c)) /\ WF_vars(HandlerRead(c))
       /\ WF_vars(RelayToOthers(c)) /\ WF_vars(Deliver(c)) /\ WF_vars(HandlerEnds(c))
       /\ WF_vars(Connect(c) \/ ReadHi(c) \/ ReadSnapshot(c) \/ ReadSet(c))
       /\ WF_vars(SendSet(c))

----------------------------------------------------------------------------
(* Properties.                                                             *)

(* Writes that do not overlap reach everyone: when all is quiet, a client  *)
(* that is connected and listed agrees with the host, whatever connections *)
(* were lost and made again on the way.  (A host without a value, because  *)
(* a Set was lost with its connection, leaves the writer with its own.)    *)
SequentialWritesConverge ==
  ~raced /\ Settled =>
    \A c \in listed : client[c] = "on" => val[c] = val[Host] \/ val[Host] = None

(* A client that has joined once is connected again in the end, although  *)
(* each Set that comes before its snapshot sends it back to the start; one *)
(* that has not joins too, or exits, which takes a lost connection or a Set*)
(* that came before its first snapshot.                                    *)
EventuallyJoined ==
  \A c \in Clients :
    \/ <>[](client[c] = "on")
    \/ <>(client[c] = "exited" /\ c \notin started /\ writes + breaks > 0)

(* Sets die out: nothing is sent round and round between the sites.        *)
SetsDieOut == <>[]Settled
=============================================================================
