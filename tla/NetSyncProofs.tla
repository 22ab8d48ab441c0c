---------------------------- MODULE NetSyncProofs ----------------------------
(***************************************************************************)
(* Proofs about NetSync for every set of clients, workers and values and   *)
(* every capacity.                                                         *)
(*                                                                         *)
(* TypeOK, with the bound of the clients' channels, is inductive.  Two     *)
(* more facts of the host's bookkeeping follow: a client is listed only    *)
(* while a handler serves it, so that no Set waits in a channel nobody     *)
(* reads; and a handler that relays a Set is one that serves.              *)
(*                                                                         *)
(* That writes converge takes more: what each phase of a connection holds, *)
(* that every Set on its way is of one value while writes do not overlap,  *)
(* and that a client that differs from the host has a Set coming or going. *)
(***************************************************************************)
EXTENDS NetSync, TLAPS

(* What the host's list and channels are used for while a handler serves.  *)
ServedOnly ==
  \A c \in Clients : handler[c] # "serve" =>
    c \notin listed /\ chan[c] = <<>> /\ relay[c] = None

Inv == TypeOK /\ ServedOnly

(* What a sequence takes and gives is of its own kind.                     *)
LEMMA SeqFacts ==
  ASSUME NEW S, NEW s \in Seq(S)
  PROVE  /\ Len(s) \in Nat
         /\ \A x \in S : Append(s, x) \in Seq(S) /\ Len(Append(s, x)) = Len(s) + 1
         /\ s # <<>> => Head(s) \in S /\ Tail(s) \in Seq(S) /\ Len(Tail(s)) = Len(s) - 1
         /\ \A n \in 0 .. Len(s) : SubSeq(s, 1, n) \in Seq(S)
  OBVIOUS

(* Messages and their values are well typed.                               *)
LEMMA Messages ==
  /\ \A t \in {"hello", "hi", "sync", "snapshot", "set"}, v \in Values \cup {None} :
       Msg(t, v) \in Message
  /\ \A m \in Message : m.val \in Values \cup {None}
  BY DEF Msg, Message

(* A full channel takes nothing, so that none holds more than it can.      *)
LEMMA FanOutKeeps ==
  ASSUME Inv, NEW T \in SUBSET Clients, NEW v \in Values, FanOut(T, v),
         UNCHANGED handler, \A c \in Clients : relay'[c] \in {relay[c], None}
  PROVE  /\ listed' \subseteq listed
         /\ chan' \in [Clients -> Seq(Values)] /\ \A c \in Clients : Len(chan'[c]) <= Cap
         /\ ServedOnly'
  <1> DEFINE full == {c \in T \cap listed : Full(c)}
  <1>1. /\ listed' = listed \ full
        /\ chan' = [c \in Clients |-> IF c \in (T \cap listed) \ full
                                      THEN Append(chan[c], v) ELSE chan[c]]
    BY DEF FanOut
  <1>2. chan \in [Clients -> Seq(Values)] /\ \A c \in Clients : Len(chan[c]) <= Cap
    BY DEF Inv, TypeOK
  <1>3. ASSUME NEW c \in Clients
        PROVE  chan'[c] \in Seq(Values) /\ Len(chan'[c]) <= Cap
    <2>1. CASE c \in (T \cap listed) \ full
      <3>1. ~(Len(chan[c]) >= Cap) /\ chan'[c] = Append(chan[c], v)
        BY <1>1, <2>1 DEF Full
      <3> QED
        BY <3>1, <1>2, SeqFacts, NetSyncAssumption
    <2>2. CASE c \notin (T \cap listed) \ full
      BY <1>1, <1>2, <2>2
    <2> QED
      BY <2>1, <2>2
  <1>4. \A c \in Clients : c \notin listed => chan'[c] = chan[c]
    BY <1>1
  <1>5. ServedOnly'
    BY <1>1, <1>4 DEF Inv, ServedOnly
  <1> QED
    BY <1>1, <1>3, <1>5

(* What is sent to a client is a message.                                  *)
LEMMA SendDownKeeps ==
  ASSUME TypeOK, NEW c \in Clients, NEW m \in Message, SendDown(c, m)
  PROVE  down' \in [Clients -> Seq(Message)]
  <1>1. Append(down[c], m) \in Seq(Message)
    BY DEF TypeOK
  <1> QED
    BY <1>1 DEF TypeOK, SendDown

(* Logo code changes its own site only.                                    *)
LEMMA WriterKeeps ==
  ASSUME Inv, NEW s \in Sites, NEW w \in Workers,
         Publish(s, w) \/ \E v \in Values : Write(s, w, v)
  PROVE  Inv'
  <1>1. ASSUME NEW v \in Values, Write(s, w, v) PROVE Inv'
    <2>1. writes' \in 0 .. MaxWrites
      BY <1>1, NetSyncAssumption DEF Write, Inv, TypeOK
    <2>2. raced' \in BOOLEAN
      BY <1>1 DEF Write
    <2> QED
      BY <1>1, <2>1, <2>2 DEF Write, Inv, TypeOK, ServedOnly, net
  <1>2. CASE Publish(s, w)
    <2>1. writing[<<s, w>>] \in Values
      BY <1>2 DEF Publish, Inv, TypeOK
    <2>2. Append(outbox[s], writing[<<s, w>>]) \in Seq(Values)
      BY <2>1 DEF Inv, TypeOK
    <2> QED
      BY <1>2, <2>2 DEF Publish, Inv, TypeOK, ServedOnly, net, history
  <1> QED
    BY <1>1, <1>2

(* The broadcast thread puts values in the clients' channels.              *)
LEMMA BroadcastKeeps ==
  ASSUME Inv, Broadcast
  PROVE  Inv'
  <1>1. /\ Host \in Sites /\ outbox[Host] # <<>> /\ outbox[Host] \in Seq(Values)
        /\ FanOut(Clients, Head(outbox[Host])) /\ outbox' = [outbox EXCEPT ![Host] = Tail(@)]
        /\ UNCHANGED <<started, val, writing, client, handler, relay, net, history>>
    BY DEF Broadcast, Inv, TypeOK, Sites
  <1>2. Head(outbox[Host]) \in Values /\ Tail(outbox[Host]) \in Seq(Values)
    BY <1>1
  <1>3. /\ listed' \subseteq listed /\ ServedOnly'
        /\ chan' \in [Clients -> Seq(Values)] /\ \A c \in Clients : Len(chan'[c]) <= Cap
    BY <1>1, <1>2, FanOutKeeps
  <1>4. outbox' \in [Sites -> Seq(Values)]
    BY <1>1, <1>2 DEF Inv, TypeOK
  <1> QED
    BY <1>1, <1>3, <1>4 DEF Inv, TypeOK, net, history

(* A handler uses its channel while it serves.                             *)
LEMMA HandlerKeeps ==
  ASSUME Inv, NEW c \in Clients, HandlerStep(c)
  PROVE  Inv'
  <1>1. /\ up[c] \in Seq(Message) /\ chan[c] \in Seq(Values) /\ Len(chan[c]) \in Nat
        /\ chan[c] # <<>> => Head(chan[c]) \in Values /\ Tail(chan[c]) \in Seq(Values)
                             /\ Len(Tail(chan[c])) = Len(chan[c]) - 1
    <2>1. up[c] \in Seq(Message) /\ chan[c] \in Seq(Values)
      BY DEF Inv, TypeOK
    <2> QED
      BY <2>1, SeqFacts
  <1>2. up[c] # <<>> => Head(up[c]) \in Message /\ Tail(up[c]) \in Seq(Message)
    BY <1>1
  <1>3. CASE Greet(c)
    <2>1. down' \in [Clients -> Seq(Message)]
      BY <1>3, Messages, SendDownKeeps DEF Greet, Inv
    <2> QED
      BY <1>2, <1>3, <2>1 DEF Greet, Inv, TypeOK, ServedOnly, history
  <1>4. CASE Register(c)
    BY <1>4, NetSyncAssumption DEF Register, Inv, TypeOK, ServedOnly, net, history
  <1>5. CASE HandlerRead(c)
    <2>1. down' \in [Clients -> Seq(Message)]
      <3>1. val[Host] \in Values \cup {None}
        BY DEF Inv, TypeOK, Sites
      <3> QED
        BY <1>5, <3>1, Messages, SendDownKeeps DEF HandlerRead, Inv, TypeOK
    <2>2. val' \in [Sites -> Values \cup {None}] /\ relay' \in [Clients -> Values \cup {None}]
      BY <1>2, <1>5, Messages DEF HandlerRead, Inv, TypeOK
    <2>3. handler[c] = "serve" /\ \A d \in Clients : d # c => relay'[d] = relay[d]
      BY <1>5 DEF HandlerRead, Serving, Inv, TypeOK
    <2> QED
      BY <1>2, <1>5, <2>1, <2>2, <2>3 DEF HandlerRead, Inv, TypeOK, ServedOnly, history
  <1>6. CASE RelayToOthers(c)
    <2>1. relay[c] \in Values /\ FanOut(Clients \ {c}, relay[c])
          /\ relay' = [relay EXCEPT ![c] = None]
          /\ UNCHANGED <<started, val, writing, outbox, client, handler, net, history>>
      BY <1>6 DEF RelayToOthers, Inv, TypeOK
    <2>2. relay' \in [Clients -> Values \cup {None}]
          /\ \A d \in Clients : relay'[d] \in {relay[d], None}
      BY <2>1 DEF Inv, TypeOK
    <2>3. /\ listed' \subseteq listed /\ ServedOnly'
          /\ chan' \in [Clients -> Seq(Values)] /\ \A d \in Clients : Len(chan'[d]) <= Cap
      BY <2>1, <2>2, FanOutKeeps
    <2> QED
      BY <2>1, <2>2, <2>3 DEF Inv, TypeOK, net, history
  <1>7. CASE Deliver(c)
    <2>1. down' \in [Clients -> Seq(Message)]
      BY <1>1, <1>7, Messages, SendDownKeeps DEF Deliver, Inv
    <2>2. /\ chan' \in [Clients -> Seq(Values)] /\ \A d \in Clients : Len(chan'[d]) <= Cap
          /\ handler[c] = "serve" /\ \A d \in Clients : d # c => chan'[d] = chan[d]
      <3>1. Tail(chan[c]) \in Seq(Values) /\ Len(Tail(chan[c])) = Len(chan[c]) - 1
        BY <1>1, <1>7 DEF Deliver
      <3> QED
        BY <1>1, <1>7, <3>1, NetSyncAssumption DEF Deliver, Serving, Inv, TypeOK
    <2> QED
      BY <1>7, <2>1, <2>2 DEF Deliver, Inv, TypeOK, ServedOnly, history
  <1>8. CASE HandlerEnds(c)
    <2>1. relay[c] = None
      BY <1>8 DEF HandlerEnds, Serving, Inv, ServedOnly
    <2> QED
      BY <1>8, <2>1, NetSyncAssumption DEF HandlerEnds, Inv, TypeOK, ServedOnly, net, history
  <1> QED
    BY <1>3, <1>4, <1>5, <1>6, <1>7, <1>8 DEF HandlerStep

(* A client changes its own map and its side of the connection.            *)
LEMMA ClientKeeps ==
  ASSUME Inv, NEW c \in Clients, ClientStep(c) \/ Break(c)
  PROVE  Inv'
  <1>1. up[c] \in Seq(Message) /\ down[c] \in Seq(Message) /\ c \in Sites
        /\ outbox[c] \in Seq(Values)
    BY DEF Inv, TypeOK, Sites
  <1>2. /\ down[c] # <<>> => Head(down[c]) \in Message /\ Tail(down[c]) \in Seq(Message)
        /\ outbox[c] # <<>> => Head(outbox[c]) \in Values /\ Tail(outbox[c]) \in Seq(Values)
        /\ \A m \in Message : Append(up[c], m) \in Seq(Message)
        /\ \A n \in 0 .. Len(up[c]) : SubSeq(up[c], 1, n) \in Seq(Message)
    BY <1>1, SeqFacts
  <1>3. CASE Connect(c)
    <2>1. <<Msg("hello", None)>> \in Seq(Message)
      BY Messages
    <2> QED
      BY <1>3, <2>1 DEF Connect, Inv, TypeOK, ServedOnly, history
  <1>4. CASE ReadHi(c)
    BY <1>2, <1>4, Messages DEF ReadHi, Inv, TypeOK, ServedOnly, history
  <1>5. CASE ReadSnapshot(c)
    <2>1. val' \in [Sites -> Values \cup {None}]
      BY <1>2, <1>5, Messages DEF ReadSnapshot, Apply, Inv, TypeOK
    <2>2. down' \in [Clients -> Seq(Message)]
      <3>1. <<>> \in Seq(Message)
        OBVIOUS
      <3> QED
        BY <1>2, <1>5, <3>1 DEF ReadSnapshot, Inv, TypeOK
    <2> QED
      BY <1>5, <2>1, <2>2 DEF ReadSnapshot, Inv, TypeOK, ServedOnly, history, GiveUp, Gone
  <1>6. CASE ReadSet(c)
    <2>1. val' \in [Sites -> Values \cup {None}]
      BY <1>2, <1>6, Messages DEF ReadSet, Apply, Inv, TypeOK
    <2> QED
      BY <1>2, <1>6, <2>1 DEF ReadSet, Inv, TypeOK, ServedOnly, history
  <1>7. CASE SendSet(c)
    BY <1>1, <1>2, <1>7, Messages DEF SendSet, Inv, TypeOK, ServedOnly, history
  <1>8. CASE Break(c)
    <2>1. breaks' \in 0 .. MaxBreaks
      BY <1>8, NetSyncAssumption DEF Break, Inv, TypeOK
    <2>2. raced' \in BOOLEAN
      BY <1>8 DEF Break
    <2>3. up' \in [Clients -> Seq(Message)]
      BY <1>2, <1>8 DEF Break, Inv, TypeOK
    <2> QED
      BY <1>8, <2>1, <2>2, <2>3 DEF Break, Inv, TypeOK, ServedOnly, GiveUp, Gone
  <1> QED
    BY <1>3, <1>4, <1>5, <1>6, <1>7, <1>8 DEF ClientStep

(* The invariant holds initially.                                          *)
LEMMA Initially == Init => Inv
  <1> SUFFICES ASSUME Init PROVE Inv
    OBVIOUS
  <1>1. \A S : <<>> \in Seq(S) /\ Len(<<>>) = 0
    OBVIOUS
  <1>2. /\ val \in [Sites -> Values \cup {None}]
        /\ writing \in [Sites \X Workers -> Values \cup {None}]
        /\ client \in [Clients -> {"off", "hello", "sync", "on", "exited"}] /\ started = {}
        /\ handler \in [Clients -> {"none", "hello", "greeted", "serve"}]
        /\ relay \in [Clients -> Values \cup {None}] /\ listed = {} /\ raced \in BOOLEAN
    BY DEF Init
  <1>3. /\ outbox \in [Sites -> Seq(Values)] /\ chan \in [Clients -> Seq(Values)]
        /\ up \in [Clients -> Seq(Message)] /\ down \in [Clients -> Seq(Message)]
    BY <1>1 DEF Init
  <1>4. \A c \in Clients : Len(chan[c]) <= Cap
    BY <1>1, NetSyncAssumption DEF Init
  <1>5. writes \in 0 .. MaxWrites /\ breaks \in 0 .. MaxBreaks
    BY NetSyncAssumption DEF Init
  <1>6. ServedOnly
    BY DEF Init, ServedOnly
  <1> QED
    BY <1>2, <1>3, <1>4, <1>5, <1>6 DEF Inv, TypeOK

(* Every step keeps it.                                                    *)
LEMMA InvNext == Inv /\ [Next]_vars => Inv'
  <1> SUFFICES ASSUME Inv, [Next]_vars PROVE Inv'
    OBVIOUS
  <1>1. CASE UNCHANGED vars
    BY <1>1 DEF vars, net, history, Inv, TypeOK, ServedOnly
  <1> QED
    BY <1>1, WriterKeeps, BroadcastKeeps, HandlerKeeps, ClientKeeps DEF Next

----------------------------------------------------------------------------
(* Whatever connects, breaks and is written at once, the maps, the         *)
(* connections and the list have their types, and no client's channel      *)
(* holds more than CLIENT_CHANNEL_SIZE.                                    *)
THEOREM TypeCorrect == Spec => []TypeOK
  <1>1. Inv => TypeOK
    BY DEF Inv
  <1> QED
    BY <1>1, Initially, InvNext, PTL DEF Spec

(* The host's list names only clients that a handler serves, and no Set    *)
(* waits in a channel, or for its relay, without one.                      *)
THEOREM ListedAreServed == Spec => []ServedOnly
  <1>1. Inv => ServedOnly
    BY DEF Inv
  <1> QED
    BY <1>1, Initially, InvNext, PTL DEF Spec

----------------------------------------------------------------------------
(* Why writes that do not overlap converge.                                *)

(* The messages that are Sets, and those that are no Set but of x.         *)
Sets == {m \in Message : m.type = "set" /\ m.val # None}
Bearing(x) == {m \in Message : m.type = "set" => m.val = x /\ x # None}

(* What a connection holds in each phase of joining: hello, hi, sync, the  *)
(* snapshot, and then Sets; the other Sets come after hi.                  *)
Joining(c) ==
  /\ Gone(c) => down[c] = <<>>
  /\ client[c] = "hello" =>
       \/ handler[c] = "hello" /\ up[c] = <<Msg("hello", None)>> /\ down[c] = <<>>
       \/ /\ handler[c] \in {"greeted", "serve"} /\ up[c] = <<>>
          /\ down[c] # <<>> /\ Tail(down[c]) \in Seq(Sets)
  /\ client[c] = "sync" =>
       \/ /\ handler[c] \in {"greeted", "serve"} /\ up[c] = <<Msg("sync", None)>>
          /\ down[c] \in Seq(Sets)
       \/ /\ handler[c] = "serve" /\ up[c] = <<>>
          /\ \E n \in 1 .. Len(down[c]) :
               /\ down[c][n].type = "snapshot"
               /\ \A i \in 1 .. Len(down[c]) : i # n => down[c][i] \in Sets
  /\ client[c] = "on" =>
       handler[c] = "serve" /\ up[c] \in Seq(Sets) /\ down[c] \in Seq(Sets)

(* Every Set on its way is of x; every Set on its way from the host is.    *)
FromHost(x) ==
  /\ \A w \in Workers : writing[<<Host, w>>] \in {x, None}
  /\ outbox[Host] \in Seq({x})
  /\ \A c \in Clients : /\ relay[c] \in {x, None} /\ chan[c] \in Seq({x})
                        /\ down[c] \in Seq(Bearing(x))
FromClient(c, x) ==
  /\ \A w \in Workers : writing[<<c, w>>] \in {x, None}
  /\ outbox[c] \in Seq({x}) /\ up[c] \in Seq(Bearing(x))
OneValue == \E x \in Values \cup {None} : FromHost(x) /\ \A c \in Clients : FromClient(c, x)

(* A Set is on its way to client c, or from it.                            *)
Coming(c) ==
  \/ Unsent(Host)
  \/ \E d \in Clients \ {c} : relay[d] # None
  \/ chan[c] # <<>> \/ Carries(down[c])
Going(c) == Unsent(c) \/ Carries(up[c])

Agreeing(c) ==
  /\ client[c] # "on" => ~Unsent(c)
  /\ client[c] = "on" => FromClient(c, val[c])
  /\ client[c] = "on" /\ c \in listed =>
       val[Host] = None \/ val[c] = val[Host] \/ Coming(c) \/ Going(c)
  /\ client[c] = "sync" /\ c \in listed =>
       \A i \in 1 .. Len(down[c]) :
         down[c][i].type = "snapshot" => down[c][i].val = val[Host] \/ Coming(c)

Sequential ==
  ~raced => OneValue /\ FromHost(val[Host]) /\ \A c \in Clients : Agreeing(c)

SyncInv == (\A c \in Clients : Joining(c)) /\ Sequential

----------------------------------------------------------------------------
(* A sequence is one of whatever its elements are.                         *)
LEMMA SeqOfElements ==
  ASSUME NEW S, NEW T, NEW l \in Seq(S), \A i \in 1 .. Len(l) : l[i] \in T
  PROVE  l \in Seq(T)
  OBVIOUS

(* The elements of a sequence, of a longer one and of its tail.            *)
LEMMA Elements ==
  ASSUME NEW S, NEW l \in Seq(S)
  PROVE  /\ Len(l) \in Nat /\ \A i \in 1 .. Len(l) : l[i] \in S
         /\ \A m \in S : /\ Append(l, m) \in Seq(S) /\ Append(l, m) # <<>>
                         /\ Len(Append(l, m)) = Len(l) + 1
                         /\ Append(l, m)[Len(l) + 1] = m
                         /\ \A i \in 1 .. Len(l) : Append(l, m)[i] = l[i]
         /\ l # <<>> => /\ Head(l) = l[1] /\ 1 \in 1 .. Len(l) /\ Head(l) \in S
                        /\ Tail(l) \in Seq(S) /\ Len(Tail(l)) = Len(l) - 1
                        /\ \A i \in 1 .. Len(l) - 1 : Tail(l)[i] = l[i + 1]
  <1>1. Len(l) \in Nat /\ \A i \in 1 .. Len(l) : l[i] \in S
    OBVIOUS
  <1>2. ASSUME NEW m \in S
        PROVE  /\ Append(l, m) \in Seq(S) /\ Append(l, m) # <<>>
               /\ Len(Append(l, m)) = Len(l) + 1 /\ Append(l, m)[Len(l) + 1] = m
               /\ \A i \in 1 .. Len(l) : Append(l, m)[i] = l[i]
    OBVIOUS
  <1>3. ASSUME l # <<>>
        PROVE  /\ Head(l) = l[1] /\ 1 \in 1 .. Len(l) /\ Head(l) \in S
               /\ Tail(l) \in Seq(S) /\ Len(Tail(l)) = Len(l) - 1
               /\ \A i \in 1 .. Len(l) - 1 : Tail(l)[i] = l[i + 1]
    BY <1>3
  <1> QED
    BY <1>1, <1>2, <1>3

(* The empty sequence is one of anything.                                  *)
LEMMA Nothing ==
  ASSUME NEW S
  PROVE  <<>> \in Seq(S) /\ ~Carries(<<>>)
  BY DEF Carries

(* A link that carries no Set bears any value.                             *)
LEMMA CarriesNone ==
  ASSUME NEW l \in Seq(Message), ~Carries(l), NEW x
  PROVE  l \in Seq(Bearing(x))
  <1>1. \A i \in 1 .. Len(l) : l[i] \in Bearing(x)
    BY Elements DEF Carries, Bearing
  <1> QED
    BY <1>1, SeqOfElements

(* What a link carries with one more message, or without its first.        *)
LEMMA CarriesMore ==
  ASSUME NEW l \in Seq(Message), NEW m \in Message
  PROVE  /\ m.type = "set" \/ Carries(l) => Carries(Append(l, m))
         /\ l # <<>> /\ Carries(l) /\ Head(l).type # "set" => Carries(Tail(l))
  <1>1. m.type = "set" => Carries(Append(l, m))
    <2>1. Len(l) + 1 \in 1 .. Len(Append(l, m))
      BY Elements
    <2> QED
      BY <2>1, Elements DEF Carries
  <1>2. Carries(l) => Carries(Append(l, m))
    <2>1. \A i \in 1 .. Len(l) : i \in 1 .. Len(Append(l, m))
      BY Elements
    <2> QED
      BY <2>1, Elements DEF Carries
  <1>3. ASSUME l # <<>>, Carries(l), Head(l).type # "set" PROVE Carries(Tail(l))
    <2>1. PICK i \in 1 .. Len(l) : l[i].type = "set"
      BY <1>3 DEF Carries
    <2>2. i # 1
      BY <1>3, <2>1, Elements
    <2>3. i - 1 \in 1 .. Len(l) - 1 /\ (i - 1) + 1 = i
      BY <2>2, Elements
    <2>4. Len(Tail(l)) = Len(l) - 1 /\ Tail(l)[i - 1] = l[(i - 1) + 1]
      BY <1>3, <2>3, Elements
    <2>5. i - 1 \in 1 .. Len(Tail(l)) /\ Tail(l)[i - 1].type = "set"
      BY <2>1, <2>3, <2>4
    <2> QED
      BY <2>5 DEF Carries
  <1> QED
    BY <1>1, <1>2, <1>3

(* Sets are messages, and no other message bears a value.                  *)
LEMMA MessageFacts ==
  /\ \A v \in Values : Msg("set", v) \in Sets /\ Msg("set", v) \in Bearing(v)
                       /\ Msg("set", v).type = "set" /\ Msg("set", v).val = v
  /\ \A t \in {"hello", "hi", "sync", "snapshot"}, v \in Values \cup {None} : \A x :
       Msg(t, v) \in Bearing(x) /\ Msg(t, v).type = t /\ Msg(t, v).val = v
  /\ \A m \in Sets : m \in Message /\ m.type = "set" /\ m.val \in Values
  <1>1. \A v \in Values : v # None
    BY NetSyncAssumption
  <1> QED
    BY <1>1 DEF Msg, Message, Sets, Bearing

(* What a step that leaves a client's side alone need keep for it.         *)
LEMMA AgreeingFrame ==
  ASSUME NEW c \in Clients, Agreeing(c),
         client'[c] = client[c], val'[c] = val[c], up'[c] = up[c], down'[c] = down[c],
         outbox'[c] = outbox[c], \A w \in Workers : writing'[<<c, w>>] = writing[<<c, w>>],
         c \in listed' => /\ c \in listed /\ (Coming(c) => Coming(c)')
                          /\ val'[Host] = val[Host] \/ Coming(c)'
  PROVE  Agreeing(c)'
  <1>1. Unsent(c)' <=> Unsent(c)
    BY DEF Unsent
  <1>2. Going(c)' <=> Going(c)
    BY <1>1 DEF Going
  <1>3. FromClient(c, val[c]) => FromClient(c, val[c])'
    BY DEF FromClient
  <1> QED
    BY <1>1, <1>2, <1>3 DEF Agreeing

(* A step that changes neither the host's map nor the values on their way. *)
LEMMA SequentialFrame ==
  ASSUME Inv, Sequential, raced => raced', val'[Host] = val[Host],
         ~raced' => \A x \in Values \cup {None} :
           /\ FromHost(x) => FromHost(x)'
           /\ \A c \in Clients : FromClient(c, x) => FromClient(c, x)',
         ~raced' => \A c \in Clients : Agreeing(c)'
  PROVE  Sequential'
  <1> SUFFICES ASSUME ~raced'
               PROVE  OneValue' /\ FromHost(val[Host])' /\ \A c \in Clients : Agreeing(c)'
    BY DEF Sequential
  <1>1. OneValue /\ FromHost(val[Host])
    BY DEF Sequential
  <1>2. val[Host] \in Values \cup {None}
    BY DEF Inv, TypeOK, Sites
  <1>3. PICK x \in Values \cup {None} : FromHost(x) /\ \A c \in Clients : FromClient(c, x)
    BY <1>1 DEF OneValue
  <1>4. OneValue'
    BY <1>3 DEF OneValue
  <1> QED
    BY <1>1, <1>2, <1>4

(* Nothing of the connection of a client changed.                          *)
LEMMA JoiningFrame ==
  ASSUME NEW c \in Clients, Joining(c), client'[c] = client[c], handler'[c] = handler[c],
         up'[c] = up[c], down'[c] = down[c]
  PROVE  Joining(c)'
  BY DEF Joining, Gone

(* make: nothing else was on its way.                                      *)
LEMMA WriteSyncs ==
  ASSUME Inv, SyncInv, NEW s \in Sites, NEW w \in Workers, NEW v \in Values, Write(s, w, v)
  PROVE  SyncInv'
  <1>1. /\ UNCHANGED <<outbox, client, handler, relay, listed, chan, up, down>>
        /\ val' = [val EXCEPT ![s] = v] /\ writing' = [writing EXCEPT ![<<s, w>>] = v]
        /\ raced' = (raced \/ ~Settled \/ ~Connected(s))
    BY DEF Write, net
  <1>2. \A c \in Clients : Joining(c)'
    BY <1>1, JoiningFrame DEF SyncInv
  <1>3. ASSUME ~raced' PROVE OneValue' /\ FromHost(val[Host])' /\ \A c \in Clients : Agreeing(c)'
    <2>1. ~raced /\ Settled /\ Connected(s)
      BY <1>1, <1>3
    <2>2. FromHost(val[Host]) /\ \A c \in Clients : Agreeing(c)
      BY <2>1 DEF SyncInv, Sequential
    <2>3. /\ Host \in Sites /\ \A c \in Clients : c \in Sites /\ c # Host
          /\ v # None
      BY NetSyncAssumption DEF Sites
    <2>4. /\ writing'[<<s, w>>] = v
          /\ \A t \in Sites, u \in Workers :
               writing'[<<t, u>>] = IF t = s /\ u = w THEN v ELSE writing[<<t, u>>]
      BY <1>1 DEF Inv, TypeOK
    <2>5. \A t \in Sites, u \in Workers : writing[<<t, u>>] = None
      BY <2>1 DEF Settled
    <2>6. /\ \A t \in Sites : outbox[t] = <<>>
          /\ \A c \in Clients : /\ relay[c] = None /\ chan[c] = <<>>
                                /\ ~Carries(up[c]) /\ ~Carries(down[c])
      BY <2>1 DEF Settled
    <2>7. /\ val \in [Sites -> Values \cup {None}]
          /\ \A c \in Clients : up[c] \in Seq(Message) /\ down[c] \in Seq(Message)
      BY DEF Inv, TypeOK
    <2>8. FromHost(v)' /\ \A c \in Clients : FromClient(c, v)'
      <3>1. \A c \in Clients : up[c] \in Seq(Bearing(v)) /\ down[c] \in Seq(Bearing(v))
        BY <2>6, <2>7, CarriesNone
      <3>2. <<>> \in Seq({v})
        BY Nothing
      <3>3. \A t \in Sites, u \in Workers : writing'[<<t, u>>] \in {v, None}
        BY <2>4, <2>5
      <3>4. FromHost(v)'
        BY <1>1, <2>3, <2>6, <3>1, <3>2, <3>3 DEF FromHost
      <3>5. ASSUME NEW c \in Clients PROVE FromClient(c, v)'
        BY <1>1, <2>3, <2>6, <3>1, <3>2, <3>3 DEF FromClient
      <3> QED
        BY <3>4, <3>5
    <2>9. OneValue'
      BY <2>8 DEF OneValue
    <2>10. CASE s = Host
      <3>1. val'[Host] = v /\ \A c \in Clients : val'[c] = val[c]
        BY <1>1, <2>3, <2>7, <2>10
      <3>2. \A c \in Clients : Coming(c)'
        BY <2>3, <2>4, <2>10 DEF Coming, Unsent
      <3>3. \A c \in Clients, u \in Workers : writing'[<<c, u>>] = writing[<<c, u>>]
        BY <2>3, <2>4, <2>10
      <3>4. \A c \in Clients : Agreeing(c)'
        BY <1>1, <2>2, <3>1, <3>2, <3>3, AgreeingFrame
      <3> QED
        BY <2>8, <2>9, <3>1, <3>4
    <2>11. CASE s # Host
      <3>1. s \in Clients /\ client[s] = "on"
        BY <2>1, <2>11 DEF Sites, Connected
      <3>2. val'[Host] = val[Host] /\ val'[s] = v /\ \A c \in Clients \ {s} : val'[c] = val[c]
        BY <1>1, <2>3, <2>7, <2>11
      <3>3. FromHost(val[Host])'
        BY <1>1, <2>2, <2>3, <2>4, <2>11, <3>2 DEF FromHost
      <3>4. ASSUME NEW c \in Clients \ {s} PROVE Agreeing(c)'
        <4>1. \A u \in Workers : writing'[<<c, u>>] = writing[<<c, u>>]
          BY <2>3, <2>4, <3>4
        <4>2. Coming(c) => Coming(c)'
          BY <1>1, <2>3, <2>4, <2>11 DEF Coming, Unsent
        <4> QED
          BY <1>1, <2>2, <3>2, <4>1, <4>2, AgreeingFrame
      <3>5. Agreeing(s)'
        <4>1. Going(s)' /\ Unsent(s)'
          BY <2>3, <2>4 DEF Going, Unsent
        <4>2. FromClient(s, val[s])'
          BY <2>8, <3>1, <3>2
        <4> QED
          BY <1>1, <3>1, <4>1, <4>2 DEF Agreeing
      <3> QED
        BY <2>9, <3>3, <3>4, <3>5
    <2> QED
      BY <2>10, <2>11
  <1> QED
    BY <1>2, <1>3 DEF SyncInv, Sequential

(* What was written enters its site's channel.                             *)
LEMMA PublishSyncs ==
  ASSUME Inv, SyncInv, NEW s \in Sites, NEW w \in Workers, Publish(s, w)
  PROVE  SyncInv'
  <1> DEFINE v == writing[<<s, w>>]
  <1>1. /\ UNCHANGED <<val, client, handler, relay, listed, chan, up, down, raced>>
        /\ outbox' = [outbox EXCEPT ![s] = Append(@, v)]
        /\ writing' = [writing EXCEPT ![<<s, w>>] = None]
        /\ v # None
    BY DEF Publish, net, history
  <1>2. v \in Values /\ outbox[s] \in Seq(Values)
    BY <1>1 DEF Inv, TypeOK
  <1>3. /\ Host \in Sites /\ \A c \in Clients : c \in Sites /\ c # Host
    BY NetSyncAssumption DEF Sites
  <1>4. \A t \in Sites, u \in Workers :
          writing'[<<t, u>>] = IF t = s /\ u = w THEN None ELSE writing[<<t, u>>]
    BY <1>1 DEF Inv, TypeOK
  <1>5. outbox'[s] = Append(outbox[s], v) /\ \A t \in Sites \ {s} : outbox'[t] = outbox[t]
    BY <1>1 DEF Inv, TypeOK
  <1> HIDE DEF v
  <1>6. outbox'[s] # <<>>
    BY <1>2, <1>5, Elements
  <1>7. ASSUME NEW x, outbox[s] \in Seq({x}), v = x PROVE outbox'[s] \in Seq({x})
    BY <1>5, <1>7, Elements
  <1>8. ASSUME NEW x, FromHost(x) PROVE FromHost(x)'
    <2>1. \A u \in Workers : writing'[<<Host, u>>] \in {x, None}
      BY <1>3, <1>4, <1>8 DEF FromHost
    <2>2. outbox'[Host] \in Seq({x})
      <3>1. CASE s = Host
        BY <3>1, <1>1, <1>7, <1>8 DEF FromHost, v
      <3>2. CASE s # Host
        BY <3>2, <1>3, <1>5, <1>8 DEF FromHost
      <3> QED
        BY <3>1, <3>2
    <2> QED
      BY <1>1, <1>8, <2>1, <2>2 DEF FromHost
  <1>9. ASSUME NEW x, NEW c \in Clients, FromClient(c, x) PROVE FromClient(c, x)'
    <2>1. \A u \in Workers : writing'[<<c, u>>] \in {x, None}
      BY <1>3, <1>4, <1>9 DEF FromClient
    <2>2. outbox'[c] \in Seq({x})
      <3>1. CASE s = c
        BY <3>1, <1>1, <1>7, <1>9 DEF FromClient, v
      <3>2. CASE s # c
        BY <3>2, <1>3, <1>5, <1>9 DEF FromClient
      <3> QED
        BY <3>1, <3>2
    <2> QED
      BY <1>1, <1>9, <2>1, <2>2 DEF FromClient
  <1>10. Unsent(s) /\ Unsent(s)'
    BY <1>1, <1>6 DEF Unsent, v
  <1>11. ASSUME ~raced', NEW c \in Clients PROVE Agreeing(c)'
    <2>1. Agreeing(c)
      BY <1>1, <1>11 DEF SyncInv, Sequential
    <2>2. CASE c # s
      <3>1. \A u \in Workers : writing'[<<c, u>>] = writing[<<c, u>>]
        BY <1>3, <1>4, <2>2
      <3>2. Unsent(Host) => Unsent(Host)'
        <4>1. CASE s = Host
          BY <4>1, <1>10
        <4>2. CASE s # Host
          BY <4>2, <1>3, <1>4, <1>5 DEF Unsent
        <4> QED
          BY <4>1, <4>2
      <3>3. Coming(c) => Coming(c)'
        BY <1>1, <3>2 DEF Coming
      <3>4. outbox'[c] = outbox[c]
        BY <1>3, <1>5, <2>2
      <3> QED
        BY <1>1, <2>1, <3>1, <3>3, <3>4, AgreeingFrame
    <2>3. CASE c = s
      <3>1. client[c] = "on"
        BY <1>10, <2>1, <2>3 DEF Agreeing
      <3>2. FromClient(c, val[c])'
        <4>1. FromClient(c, val[c])
          BY <2>1, <3>1 DEF Agreeing
        <4> QED
          BY <4>1, <1>1, <1>9
      <3>3. Going(c)'
        BY <1>10, <2>3 DEF Going
      <3> QED
        BY <1>1, <3>1, <3>2, <3>3 DEF Agreeing
    <2> QED
      BY <2>2, <2>3
  <1>12. \A c \in Clients : Joining(c)'
    BY <1>1, JoiningFrame DEF SyncInv
  <1>13. Sequential'
    BY <1>1, <1>8, <1>9, <1>11, SequentialFrame DEF SyncInv
  <1> QED
    BY <1>12, <1>13 DEF SyncInv

(* Whoever stays in the list has it coming.                                *)
LEMMA FannedOut ==
  ASSUME Inv, NEW T \in SUBSET Clients, NEW v \in Values, FanOut(T, v)
  PROVE  /\ listed' \subseteq listed
         /\ \A c \in Clients \cap listed' : c \in T => chan'[c] # <<>>
         /\ \A c \in Clients : chan[c] # <<>> => chan'[c] # <<>>
         /\ \A c \in Clients : chan[c] \in Seq({v}) => chan'[c] \in Seq({v})
  <1> DEFINE full == {c \in T \cap listed : Full(c)}
  <1>1. /\ listed' = listed \ full
        /\ chan' = [c \in Clients |-> IF c \in (T \cap listed) \ full
                                      THEN Append(chan[c], v) ELSE chan[c]]
    BY DEF FanOut
  <1>2. ASSUME NEW c \in Clients
        PROVE  /\ Append(chan[c], v) # <<>>
               /\ chan[c] \in Seq({v}) => Append(chan[c], v) \in Seq({v})
    <2>1. chan[c] \in Seq(Values)
      BY DEF Inv, TypeOK
    <2>2. Append(chan[c], v) # <<>>
      BY <2>1, Elements
    <2>3. chan[c] \in Seq({v}) => Append(chan[c], v) \in Seq({v})
      BY Elements
    <2> QED
      BY <2>2, <2>3
  <1> HIDE DEF full
  <1> QED
    BY <1>1, <1>2

(* The host's own writes are fanned out.                                   *)
LEMMA BroadcastSyncs ==
  ASSUME Inv, SyncInv, Broadcast
  PROVE  SyncInv'
  <1> DEFINE v == Head(outbox[Host])
  <1>1. /\ UNCHANGED <<val, writing, client, handler, relay, up, down, raced>>
        /\ outbox[Host] # <<>> /\ outbox' = [outbox EXCEPT ![Host] = Tail(@)]
        /\ FanOut(Clients, v)
    BY DEF Broadcast, net, history
  <1>2. outbox[Host] \in Seq(Values) /\ Host \in Sites
    BY DEF Inv, TypeOK, Sites
  <1>3. v \in Values
    BY <1>1, <1>2, Elements
  <1>4. outbox'[Host] = Tail(outbox[Host]) /\ \A c \in Clients : outbox'[c] = outbox[c]
    BY <1>1, <1>2, NetSyncAssumption DEF Inv, TypeOK, Sites
  <1>5. ASSUME NEW x, outbox[Host] \in Seq({x}) PROVE v = x /\ Tail(outbox[Host]) \in Seq({x})
    BY <1>1, <1>5, Elements
  <1> HIDE DEF v
  <1>6. /\ listed' \subseteq listed
        /\ \A c \in Clients \cap listed' : chan'[c] # <<>>
        /\ \A c \in Clients : chan[c] \in Seq({v}) => chan'[c] \in Seq({v})
    BY <1>1, <1>3, FannedOut
  <1>7. ASSUME NEW x, FromHost(x) PROVE FromHost(x)'
    <2>1. v = x /\ outbox'[Host] \in Seq({x})
      BY <1>4, <1>5, <1>7 DEF FromHost
    <2> QED
      BY <1>1, <1>6, <1>7, <2>1 DEF FromHost
  <1>8. \A x : \A c \in Clients : FromClient(c, x) => FromClient(c, x)'
    BY <1>1, <1>4 DEF FromClient
  <1>9. ASSUME ~raced', NEW c \in Clients PROVE Agreeing(c)'
    <2>1. Agreeing(c)
      BY <1>1, <1>9 DEF SyncInv, Sequential
    <2>2. c \in listed' => Coming(c)'
      BY <1>6 DEF Coming
    <2> QED
      BY <1>1, <1>4, <1>6, <2>1, <2>2, AgreeingFrame
  <1>10. \A c \in Clients : Joining(c)'
    BY <1>1, JoiningFrame DEF SyncInv
  <1>11. Sequential'
    BY <1>1, <1>7, <1>8, <1>9, SequentialFrame DEF SyncInv
  <1> QED
    BY <1>10, <1>11 DEF SyncInv

(* What a client sent is fanned out to the others.                         *)
LEMMA RelaySyncs ==
  ASSUME Inv, SyncInv, NEW c \in Clients, RelayToOthers(c)
  PROVE  SyncInv'
  <1> DEFINE v == relay[c]
  <1>1. /\ UNCHANGED <<val, writing, outbox, client, handler, up, down, raced>>
        /\ relay' = [relay EXCEPT ![c] = None]
        /\ FanOut(Clients \ {c}, v) /\ v # None
    BY DEF RelayToOthers, net, history
  <1>2. v \in Values /\ \A d \in Clients : relay'[d] = IF d = c THEN None ELSE relay[d]
    BY <1>1 DEF Inv, TypeOK
  <1>3. \A x : FromHost(x) => v = x
    BY <1>1 DEF FromHost
  <1> HIDE DEF v
  <1>4. /\ listed' \subseteq listed
        /\ \A d \in Clients \cap listed' : d # c => chan'[d] # <<>>
        /\ \A d \in Clients : chan[d] # <<>> => chan'[d] # <<>>
        /\ \A d \in Clients : chan[d] \in Seq({v}) => chan'[d] \in Seq({v})
    <2> DEFINE others == Clients \ {c}
    <2>1. others \in SUBSET Clients /\ FanOut(others, v)
      BY <1>1
    <2>2. \A d \in Clients : d \in others <=> d # c
      OBVIOUS
    <2> HIDE DEF others
    <2>3. /\ listed' \subseteq listed
          /\ \A d \in Clients \cap listed' : d \in others => chan'[d] # <<>>
          /\ \A d \in Clients : chan[d] # <<>> => chan'[d] # <<>>
          /\ \A d \in Clients : chan[d] \in Seq({v}) => chan'[d] \in Seq({v})
      BY <1>2, <2>1, FannedOut
    <2> QED
      BY <2>2, <2>3
  <1>5. ASSUME NEW x, FromHost(x) PROVE FromHost(x)'
    BY <1>1, <1>2, <1>3, <1>4, <1>5 DEF FromHost
  <1>6. \A x : \A d \in Clients : FromClient(d, x) => FromClient(d, x)'
    BY <1>1 DEF FromClient
  <1>7. ASSUME ~raced', NEW d \in Clients PROVE Agreeing(d)'
    <2>1. Agreeing(d)
      BY <1>1, <1>7 DEF SyncInv, Sequential
    <2>2. d \in listed' /\ Coming(d) => Coming(d)'
      <3>1. CASE d # c
        BY <3>1, <1>4 DEF Coming
      <3>2. CASE d = c
        BY <3>2, <1>1, <1>2, <1>4 DEF Coming, Unsent
      <3> QED
        BY <3>1, <3>2
    <2> QED
      BY <1>1, <1>4, <2>1, <2>2, AgreeingFrame
  <1>8. \A d \in Clients : Joining(d)'
    BY <1>1, JoiningFrame DEF SyncInv
  <1>9. Sequential'
    BY <1>1, <1>5, <1>6, <1>7, SequentialFrame DEF SyncInv
  <1> QED
    BY <1>8, <1>9 DEF SyncInv

(* What is sent to a client that has gone is lost.                         *)
LEMMA SentDown ==
  ASSUME Inv, NEW c \in Clients, NEW m \in Message, SendDown(c, m)
  PROVE  /\ \A d \in Clients : d # c => down'[d] = down[d]
         /\ down'[c] = IF Gone(c) THEN down[c] ELSE Append(down[c], m)
         /\ \A x : m \in Bearing(x) =>
              \A d \in Clients : down[d] \in Seq(Bearing(x)) => down'[d] \in Seq(Bearing(x))
  <1>1. /\ \A d \in Clients : d # c => down'[d] = down[d]
        /\ down'[c] = IF Gone(c) THEN down[c] ELSE Append(down[c], m)
    BY DEF SendDown, Inv, TypeOK
  <1>2. ASSUME NEW x, m \in Bearing(x), NEW d \in Clients, down[d] \in Seq(Bearing(x))
        PROVE  down'[d] \in Seq(Bearing(x))
    <2>1. Append(down[d], m) \in Seq(Bearing(x))
      BY <1>2, Elements
    <2> QED
      BY <1>1, <1>2, <2>1
  <1> QED
    BY <1>1, <1>2

(* What a client's handler or its thread does to its connection concerns   *)
(* the client alone.                                                       *)
LEMMA OthersAgree ==
  ASSUME NEW c \in Clients, NEW d \in Clients \ {c}, Agreeing(d), UNCHANGED writing,
         client'[d] = client[d], val'[d] = val[d], up'[d] = up[d], down'[d] = down[d],
         outbox'[d] = outbox[d], outbox'[Host] = outbox[Host], chan'[d] = chan[d],
         d \in listed' => d \in listed,
         \A e \in Clients : relay[e] # None => relay'[e] # None,
         val'[Host] # val[Host] => relay'[c] # None
  PROVE  Agreeing(d)'
  <1>1. Coming(d) => Coming(d)'
    BY DEF Coming, Unsent
  <1>2. val'[Host] = val[Host] \/ Coming(d)'
    BY DEF Coming
  <1> QED
    BY <1>1, <1>2, AgreeingFrame

(* hello is answered with hi.                                              *)
LEMMA GreetSyncs ==
  ASSUME Inv, SyncInv, NEW c \in Clients, Greet(c)
  PROVE  SyncInv'
  <1>1. /\ UNCHANGED <<val, writing, outbox, client, relay, listed, chan, raced>>
        /\ handler[c] = "hello" /\ up[c] # <<>> /\ up' = [up EXCEPT ![c] = Tail(@)]
        /\ SendDown(c, Msg("hi", None)) /\ handler' = [handler EXCEPT ![c] = "greeted"]
    BY DEF Greet, history
  <1>2. /\ up'[c] = Tail(up[c]) /\ handler'[c] = "greeted"
        /\ \A d \in Clients : d # c => up'[d] = up[d] /\ handler'[d] = handler[d]
    BY <1>1 DEF Inv, TypeOK
  <1>3. /\ Msg("hi", None) \in Message
        /\ \A x : Msg("hi", None) \in Bearing(x)
    BY Messages, MessageFacts
  <1>4. /\ \A d \in Clients : d # c => down'[d] = down[d]
        /\ down'[c] = IF Gone(c) THEN down[c] ELSE Append(down[c], Msg("hi", None))
        /\ \A x : \A d \in Clients : down[d] \in Seq(Bearing(x)) => down'[d] \in Seq(Bearing(x))
    <2> DEFINE m == Msg("hi", None)
    <2>1. m \in Message /\ SendDown(c, m) /\ \A x : m \in Bearing(x)
      BY <1>1, <1>3
    <2> HIDE DEF m
    <2>2. /\ \A d \in Clients : d # c => down'[d] = down[d]
          /\ down'[c] = IF Gone(c) THEN down[c] ELSE Append(down[c], m)
          /\ \A x : \A d \in Clients : down[d] \in Seq(Bearing(x)) => down'[d] \in Seq(Bearing(x))
      BY <2>1, SentDown
    <2> QED
      BY <2>2 DEF m
  <1>5. Gone(c) \/ client[c] = "hello"
    BY <1>1 DEF Inv, TypeOK, SyncInv, Joining, Gone
  <1>6. Joining(c)'
    <2>1. CASE Gone(c)
      BY <1>1, <1>4, <2>1 DEF SyncInv, Joining, Gone
    <2>2. CASE client[c] = "hello"
      <3>1. up[c] = <<Msg("hello", None)>> /\ down[c] = <<>>
        BY <1>1, <2>2 DEF SyncInv, Joining
      <3>2. up'[c] = <<>>
        BY <1>2, <3>1
      <3>3. down'[c] = <<Msg("hi", None)>>
        BY <1>4, <2>2, <3>1 DEF Gone
      <3>4. down'[c] # <<>> /\ Tail(down'[c]) = <<>>
        BY <3>3
      <3>5. Tail(down'[c]) \in Seq(Sets)
        BY <3>4, Nothing
      <3> QED
        BY <1>1, <1>2, <2>2, <3>2, <3>4, <3>5 DEF Joining, Gone
    <2> QED
      BY <1>5, <2>1, <2>2
  <1>7. \A d \in Clients : d # c => Joining(d)'
    BY <1>1, <1>2, <1>4, JoiningFrame DEF SyncInv
  <1>8. \A x : FromHost(x) => FromHost(x)'
    BY <1>1, <1>4 DEF FromHost
  <1>9. ASSUME NEW x, NEW d \in Clients, FromClient(d, x) PROVE FromClient(d, x)'
    <2>1. up'[d] \in Seq(Bearing(x))
      BY <1>1, <1>2, <1>9, Elements DEF FromClient
    <2> QED
      BY <1>1, <1>9, <2>1 DEF FromClient
  <1>10. ASSUME ~raced', NEW d \in Clients PROVE Agreeing(d)'
    <2>1. Agreeing(d)
      BY <1>1, <1>10 DEF SyncInv, Sequential
    <2>2. CASE d # c
      BY <1>1, <1>2, <1>4, <2>1, <2>2, OthersAgree
    <2>3. CASE d = c
      BY <1>1, <1>5, <2>1, <2>3 DEF Agreeing, Unsent, Gone
    <2> QED
      BY <2>2, <2>3
  <1>11. Sequential'
    BY <1>1, <1>8, <1>9, <1>10, SequentialFrame DEF SyncInv
  <1> QED
    BY <1>6, <1>7, <1>11 DEF SyncInv

(* A client is registered before it is sent the snapshot.                  *)
LEMMA RegisterSyncs ==
  ASSUME Inv, SyncInv, NEW c \in Clients, Register(c)
  PROVE  SyncInv'
  <1>1. /\ UNCHANGED <<val, writing, outbox, client, relay, up, down, raced>>
        /\ handler[c] = "greeted" /\ handler' = [handler EXCEPT ![c] = "serve"]
        /\ listed' = listed \cup {c} /\ chan' = [chan EXCEPT ![c] = <<>>]
    BY DEF Register, net, history
  <1>2. /\ handler'[c] = "serve" /\ chan'[c] = <<>>
        /\ \A d \in Clients : d # c => handler'[d] = handler[d] /\ chan'[d] = chan[d]
    BY <1>1 DEF Inv, TypeOK
  <1>3. Gone(c) \/ client[c] \in {"hello", "sync"}
    BY <1>1 DEF Inv, TypeOK, SyncInv, Joining, Gone
  <1>4. client[c] = "sync" => down[c] \in Seq(Sets) /\ up[c] = <<Msg("sync", None)>>
    BY <1>1 DEF SyncInv, Joining
  <1>5. Joining(c)'
    BY <1>1, <1>2, <1>3, <1>4 DEF SyncInv, Joining, Gone
  <1>6. \A d \in Clients : d # c => Joining(d)'
    BY <1>1, <1>2, JoiningFrame DEF SyncInv
  <1>7. ASSUME NEW x, FromHost(x) PROVE FromHost(x)'
    BY <1>1, <1>2, <1>7, Nothing DEF FromHost
  <1>8. \A x : \A d \in Clients : FromClient(d, x) => FromClient(d, x)'
    BY <1>1 DEF FromClient
  <1>9. ASSUME ~raced', NEW d \in Clients PROVE Agreeing(d)'
    <2>1. Agreeing(d)
      BY <1>1, <1>9 DEF SyncInv, Sequential
    <2>2. CASE d # c
      BY <1>1, <1>2, <2>1, <2>2, OthersAgree
    <2>3. CASE d = c
      <3>1. client[c] = "sync" => \A i \in 1 .. Len(down[c]) : down[c][i].type # "snapshot"
        BY <1>4, MessageFacts, Elements
      <3> QED
        BY <1>1, <1>3, <2>1, <2>3, <3>1 DEF Agreeing, Unsent, Gone
    <2> QED
      BY <2>2, <2>3
  <1>10. Sequential'
    BY <1>1, <1>7, <1>8, <1>9, SequentialFrame DEF SyncInv
  <1> QED
    BY <1>5, <1>6, <1>10 DEF SyncInv

(* The host's handler answers a sync with what the host has by then, and   *)
(* applies a Set of a client that has the same value.                      *)
LEMMA HandlerReadSyncs ==
  ASSUME Inv, SyncInv, NEW c \in Clients, HandlerRead(c)
  PROVE  SyncInv'
  <1> DEFINE m == Head(up[c])
             reply == Msg("snapshot", val[Host])
  <1>1. /\ UNCHANGED <<writing, outbox, client, handler, listed, chan, raced>>
        /\ handler[c] = "serve" /\ relay[c] = None
        /\ up[c] # <<>> /\ up' = [up EXCEPT ![c] = Tail(@)]
        /\ \/ m.type = "sync" /\ SendDown(c, reply) /\ UNCHANGED <<val, relay>>
           \/ /\ m.type = "set" /\ m.val # val[Host]
              /\ val' = [val EXCEPT ![Host] = m.val]
              /\ relay' = [relay EXCEPT ![c] = m.val]
              /\ UNCHANGED down
           \/ m.type = "set" /\ m.val = val[Host] /\ UNCHANGED <<val, relay, down>>
    BY DEF HandlerRead, Serving, history
  <1>2. /\ up'[c] = Tail(up[c]) /\ \A d \in Clients : d # c => up'[d] = up[d]
        /\ up[c] \in Seq(Message) /\ val[Host] \in Values \cup {None} /\ Host \in Sites
        /\ \A d \in Clients : d # Host
    BY <1>1, NetSyncAssumption DEF Inv, TypeOK, Sites
  <1>3. m \in Message
    BY <1>1, <1>2, Elements
  <1>4. /\ reply \in Message /\ \A x : reply \in Bearing(x)
        /\ reply.type = "snapshot" /\ reply.val = val[Host]
    BY <1>2, Messages, MessageFacts
  <1>5. client[c] = "hello" => FALSE
    BY <1>1 DEF SyncInv, Joining
  <1>6. client[c] = "sync" => /\ up[c] = <<Msg("sync", None)>> /\ down[c] \in Seq(Sets)
                              /\ m.type = "sync" /\ up'[c] = <<>>
    <2> HAVE client[c] = "sync"
    <2>1. up[c] = <<Msg("sync", None)>> /\ down[c] \in Seq(Sets)
      BY <1>1 DEF SyncInv, Joining
    <2>2. m = Msg("sync", None) /\ up'[c] = <<>>
      BY <1>2, <2>1
    <2> QED
      BY <2>1, <2>2 DEF Msg
  <1>7. client[c] = "on" => up[c] \in Seq(Sets) /\ m.type = "set" /\ up'[c] \in Seq(Sets)
    <2> HAVE client[c] = "on"
    <2>1. up[c] \in Seq(Sets)
      BY DEF SyncInv, Joining
    <2>2. m \in Sets /\ up'[c] \in Seq(Sets)
      BY <1>1, <1>2, <2>1, Elements
    <2> QED
      BY <2>1, <2>2, MessageFacts
  <1>8. Gone(c) \/ client[c] \in {"sync", "on"}
    BY <1>5 DEF Inv, TypeOK, Gone
  <1>9. ASSUME NEW x, NEW d \in Clients, FromClient(d, x)
        PROVE  FromClient(d, x)' /\ (d = c /\ m.type = "set" => m.val = x /\ x # None)
    <2>1. up'[d] \in Seq(Bearing(x)) /\ (d = c => m \in Bearing(x))
      BY <1>1, <1>2, <1>9, Elements DEF FromClient
    <2>2. FromClient(d, x)'
      BY <1>1, <1>9, <2>1 DEF FromClient
    <2> HIDE DEF m
    <2> QED
      BY <2>1, <2>2 DEF Bearing
  <1> HIDE DEF m, reply
  <1>10. CASE m.type = "sync" /\ SendDown(c, reply) /\ UNCHANGED <<val, relay>>
    <2>1. /\ \A d \in Clients : d # c => down'[d] = down[d]
          /\ down'[c] = IF Gone(c) THEN down[c] ELSE Append(down[c], reply)
          /\ \A x : \A d \in Clients : down[d] \in Seq(Bearing(x)) => down'[d] \in Seq(Bearing(x))
      BY <1>4, <1>10, SentDown
    <2>2. ASSUME client[c] = "sync"
          PROVE  LET n == Len(down[c]) + 1
                 IN /\ n \in 1 .. Len(down'[c]) /\ down'[c][n] = reply
                    /\ \A i \in 1 .. Len(down'[c]) : i # n => down'[c][i] \in Sets
      <3> DEFINE n == Len(down[c]) + 1
      <3>1. down[c] \in Seq(Sets) /\ down'[c] = Append(down[c], reply)
        BY <1>6, <2>1, <2>2 DEF Gone
      <3>2. down[c] \in Seq(Message)
        BY DEF Inv, TypeOK
      <3>3. /\ Len(down'[c]) = n /\ down'[c][n] = reply /\ Len(down[c]) \in Nat
            /\ \A i \in 1 .. Len(down[c]) : down'[c][i] = down[c][i]
        BY <1>4, <3>1, <3>2, Elements
      <3>4. \A i \in 1 .. Len(down[c]) : down[c][i] \in Sets
        BY <3>1, Elements
      <3> QED
        BY <3>3, <3>4
    <2>3. Joining(c)'
      <3>1. CASE Gone(c)
        BY <1>1, <2>1, <3>1 DEF SyncInv, Joining, Gone
      <3>2. CASE client[c] = "sync"
        BY <1>1, <1>4, <1>6, <2>2, <3>2 DEF Joining, Gone
      <3>3. CASE client[c] = "on"
        BY <1>7, <1>10, <3>3
      <3> QED
        BY <1>8, <3>1, <3>2, <3>3
    <2>4. \A d \in Clients : d # c => Joining(d)'
      BY <1>1, <1>2, <2>1, JoiningFrame DEF SyncInv
    <2>5. \A x : FromHost(x) => FromHost(x)'
      BY <1>1, <1>10, <2>1 DEF FromHost
    <2>6. ASSUME ~raced', NEW d \in Clients PROVE Agreeing(d)'
      <3>1. Agreeing(d)
        BY <1>1, <2>6 DEF SyncInv, Sequential
      <3>2. CASE d # c
        BY <1>1, <1>2, <1>10, <2>1, <3>1, <3>2, OthersAgree
      <3>3. CASE d = c /\ Gone(c)
        BY <1>1, <3>1, <3>3 DEF Agreeing, Unsent, Gone
      <3>4. CASE d = c /\ client[c] = "sync"
        <4>1. \A i \in 1 .. Len(down'[c]) :
                down'[c][i].type = "snapshot" => down'[c][i].val = val[Host]
          BY <1>4, <2>2, <3>4, MessageFacts
        <4> QED
          BY <1>1, <1>10, <3>1, <3>4, <4>1 DEF Agreeing, Unsent
      <3>5. CASE client[c] = "on"
        BY <1>7, <1>10, <3>5
      <3> QED
        BY <1>8, <3>2, <3>3, <3>4, <3>5
    <2>7. Sequential'
      BY <1>1, <1>9, <1>10, <2>5, <2>6, SequentialFrame DEF SyncInv
    <2> QED
      BY <2>3, <2>4, <2>7 DEF SyncInv
  <1>11. CASE m.type = "set" /\ UNCHANGED down
    <2>1. \A d \in Clients : Joining(d)'
      <3>1. Joining(c)'
        BY <1>1, <1>6, <1>7, <1>8, <1>11 DEF SyncInv, Joining, Gone
      <3>2. \A d \in Clients : d # c => Joining(d)'
        BY <1>1, <1>2, <1>11, JoiningFrame DEF SyncInv
      <3> QED
        BY <3>1, <3>2
    <2>2. /\ val'[Host] = m.val /\ relay'[c] \in {relay[c], m.val}
          /\ \A d \in Clients : d # c => relay'[d] = relay[d]
          /\ \A d \in Clients : val'[d] = val[d]
          /\ val'[Host] # val[Host] => relay'[c] = m.val
      <3>1. /\ val \in [Sites -> Values \cup {None}] /\ relay \in [Clients -> Values \cup {None}]
            /\ \A d \in Clients : d \in Sites /\ d # Host
        BY <1>2 DEF Inv, TypeOK, Sites
      <3>2. CASE /\ val' = [val EXCEPT ![Host] = m.val]
                 /\ relay' = [relay EXCEPT ![c] = m.val]
        BY <1>2, <3>1, <3>2
      <3>3. CASE m.val = val[Host] /\ UNCHANGED <<val, relay>>
        BY <3>3
      <3> QED
        BY <1>1, <1>11, <3>2, <3>3
    <2>3. ASSUME ~raced'
          PROVE  OneValue' /\ FromHost(val[Host])' /\ \A d \in Clients : Agreeing(d)'
      <3>1. OneValue /\ FromHost(val[Host]) /\ \A d \in Clients : Agreeing(d)
        BY <1>1, <2>3 DEF SyncInv, Sequential
      <3>2. PICK x \in Values \cup {None} : FromHost(x) /\ \A d \in Clients : FromClient(d, x)
        BY <3>1 DEF OneValue
      <3>3. m.val = x /\ x # None /\ \A d \in Clients : FromClient(d, x)'
        BY <1>9, <1>11, <3>2
      <3>4. FromHost(x)'
        <4>1. \A d \in Clients : relay'[d] \in {x, None}
          BY <1>1, <2>2, <3>2, <3>3 DEF FromHost
        <4> QED
          BY <1>1, <1>11, <3>2, <4>1 DEF FromHost
      <3>5. OneValue'
        BY <3>3, <3>4 DEF OneValue
      <3>6. FromHost(val[Host])'
        BY <2>2, <3>3, <3>4
      <3>7. ASSUME NEW d \in Clients, d # c PROVE Agreeing(d)'
        <4>1. \A e \in Clients : relay[e] # None => relay'[e] # None
          BY <1>1, <2>2
        <4> QED
          BY <1>1, <1>2, <1>11, <2>2, <3>1, <3>3, <3>7, <4>1, OthersAgree
      <3>8. Agreeing(c)'
        <4>1. CASE Gone(c)
          BY <1>1, <3>1, <4>1 DEF Agreeing, Unsent, Gone
        <4>2. CASE client[c] = "on"
          <5>1. FromClient(c, val[c])
            BY <3>1, <4>2 DEF Agreeing
          <5>2. FromClient(c, val[c])' /\ val'[c] = val'[Host]
            BY <1>9, <1>11, <2>2, <5>1
          <5> QED
            BY <1>1, <4>2, <5>2 DEF Agreeing
        <4>3. CASE client[c] = "sync"
          BY <1>6, <1>11, <4>3
        <4> QED
          BY <1>8, <4>1, <4>2, <4>3
      <3> QED
        BY <3>5, <3>6, <3>7, <3>8
    <2> QED
      BY <2>1, <2>3 DEF SyncInv, Sequential
  <1> QED
    BY <1>1, <1>10, <1>11

(* The handler sends on what was fanned out.                               *)
LEMMA DeliverSyncs ==
  ASSUME Inv, SyncInv, NEW c \in Clients, Deliver(c)
  PROVE  SyncInv'
  <1> DEFINE v == Head(chan[c])
             m == Msg("set", v)
  <1>1. /\ UNCHANGED <<val, writing, outbox, client, handler, relay, listed, up, raced>>
        /\ handler[c] = "serve" /\ chan[c] # <<>> /\ chan' = [chan EXCEPT ![c] = Tail(@)]
        /\ SendDown(c, m)
    BY DEF Deliver, Serving, history
  <1>2. /\ chan'[c] = Tail(chan[c]) /\ \A d \in Clients : d # c => chan'[d] = chan[d]
        /\ chan[c] \in Seq(Values) /\ down[c] \in Seq(Message)
    BY <1>1 DEF Inv, TypeOK
  <1>3. v \in Values
    BY <1>1, <1>2, Elements
  <1>4. /\ m \in Sets /\ m \in Bearing(v) /\ m \in Message /\ m.type = "set"
    BY <1>3, MessageFacts
  <1>5. ASSUME NEW x, chan[c] \in Seq({x}) PROVE v = x /\ chan'[c] \in Seq({x})
    BY <1>1, <1>2, <1>5, Elements
  <1> HIDE DEF v, m
  <1>6. /\ \A d \in Clients : d # c => down'[d] = down[d]
        /\ down'[c] = IF Gone(c) THEN down[c] ELSE Append(down[c], m)
        /\ \A x : m \in Bearing(x) =>
             \A d \in Clients : down[d] \in Seq(Bearing(x)) => down'[d] \in Seq(Bearing(x))
    BY <1>1, <1>4, SentDown
  <1>7. Joining(c)'
    <2>1. CASE Gone(c)
      BY <1>1, <1>6, <2>1 DEF SyncInv, Joining
    <2>2. CASE client[c] = "hello"
      <3>1. up[c] = <<>> /\ down[c] # <<>> /\ Tail(down[c]) \in Seq(Sets)
        BY <1>1, <2>2 DEF SyncInv, Joining
      <3>2. down'[c] = Append(down[c], m)
        BY <1>6, <2>2 DEF Gone
      <3>3. down'[c] # <<>> /\ Tail(down'[c]) = Append(Tail(down[c]), m)
        BY <1>2, <1>4, <3>1, <3>2
      <3>4. Tail(down'[c]) \in Seq(Sets)
        <4>1. Append(Tail(down[c]), m) \in Seq(Sets)
          BY <1>4, <3>1, Elements
        <4> QED
          BY <3>3, <4>1
      <3> QED
        BY <1>1, <2>2, <3>1, <3>3, <3>4 DEF Joining, Gone
    <2>3. CASE client[c] = "on"
      <3>1. down[c] \in Seq(Sets) /\ up[c] \in Seq(Sets)
        BY <2>3 DEF SyncInv, Joining
      <3>2. down'[c] \in Seq(Sets)
        BY <1>4, <1>6, <2>3, <3>1, Elements
      <3> QED
        BY <1>1, <2>3, <3>1, <3>2 DEF Joining, Gone
    <2>4. CASE client[c] = "sync"
      <3>1. /\ Len(down[c]) \in Nat /\ Len(down'[c]) = Len(down[c]) + 1
            /\ down'[c][Len(down[c]) + 1] = m
            /\ \A i \in 1 .. Len(down[c]) : down'[c][i] = down[c][i]
        BY <1>2, <1>4, <1>6, <2>4, Elements DEF Gone
      <3>2. CASE up[c] = <<Msg("sync", None)>> /\ down[c] \in Seq(Sets)
        <4>1. down'[c] \in Seq(Sets)
          BY <1>4, <1>6, <2>4, <3>2, Elements
        <4> QED
          BY <1>1, <2>4, <3>2, <4>1 DEF Joining, Gone
      <3>3. CASE up[c] = <<>> /\ \E n \in 1 .. Len(down[c]) :
                   /\ down[c][n].type = "snapshot"
                   /\ \A i \in 1 .. Len(down[c]) : i # n => down[c][i] \in Sets
        <4>1. PICK n \in 1 .. Len(down[c]) :
                /\ down[c][n].type = "snapshot"
                /\ \A i \in 1 .. Len(down[c]) : i # n => down[c][i] \in Sets
          BY <3>3
        <4>2. n \in 1 .. Len(down'[c]) /\ down'[c][n].type = "snapshot"
          BY <3>1, <4>1
        <4>3. ASSUME NEW i \in 1 .. Len(down'[c]), i # n PROVE down'[c][i] \in Sets
          <5>1. i \in 1 .. Len(down[c]) \/ i = Len(down[c]) + 1
            BY <3>1
          <5> QED
            BY <1>4, <3>1, <4>1, <4>3, <5>1
        <4> QED
          BY <1>1, <2>4, <3>3, <4>2, <4>3 DEF Joining, Gone
      <3> QED
        BY <2>4, <3>2, <3>3 DEF SyncInv, Joining
    <2> QED
      BY <2>1, <2>2, <2>3, <2>4 DEF Inv, TypeOK, Gone
  <1>8. \A d \in Clients : d # c => Joining(d)'
    BY <1>1, <1>6, JoiningFrame DEF SyncInv
  <1>9. ASSUME NEW x, FromHost(x) PROVE FromHost(x)'
    <2>1. v = x /\ chan'[c] \in Seq({x})
      BY <1>5, <1>9 DEF FromHost
    <2> QED
      BY <1>1, <1>2, <1>4, <1>6, <1>9, <2>1 DEF FromHost
  <1>10. \A x : \A d \in Clients : FromClient(d, x) => FromClient(d, x)'
    BY <1>1 DEF FromClient
  <1>11. ASSUME ~raced', NEW d \in Clients PROVE Agreeing(d)'
    <2>1. Agreeing(d)
      BY <1>1, <1>11 DEF SyncInv, Sequential
    <2>2. CASE d # c
      BY <1>1, <1>2, <1>6, <2>1, <2>2, OthersAgree
    <2>3. CASE d = c
      <3>1. ~Gone(c) => Coming(c)'
        BY <1>2, <1>4, <1>6, CarriesMore DEF Coming
      <3>2. client[c] = "on" => FromClient(c, val[c])'
        BY <1>10, <1>1, <2>1, <2>3 DEF Agreeing
      <3>3. Unsent(c)' <=> Unsent(c)
        BY <1>1 DEF Unsent
      <3> QED
        BY <1>1, <2>1, <2>3, <3>1, <3>2, <3>3 DEF Agreeing, Gone
    <2> QED
      BY <2>2, <2>3
  <1>12. Sequential'
    BY <1>1, <1>9, <1>10, <1>11, SequentialFrame DEF SyncInv
  <1> QED
    BY <1>7, <1>8, <1>12 DEF SyncInv

(* A handler ends when its client has gone.                                *)
LEMMA HandlerEndsSyncs ==
  ASSUME Inv, SyncInv, NEW c \in Clients, HandlerEnds(c)
  PROVE  SyncInv'
  <1>1. /\ UNCHANGED <<val, writing, outbox, client, relay, up, down, raced>>
        /\ Gone(c) /\ handler' = [handler EXCEPT ![c] = "none"]
        /\ listed' = listed \ {c} /\ chan' = [chan EXCEPT ![c] = <<>>]
    BY DEF HandlerEnds, net, history
  <1>2. /\ chan'[c] = <<>>
        /\ \A d \in Clients : d # c => handler'[d] = handler[d] /\ chan'[d] = chan[d]
    BY <1>1 DEF Inv, TypeOK
  <1>3. \A d \in Clients : Joining(d)'
    <2>1. Joining(c)'
      BY <1>1 DEF SyncInv, Joining, Gone
    <2>2. \A d \in Clients : d # c => Joining(d)'
      BY <1>1, <1>2, JoiningFrame DEF SyncInv
    <2> QED
      BY <2>1, <2>2
  <1>4. ASSUME NEW x, FromHost(x) PROVE FromHost(x)'
    BY <1>1, <1>2, <1>4, Nothing DEF FromHost
  <1>5. \A x : \A d \in Clients : FromClient(d, x) => FromClient(d, x)'
    BY <1>1 DEF FromClient
  <1>6. ASSUME ~raced', NEW d \in Clients PROVE Agreeing(d)'
    <2>1. Agreeing(d)
      BY <1>1, <1>6 DEF SyncInv, Sequential
    <2>2. CASE d # c
      BY <1>1, <1>2, <2>1, <2>2, OthersAgree
    <2>3. CASE d = c
      BY <1>1, <2>1, <2>3 DEF Agreeing, Unsent, Gone
    <2> QED
      BY <2>2, <2>3
  <1>7. Sequential'
    BY <1>1, <1>4, <1>5, <1>6, SequentialFrame DEF SyncInv
  <1> QED
    BY <1>3, <1>7 DEF SyncInv

(* A client that connects has nothing unsent.                              *)
LEMMA ConnectSyncs ==
  ASSUME Inv, SyncInv, NEW c \in Clients, Connect(c)
  PROVE  SyncInv'
  <1>1. /\ UNCHANGED <<val, writing, outbox, relay, listed, chan, down, raced>>
        /\ client[c] = "off" /\ handler[c] = "none"
        /\ client' = [client EXCEPT ![c] = "hello"] /\ handler' = [handler EXCEPT ![c] = "hello"]
        /\ up' = [up EXCEPT ![c] = <<Msg("hello", None)>>]
    BY DEF Connect, history
  <1>2. /\ client'[c] = "hello" /\ handler'[c] = "hello" /\ up'[c] = <<Msg("hello", None)>>
        /\ \A d \in Clients : d # c => /\ client'[d] = client[d] /\ handler'[d] = handler[d]
                                       /\ up'[d] = up[d]
    BY <1>1 DEF Inv, TypeOK
  <1>3. \A d \in Clients : Joining(d)'
    <2>1. Joining(c)'
      BY <1>1, <1>2 DEF SyncInv, Joining, Gone
    <2>2. \A d \in Clients : d # c => Joining(d)'
      BY <1>1, <1>2, JoiningFrame DEF SyncInv
    <2> QED
      BY <2>1, <2>2
  <1>4. \A x : FromHost(x) => FromHost(x)'
    BY <1>1 DEF FromHost
  <1>5. ASSUME NEW d \in Clients, NEW x, FromClient(d, x) PROVE FromClient(d, x)'
    <2>1. up'[c] \in Seq(Bearing(x))
      <3>1. Msg("hello", None) \in Bearing(x)
        BY MessageFacts
      <3> QED
        BY <1>2, <3>1
    <2> QED
      BY <1>1, <1>2, <1>5, <2>1 DEF FromClient
  <1>6. ASSUME ~raced', NEW d \in Clients PROVE Agreeing(d)'
    <2>1. Agreeing(d)
      BY <1>1, <1>6 DEF SyncInv, Sequential
    <2>2. CASE d # c
      BY <1>1, <1>2, <2>1, <2>2, OthersAgree
    <2>3. CASE d = c
      BY <1>1, <1>2, <2>1, <2>3 DEF Agreeing, Unsent
    <2> QED
      BY <2>2, <2>3
  <1>7. Sequential'
    BY <1>1, <1>4, <1>5, <1>6, SequentialFrame DEF SyncInv
  <1> QED
    BY <1>3, <1>7 DEF SyncInv

(* hi is answered with sync.                                               *)
LEMMA ReadHiSyncs ==
  ASSUME Inv, SyncInv, NEW c \in Clients, ReadHi(c)
  PROVE  SyncInv'
  <1>1. /\ UNCHANGED <<val, writing, outbox, handler, relay, listed, chan, raced>>
        /\ client[c] = "hello" /\ down[c] # <<>>
        /\ down' = [down EXCEPT ![c] = Tail(@)]
        /\ up' = [up EXCEPT ![c] = Append(@, Msg("sync", None))]
        /\ client' = [client EXCEPT ![c] = "sync"]
    BY DEF ReadHi, history
  <1>2. /\ client'[c] = "sync" /\ down'[c] = Tail(down[c])
        /\ up'[c] = Append(up[c], Msg("sync", None))
        /\ \A d \in Clients : d # c => /\ client'[d] = client[d] /\ down'[d] = down[d]
                                       /\ up'[d] = up[d]
    BY <1>1 DEF Inv, TypeOK
  <1>3. /\ handler[c] \in {"greeted", "serve"} /\ up'[c] = <<Msg("sync", None)>>
        /\ down'[c] \in Seq(Sets)
    <2>1. /\ handler[c] \in {"greeted", "serve"} /\ up[c] = <<>> /\ Tail(down[c]) \in Seq(Sets)
      BY <1>1 DEF SyncInv, Joining
    <2>2. Append(<<>>, Msg("sync", None)) = <<Msg("sync", None)>>
      OBVIOUS
    <2> QED
      BY <1>2, <2>1, <2>2
  <1>4. \A d \in Clients : Joining(d)'
    <2>1. Joining(c)'
      BY <1>1, <1>2, <1>3 DEF Joining, Gone
    <2>2. \A d \in Clients : d # c => Joining(d)'
      BY <1>1, <1>2, JoiningFrame DEF SyncInv
    <2> QED
      BY <2>1, <2>2
  <1>5. ASSUME NEW x, FromHost(x) PROVE FromHost(x)'
    <2>1. down'[c] \in Seq(Bearing(x))
      BY <1>1, <1>2, <1>5, Elements DEF FromHost
    <2> QED
      BY <1>1, <1>2, <1>5, <2>1 DEF FromHost
  <1>6. ASSUME NEW d \in Clients, NEW x, FromClient(d, x) PROVE FromClient(d, x)'
    <2>1. up'[c] \in Seq(Bearing(x))
      <3>1. Msg("sync", None) \in Bearing(x)
        BY MessageFacts
      <3> QED
        BY <1>3, <3>1
    <2> QED
      BY <1>1, <1>2, <1>6, <2>1 DEF FromClient
  <1>7. ASSUME ~raced', NEW d \in Clients PROVE Agreeing(d)'
    <2>1. Agreeing(d)
      BY <1>1, <1>7 DEF SyncInv, Sequential
    <2>2. CASE d # c
      BY <1>1, <1>2, <2>1, <2>2, OthersAgree
    <2>3. CASE d = c
      <3>1. \A i \in 1 .. Len(down'[c]) : down'[c][i].type # "snapshot"
        BY <1>3, MessageFacts, Elements
      <3> QED
        BY <1>1, <1>2, <2>1, <2>3, <3>1 DEF Agreeing, Unsent
    <2> QED
      BY <2>2, <2>3
  <1>8. Sequential'
    BY <1>1, <1>5, <1>6, <1>7, SequentialFrame DEF SyncInv
  <1> QED
    BY <1>4, <1>8 DEF SyncInv

(* A client that has joined has what the host had when it sent the         *)
(* snapshot, and what came since is behind it.                             *)
LEMMA ReadSnapshotSyncs ==
  ASSUME Inv, SyncInv, NEW c \in Clients, ReadSnapshot(c)
  PROVE  SyncInv'
  <1> DEFINE m == Head(down[c])
  <1>1. /\ UNCHANGED <<writing, outbox, handler, relay, listed, chan, up, raced>>
        /\ client[c] = "sync" /\ down[c] # <<>>
        /\ \/ /\ m.type = "snapshot" /\ val' = Apply(c, m.val)
              /\ client' = [client EXCEPT ![c] = "on"] /\ down' = [down EXCEPT ![c] = Tail(@)]
           \/ /\ GiveUp(c) /\ down' = [down EXCEPT ![c] = <<>>]
              /\ UNCHANGED val
    BY DEF ReadSnapshot, history
  <1>2. /\ down[c] \in Seq(Message) /\ c \in Sites /\ c # Host /\ Host \in Sites
        /\ val \in [Sites -> Values \cup {None}]
    BY NetSyncAssumption DEF Inv, TypeOK, Sites
  <1>3. /\ m = down[c][1] /\ 1 \in 1 .. Len(down[c]) /\ m \in Message
        /\ Len(Tail(down[c])) = Len(down[c]) - 1 /\ Len(down[c]) \in Nat
        /\ \A i \in 1 .. Len(down[c]) - 1 : Tail(down[c])[i] = down[c][i + 1]
        /\ Tail(down[c]) \in Seq(Message)
    BY <1>1, <1>2, Elements
  <1> HIDE DEF m
  <1>4. CASE /\ m.type = "snapshot" /\ val' = Apply(c, m.val)
             /\ client' = [client EXCEPT ![c] = "on"] /\ down' = [down EXCEPT ![c] = Tail(@)]
    <2>1. /\ client'[c] = "on" /\ down'[c] = Tail(down[c])
          /\ \A d \in Clients : d # c => client'[d] = client[d] /\ down'[d] = down[d]
      BY <1>4 DEF Inv, TypeOK
    <2>2. /\ val'[c] = IF m.val = None THEN val[c] ELSE m.val
          /\ \A s \in Sites : s # c => val'[s] = val[s]
      BY <1>2, <1>4 DEF Apply
    <2>3. handler[c] = "serve" /\ up[c] = <<>> /\ down'[c] \in Seq(Sets)
      <3>1. m \notin Sets
        BY <1>4, MessageFacts
      <3>2. ~(down[c] \in Seq(Sets))
        BY <1>3, <3>1, Elements
      <3>3. /\ handler[c] = "serve" /\ up[c] = <<>>
            /\ \E n \in 1 .. Len(down[c]) :
                 \A i \in 1 .. Len(down[c]) : i # n => down[c][i] \in Sets
        BY <1>1, <3>2 DEF SyncInv, Joining
      <3>4. \A i \in 1 .. Len(down[c]) : i # 1 => down[c][i] \in Sets
        BY <1>3, <3>1, <3>3
      <3>5. \A i \in 1 .. Len(down'[c]) : down'[c][i] \in Sets
        <4>1. \A i \in 1 .. Len(down'[c]) : i + 1 \in 1 .. Len(down[c]) /\ i + 1 # 1
          BY <1>3, <2>1
        <4> QED
          BY <1>3, <2>1, <3>4, <4>1
      <3> QED
        BY <1>3, <2>1, <3>3, <3>5, SeqOfElements
    <2>4. \A d \in Clients : Joining(d)'
      <3>1. Joining(c)'
        BY <1>1, <2>1, <2>3, Nothing DEF Joining, Gone
      <3>2. \A d \in Clients : d # c => Joining(d)'
        BY <1>1, <2>1, JoiningFrame DEF SyncInv
      <3> QED
        BY <3>1, <3>2
    <2>5. ASSUME NEW x, FromHost(x) PROVE FromHost(x)'
      <3>1. down'[c] \in Seq(Bearing(x))
        BY <1>1, <2>1, <2>5, Elements DEF FromHost
      <3> QED
        BY <1>1, <2>1, <2>5, <3>1 DEF FromHost
    <2>6. \A x : \A d \in Clients : FromClient(d, x) => FromClient(d, x)'
      BY <1>1 DEF FromClient
    <2>7. val'[Host] = val[Host]
      BY <1>2, <2>2
    <2>8. ASSUME ~raced', NEW d \in Clients PROVE Agreeing(d)'
      <3>1. Agreeing(d)
        BY <1>1, <2>8 DEF SyncInv, Sequential
      <3>2. CASE d # c
        <4>1. val'[d] = val[d]
          BY <2>2, <3>2 DEF Sites
        <4> QED
          BY <1>1, <2>1, <2>7, <3>1, <3>2, <4>1, OthersAgree
      <3>3. CASE d = c
        <4>1. ~Unsent(c)
          BY <1>1, <3>1, <3>3 DEF Agreeing
        <4>2. FromClient(c, val[c])'
          <5>1. outbox[c] = <<>> /\ \A w \in Workers : writing[<<c, w>>] = None
            BY <4>1 DEF Unsent
          <5> QED
            BY <1>1, <2>3, <5>1, Nothing DEF FromClient
        <4>3. c \in listed => m.val = val[Host] \/ Coming(c)
          BY <1>1, <1>3, <1>4, <3>1, <3>3 DEF Agreeing
        <4>4. Coming(c) => Coming(c)'
          <5>1. Carries(down[c]) => Carries(down'[c])
            BY <1>1, <1>2, <1>3, <1>4, <2>1, CarriesMore DEF m
          <5> QED
            BY <1>1, <5>1 DEF Coming, Unsent
        <4>5. m.val = val[Host] => val'[Host] = None \/ val'[c] = val'[Host]
          BY <2>2, <2>7
        <4> QED
          BY <1>1, <2>1, <3>3, <4>2, <4>3, <4>4, <4>5 DEF Agreeing
      <3> QED
        BY <3>2, <3>3
    <2>9. Sequential'
      BY <1>1, <2>5, <2>6, <2>7, <2>8, SequentialFrame DEF SyncInv
    <2> QED
      BY <2>4, <2>9 DEF SyncInv
  <1>5. CASE /\ GiveUp(c) /\ down' = [down EXCEPT ![c] = <<>>]
             /\ UNCHANGED val
    <2>1. /\ Gone(c)' /\ client'[c] # "on" /\ client'[c] # "sync" /\ down'[c] = <<>>
          /\ \A d \in Clients : d # c => client'[d] = client[d] /\ down'[d] = down[d]
      BY <1>5 DEF Inv, TypeOK, GiveUp, Gone
    <2>2. \A d \in Clients : Joining(d)'
      <3>1. Joining(c)'
        BY <2>1 DEF Joining, Gone
      <3>2. \A d \in Clients : d # c => Joining(d)'
        BY <1>1, <2>1, JoiningFrame DEF SyncInv
      <3> QED
        BY <3>1, <3>2
    <2>3. ASSUME NEW x, FromHost(x) PROVE FromHost(x)'
      BY <1>1, <2>1, <2>3, Nothing DEF FromHost
    <2>4. \A x : \A d \in Clients : FromClient(d, x) => FromClient(d, x)'
      BY <1>1 DEF FromClient
    <2>5. ASSUME ~raced', NEW d \in Clients PROVE Agreeing(d)'
      <3>1. Agreeing(d)
        BY <1>1, <2>5 DEF SyncInv, Sequential
      <3>2. CASE d # c
        BY <1>1, <1>5, <2>1, <3>1, <3>2, OthersAgree
      <3>3. CASE d = c
        BY <1>1, <2>1, <3>1, <3>3 DEF Agreeing, Unsent
      <3> QED
        BY <3>2, <3>3
    <2>6. Sequential'
      BY <1>1, <1>5, <2>3, <2>4, <2>5, SequentialFrame DEF SyncInv
    <2> QED
      BY <2>2, <2>6 DEF SyncInv
  <1> QED
    BY <1>1, <1>4, <1>5

(* A Set that is applied is of the value the host has.                     *)
LEMMA ReadSetSyncs ==
  ASSUME Inv, SyncInv, NEW c \in Clients, ReadSet(c)
  PROVE  SyncInv'
  <1> DEFINE m == Head(down[c])
  <1>1. /\ UNCHANGED <<writing, outbox, client, handler, relay, listed, chan, up, raced>>
        /\ client[c] = "on" /\ down[c] # <<>>
        /\ val' = Apply(c, m.val) /\ down' = [down EXCEPT ![c] = Tail(@)]
    BY DEF ReadSet, history
  <1>2. /\ c \in Sites /\ c # Host /\ Host \in Sites
        /\ val \in [Sites -> Values \cup {None}]
    BY NetSyncAssumption DEF Inv, TypeOK, Sites
  <1>3. /\ handler[c] = "serve" /\ up[c] \in Seq(Sets) /\ down[c] \in Seq(Sets)
    BY <1>1 DEF SyncInv, Joining
  <1>4. m \in Sets /\ Tail(down[c]) \in Seq(Sets)
    BY <1>1, <1>3, Elements
  <1>5. m.type = "set" /\ m.val \in Values /\ m.val # None
    BY <1>4, MessageFacts, NetSyncAssumption
  <1>6. /\ down'[c] = Tail(down[c]) /\ \A d \in Clients : d # c => down'[d] = down[d]
    BY <1>1 DEF Inv, TypeOK
  <1>7. ASSUME NEW x, FromHost(x) PROVE FromHost(x)' /\ m.val = x
    <2>1. down'[c] \in Seq(Bearing(x)) /\ m \in Bearing(x)
      BY <1>1, <1>6, <1>7, Elements DEF FromHost
    <2>2. m.val = x
      BY <2>1, <1>5 DEF Bearing
    <2> QED
      BY <1>1, <1>6, <1>7, <2>1, <2>2 DEF FromHost
  <1> HIDE DEF m
  <1>8. val'[c] = m.val /\ \A s \in Sites : s # c => val'[s] = val[s]
    BY <1>1, <1>2, <1>5 DEF Apply
  <1>9. \A d \in Clients : Joining(d)'
    <2>1. Joining(c)'
      BY <1>1, <1>3, <1>4, <1>6 DEF Joining, Gone
    <2>2. \A d \in Clients : d # c => Joining(d)'
      BY <1>1, <1>6, JoiningFrame DEF SyncInv
    <2> QED
      BY <2>1, <2>2
  <1>10. \A x : \A d \in Clients : FromClient(d, x) => FromClient(d, x)'
    BY <1>1 DEF FromClient
  <1>11. val'[Host] = val[Host]
    BY <1>2, <1>8
  <1>12. ASSUME ~raced', NEW d \in Clients PROVE Agreeing(d)'
    <2>1. Agreeing(d) /\ OneValue /\ FromHost(val[Host])
      BY <1>1, <1>12 DEF SyncInv, Sequential
    <2>2. CASE d # c
      <3>1. val'[d] = val[d]
        BY <1>8, <2>2 DEF Sites
      <3> QED
        BY <1>1, <1>6, <1>11, <2>1, <2>2, <3>1, OthersAgree
    <2>3. CASE d = c
      <3>1. PICK x \in Values \cup {None} : FromHost(x) /\ FromClient(c, x)
        BY <2>1 DEF OneValue
      <3>2. FromClient(c, val[c])'
        BY <1>7, <1>8, <1>10, <3>1
      <3>3. val'[c] = val'[Host]
        BY <1>7, <1>8, <1>11, <2>1
      <3> QED
        BY <1>1, <2>3, <3>2, <3>3 DEF Agreeing
    <2> QED
      BY <2>2, <2>3
  <1>13. Sequential'
    BY <1>1, <1>7, <1>10, <1>11, <1>12, SequentialFrame DEF SyncInv
  <1> QED
    BY <1>9, <1>13 DEF SyncInv

(* A client sends what its channel holds.                                  *)
LEMMA SendSetSyncs ==
  ASSUME Inv, SyncInv, NEW c \in Clients, SendSet(c)
  PROVE  SyncInv'
  <1> DEFINE v == Head(outbox[c])
             m == Msg("set", v)
  <1>1. /\ UNCHANGED <<val, writing, client, handler, relay, listed, chan, down, raced>>
        /\ client[c] = "on" /\ outbox[c] # <<>>
        /\ up' = [up EXCEPT ![c] = Append(@, m)] /\ outbox' = [outbox EXCEPT ![c] = Tail(@)]
    BY DEF SendSet, history
  <1>2. /\ c \in Sites /\ Host \in Sites /\ \A d \in Clients : d \in Sites /\ d # Host
        /\ outbox[c] \in Seq(Values) /\ up[c] \in Seq(Message)
    BY NetSyncAssumption DEF Inv, TypeOK, Sites
  <1>3. /\ up'[c] = Append(up[c], m) /\ outbox'[c] = Tail(outbox[c])
        /\ outbox'[Host] = outbox[Host]
        /\ \A d \in Clients : d # c => up'[d] = up[d] /\ outbox'[d] = outbox[d]
    BY <1>1, <1>2 DEF Inv, TypeOK
  <1>4. v \in Values
    BY <1>1, <1>2, Elements
  <1>5. m \in Sets /\ m \in Bearing(v) /\ m \in Message /\ m.type = "set"
    BY <1>4, MessageFacts
  <1>6. ASSUME NEW x, outbox[c] \in Seq({x}) PROVE v = x /\ outbox'[c] \in Seq({x})
    BY <1>1, <1>3, <1>6, Elements
  <1> HIDE DEF v, m
  <1>7. \A d \in Clients : Joining(d)'
    <2>1. handler[c] = "serve" /\ up[c] \in Seq(Sets) /\ down[c] \in Seq(Sets)
      BY <1>1 DEF SyncInv, Joining
    <2>2. up'[c] \in Seq(Sets)
      BY <1>3, <1>5, <2>1, Elements
    <2>3. Joining(c)'
      BY <1>1, <2>1, <2>2 DEF Joining, Gone
    <2>4. \A d \in Clients : d # c => Joining(d)'
      BY <1>1, <1>3, JoiningFrame DEF SyncInv
    <2> QED
      BY <2>3, <2>4
  <1>8. \A x : FromHost(x) => FromHost(x)'
    BY <1>1, <1>3 DEF FromHost
  <1>9. ASSUME NEW d \in Clients, NEW x, FromClient(d, x) PROVE FromClient(d, x)'
    <2>1. CASE d = c
      <3>1. v = x /\ outbox'[c] \in Seq({x})
        BY <1>6, <1>9, <2>1 DEF FromClient
      <3>2. up'[c] \in Seq(Bearing(x))
        BY <1>3, <1>5, <1>9, <2>1, <3>1, Elements DEF FromClient
      <3> QED
        BY <1>1, <1>9, <2>1, <3>1, <3>2 DEF FromClient
    <2>2. CASE d # c
      BY <1>1, <1>3, <1>9, <2>2 DEF FromClient
    <2> QED
      BY <2>1, <2>2
  <1>10. ASSUME ~raced', NEW d \in Clients PROVE Agreeing(d)'
    <2>1. Agreeing(d)
      BY <1>1, <1>10 DEF SyncInv, Sequential
    <2>2. CASE d # c
      BY <1>1, <1>3, <2>1, <2>2, OthersAgree
    <2>3. CASE d = c
      <3>1. Going(c)'
        BY <1>2, <1>3, <1>5, CarriesMore DEF Going
      <3>2. FromClient(c, val[c])'
        BY <1>1, <1>9, <2>1, <2>3 DEF Agreeing
      <3> QED
        BY <1>1, <2>3, <3>1, <3>2 DEF Agreeing
    <2> QED
      BY <2>2, <2>3
  <1>11. Sequential'
    BY <1>1, <1>8, <1>9, <1>10, SequentialFrame DEF SyncInv
  <1> QED
    BY <1>7, <1>11 DEF SyncInv

(* A connection is lost when its client has nothing unsent.                *)
LEMMA BreakSyncs ==
  ASSUME Inv, SyncInv, NEW c \in Clients, Break(c)
  PROVE  SyncInv'
  <1>1. /\ UNCHANGED <<val, writing, outbox, handler, relay, listed, chan>>
        /\ GiveUp(c) /\ down' = [down EXCEPT ![c] = <<>>]
        /\ \E n \in 0 .. Len(up[c]) : up' = [up EXCEPT ![c] = SubSeq(@, 1, n)]
        /\ raced' = (raced \/ Unsent(c))
    BY DEF Break
  <1>2. PICK n \in 0 .. Len(up[c]) : up' = [up EXCEPT ![c] = SubSeq(@, 1, n)]
    BY <1>1
  <1>3. /\ Gone(c)' /\ client'[c] # "on" /\ client'[c] # "sync" /\ down'[c] = <<>> /\ up'[c] = SubSeq(up[c], 1, n)
        /\ \A d \in Clients : d # c => /\ client'[d] = client[d] /\ down'[d] = down[d]
                                       /\ up'[d] = up[d]
    BY <1>1, <1>2 DEF Inv, TypeOK, GiveUp, Gone
  <1>4. \A d \in Clients : Joining(d)'
    <2>1. Joining(c)'
      BY <1>3 DEF Joining, Gone
    <2>2. \A d \in Clients : d # c => Joining(d)'
      BY <1>1, <1>3, JoiningFrame DEF SyncInv
    <2> QED
      BY <2>1, <2>2
  <1>5. ASSUME NEW x, FromHost(x) PROVE FromHost(x)'
    BY <1>1, <1>3, <1>5, Nothing DEF FromHost
  <1>6. ASSUME NEW d \in Clients, NEW x, FromClient(d, x) PROVE FromClient(d, x)'
    <2>1. CASE d = c
      <3>1. up'[c] \in Seq(Bearing(x))
        BY <1>3, <1>6, <2>1, SeqFacts DEF FromClient
      <3> QED
        BY <1>1, <1>6, <2>1, <3>1 DEF FromClient
    <2>2. CASE d # c
      BY <1>1, <1>3, <1>6, <2>2 DEF FromClient
    <2> QED
      BY <2>1, <2>2
  <1>7. ASSUME ~raced', NEW d \in Clients PROVE Agreeing(d)'
    <2>1. Agreeing(d) /\ ~Unsent(c)
      BY <1>1, <1>7 DEF SyncInv, Sequential
    <2>2. CASE d # c
      BY <1>1, <1>3, <2>1, <2>2, OthersAgree
    <2>3. CASE d = c
      BY <1>1, <1>3, <2>1, <2>3 DEF Agreeing, Unsent
    <2> QED
      BY <2>2, <2>3
  <1>8. Sequential'
    BY <1>1, <1>5, <1>6, <1>7, SequentialFrame DEF SyncInv
  <1> QED
    BY <1>4, <1>8 DEF SyncInv

(* Nobody is connected and nothing is written initially.                   *)
LEMMA InitSyncs == Init => SyncInv
  <1> SUFFICES ASSUME Init PROVE SyncInv
    OBVIOUS
  <1>1. /\ \A s \in Sites : val[s] = None /\ outbox[s] = <<>>
        /\ \A s \in Sites, w \in Workers : writing[<<s, w>>] = None
        /\ \A c \in Clients : /\ client[c] = "off" /\ relay[c] = None /\ chan[c] = <<>>
                              /\ up[c] = <<>> /\ down[c] = <<>>
        /\ Host \in Sites /\ \A c \in Clients : c \in Sites
    BY DEF Init, Sites
  <1>2. \A x : FromHost(x) /\ \A c \in Clients : FromClient(c, x)
    BY <1>1, Nothing DEF FromHost, FromClient
  <1>3. OneValue /\ FromHost(val[Host])
    BY <1>2 DEF OneValue
  <1>4. \A c \in Clients : Agreeing(c) /\ Joining(c)
    BY <1>1 DEF Agreeing, Joining, Unsent
  <1> QED
    BY <1>3, <1>4 DEF SyncInv, Sequential

(* Every step keeps what is known of the values on their way.              *)
LEMMA NextSyncs == Inv /\ SyncInv /\ [Next]_vars => SyncInv'
  <1> SUFFICES ASSUME Inv, SyncInv, [Next]_vars PROVE SyncInv'
    OBVIOUS
  <1>1. CASE \E s \in Sites, w \in Workers : Publish(s, w) \/ \E v \in Values : Write(s, w, v)
    BY <1>1, PublishSyncs, WriteSyncs
  <1>2. CASE Broadcast
    BY <1>2, BroadcastSyncs
  <1>3. CASE \E c \in Clients : HandlerStep(c)
    BY <1>3, GreetSyncs, RegisterSyncs, HandlerReadSyncs, RelaySyncs, DeliverSyncs,
       HandlerEndsSyncs DEF HandlerStep
  <1>4. CASE \E c \in Clients : ClientStep(c)
    BY <1>4, ConnectSyncs, ReadHiSyncs, ReadSnapshotSyncs, ReadSetSyncs, SendSetSyncs
    DEF ClientStep
  <1>5. CASE \E c \in Clients : Break(c)
    BY <1>5, BreakSyncs
  <1>6. CASE UNCHANGED vars
    <2>1. /\ UNCHANGED <<val, writing, outbox, client, handler, relay, listed, chan, up, down>>
          /\ UNCHANGED raced
      BY <1>6 DEF vars, net, history
    <2>2. \A c \in Clients : Joining(c)'
      BY <2>1, JoiningFrame DEF SyncInv
    <2>3. \A c \in Clients : Coming(c) => Coming(c)'
      BY <2>1 DEF Coming, Unsent
    <2>4. ~raced' => \A c \in Clients : Agreeing(c)'
      BY <2>1, <2>3, AgreeingFrame DEF SyncInv, Sequential
    <2>5. \A x : /\ FromHost(x) => FromHost(x)'
                 /\ \A c \in Clients : FromClient(c, x) => FromClient(c, x)'
      BY <2>1 DEF FromHost, FromClient
    <2>6. Sequential'
      BY <2>1, <2>4, <2>5, SequentialFrame DEF SyncInv
    <2> QED
      BY <2>2, <2>6 DEF SyncInv
  <1> QED
    BY <1>1, <1>2, <1>3, <1>4, <1>5, <1>6 DEF Next

(* Writes that do not overlap reach everyone who is connected and listed.  *)
THEOREM WritesConverge == Spec => []SequentialWritesConverge
  <1>1. Inv /\ SyncInv => SequentialWritesConverge
    <2> SUFFICES ASSUME Inv, SyncInv, ~raced, Settled, NEW c \in listed, client[c] = "on"
                 PROVE  val[c] = val[Host] \/ val[Host] = None
      BY DEF SequentialWritesConverge
    <2>1. c \in Clients /\ Host \in Sites /\ c \in Sites
      BY DEF Inv, TypeOK, Sites
    <2>2. ~Coming(c) /\ ~Going(c)
      BY <2>1 DEF Settled, Coming, Going, Unsent
    <2> QED
      BY <2>1, <2>2 DEF SyncInv, Sequential, Agreeing
  <1> QED
    BY <1>1, Initially, InvNext, InitSyncs, NextSyncs, PTL DEF Spec
=============================================================================
