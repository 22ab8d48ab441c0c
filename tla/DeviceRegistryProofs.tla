------------------------- MODULE DeviceRegistryProofs -------------------------
(***************************************************************************)
(* Proofs about DeviceRegistry for every set of names, adapters and        *)
(* threads.                                                                *)
(*                                                                         *)
(* Two facts about mru carry the registry: what taking a name out leaves,  *)
(* and what touching a name makes of it.  Every operation is then one of   *)
(* four for the fields of PortManager: it adds a name, drops one, drops    *)
(* all, or touches one, and each keeps the registry exact.                 *)
(***************************************************************************)
EXTENDS DeviceRegistry, TLAPS

(* A thread that no rival overtook would replace a dead device at most.    *)
ReplacesNoLive ==
  \A c \in Clients : client[c] # Idle /\ ~client[c].rival => ~Alive(client[c].name)

(* What the watchdog listed stays dead: an adapter is connected once.      *)
ListedAreDead == \A n \in Names, a \in Adapters : <<n, a>> \in reported => a \notin linked

Inv == TypeOK /\ ActiveRegistered /\ RecencyExact /\ ReplacesNoLive /\ ListedAreDead

----------------------------------------------------------------------------
(* Sequences that hold a name once.                                        *)

(* Dropping a name leaves the others once each, in their order.            *)
LEMMA WithoutExact ==
  ASSUME mru \in Seq(Names), IsInjective(mru), NEW n \in Names
  PROVE  /\ Without(n) \in Seq(Names) /\ IsInjective(Without(n))
         /\ ToSet(Without(n)) = ToSet(mru) \ {n}
  <1>1. CASE n \notin ToSet(mru)
    BY <1>1 DEF Without
  <1>2. CASE n \in ToSet(mru)
    <2> DEFINE p == Place(n)
               t == [i \in 1 .. Len(mru) - 1 |-> IF i < p THEN mru[i] ELSE mru[i + 1]]
    <2>1. p \in 1 .. Len(mru) /\ mru[p] = n
      BY <1>2 DEF Place, ToSet
    <2>2. Len(mru) \in Nat /\ Len(mru) - 1 \in Nat /\ \A i \in 1 .. Len(mru) : mru[i] \in Names
      BY <2>1
    <2> HIDE DEF p
    <2>3. t \in Seq(Names) /\ Len(t) = Len(mru) - 1
      BY <2>1, <2>2
    <2>4. \A i \in 1 .. Len(mru) - 1 : t[i] = IF i < p THEN mru[i] ELSE mru[i + 1]
      OBVIOUS
    <2>5. \A i, j \in 1 .. Len(mru) : mru[i] = mru[j] => i = j
      BY DEF IsInjective
    <2> HIDE DEF t
    <2>6. IsInjective(t)
      <3> SUFFICES ASSUME NEW i \in 1 .. Len(mru) - 1, NEW j \in 1 .. Len(mru) - 1, t[i] = t[j]
                   PROVE  i = j
        BY <2>3 DEF IsInjective
      <3> QED
        BY <2>1, <2>2, <2>4, <2>5
    <2>7. ToSet(t) \subseteq ToSet(mru) \ {n}
      <3> SUFFICES ASSUME NEW i \in 1 .. Len(mru) - 1
                   PROVE  t[i] \in ToSet(mru) /\ t[i] # n
        BY <2>3 DEF ToSet
      <3> QED
        BY <2>1, <2>2, <2>4, <2>5 DEF ToSet
    <2>8. ToSet(mru) \ {n} \subseteq ToSet(t)
      <3> SUFFICES ASSUME NEW i \in 1 .. Len(mru), mru[i] # n
                   PROVE  \E j \in 1 .. Len(mru) - 1 : t[j] = mru[i]
        BY <2>3 DEF ToSet
      <3>1. CASE i < p
        BY <3>1, <2>1, <2>2, <2>4
      <3>2. CASE i > p
        <4>1. i - 1 \in 1 .. Len(mru) - 1 /\ ~(i - 1 < p) /\ (i - 1) + 1 = i
          BY <3>2, <2>1, <2>2
        <4> QED
          BY <4>1, <2>4
      <3> QED
        BY <3>1, <3>2, <2>1, <2>2
    <2> QED
      BY <1>2, <2>3, <2>6, <2>7, <2>8 DEF Without, t, p
  <1> QED
    BY <1>1, <1>2

(* Touching a name puts it last, once.                                     *)
LEMMA TouchedExact ==
  ASSUME mru \in Seq(Names), IsInjective(mru), NEW n \in Names
  PROVE  /\ Touched(n) \in Seq(Names) /\ IsInjective(Touched(n))
         /\ ToSet(Touched(n)) = ToSet(mru) \cup {n}
  <1> DEFINE w == Without(n)
             t == Append(w, n)
  <1>1. w \in Seq(Names) /\ IsInjective(w) /\ ToSet(w) = ToSet(mru) \ {n}
    BY WithoutExact
  <1> HIDE DEF w
  <1>2. t \in Seq(Names) /\ Len(t) = Len(w) + 1 /\ Len(w) \in Nat
    BY <1>1
  <1>3. t[Len(w) + 1] = n /\ \A i \in 1 .. Len(w) : t[i] = w[i] /\ w[i] # n
    <2>1. \A i \in 1 .. Len(w) : w[i] \in ToSet(w)
      BY <1>1 DEF ToSet
    <2> QED
      BY <1>1, <2>1
  <1>4. \A i, j \in 1 .. Len(w) : w[i] = w[j] => i = j
    BY <1>1 DEF IsInjective
  <1> HIDE DEF t
  <1>5. IsInjective(t)
    <2> SUFFICES ASSUME NEW i \in 1 .. Len(w) + 1, NEW j \in 1 .. Len(w) + 1, t[i] = t[j]
                 PROVE  i = j
      BY <1>2 DEF IsInjective
    <2> QED
      BY <1>2, <1>3, <1>4
  <1>6. ToSet(t) = ToSet(w) \cup {n}
    <2>1. DOMAIN t = 1 .. Len(w) + 1 /\ DOMAIN w = 1 .. Len(w)
      BY <1>1, <1>2
    <2>2. ToSet(t) \subseteq ToSet(w) \cup {n}
      <3> SUFFICES ASSUME NEW i \in 1 .. Len(w) + 1
                   PROVE  t[i] \in ToSet(w) \cup {n}
        BY <2>1 DEF ToSet
      <3> QED
        BY <1>2, <1>3, <2>1 DEF ToSet
    <2>3. ToSet(w) \subseteq ToSet(t)
      <3> SUFFICES ASSUME NEW i \in 1 .. Len(w)
                   PROVE  w[i] \in ToSet(t)
        BY <2>1 DEF ToSet
      <3>1. i \in DOMAIN t /\ t[i] = w[i]
        BY <1>2, <1>3, <2>1
      <3> QED
        BY <3>1 DEF ToSet
    <2>4. n \in ToSet(t)
      <3>1. Len(w) + 1 \in DOMAIN t /\ t[Len(w) + 1] = n
        BY <1>2, <1>3, <2>1
      <3> QED
        BY <3>1 DEF ToSet
    <2> QED
      BY <2>2, <2>3, <2>4
  <1> QED
    BY <1>1, <1>2, <1>5, <1>6 DEF Touched, t, w

(* The last of a list is one of it.                                        *)
LEMMA LastOf ==
  ASSUME NEW s \in Seq(Names), s # <<>>
  PROVE  Last(s) \in ToSet(s)
  <1>1. Len(s) \in DOMAIN s
    OBVIOUS
  <1> QED
    BY <1>1 DEF Last, ToSet

(* Only the empty list lists nobody.                                       *)
LEMMA EmptyOf ==
  ASSUME NEW s \in Seq(Names)
  PROVE  ToSet(s) = {} <=> s = <<>>
  <1>1. CASE s = <<>>
    BY <1>1 DEF ToSet
  <1>2. CASE s # <<>>
    BY <1>2, LastOf
  <1> QED
    BY <1>1, <1>2

----------------------------------------------------------------------------
(* The registry's four changes.                                            *)

Exact == ActiveRegistered /\ RecencyExact
RegistryTypeOK ==
  /\ devices \in [Names -> Adapters \cup {None}]
  /\ shown \in [Names -> Nat] /\ mru \in Seq(Names)
  /\ active \in Names \cup {None}

LEMMA RemovalKeeps ==
  ASSUME TypeOK, Exact, NEW n \in Names, RemoveDevice(n)
  PROVE  RegistryTypeOK' /\ Exact' /\ linked' \subseteq linked
  <1>1. /\ mru' \in Seq(Names) /\ IsInjective(mru') /\ ToSet(mru') = ToSet(mru) \ {n}
    BY WithoutExact DEF TypeOK, Exact, RecencyExact, RemoveDevice
  <1>2. /\ devices' \in [Names -> Adapters \cup {None}] /\ shown' \in [Names -> Nat]
        /\ Registered' = Registered \ {n}
        /\ {m \in Names : shown'[m] > 0} = {m \in Names : shown[m] > 0} \ {n}
    BY DEF TypeOK, RemoveDevice, Registered
  <1>3. RecencyExact'
    BY <1>1, <1>2 DEF Exact, RecencyExact
  <1>4. active' \in Names \cup {None} /\ ActiveRegistered'
    <2>1. CASE active # n
      BY <2>1, <1>2 DEF TypeOK, Exact, ActiveRegistered, RemoveDevice, Registered
    <2>2. CASE active = n /\ mru' = <<>>
      <3>1. active' = None
        BY <2>2 DEF RemoveDevice
      <3>2. Registered' = {}
        BY <2>2, <1>1, <1>3, EmptyOf DEF RecencyExact
      <3> QED
        BY <3>1, <3>2 DEF ActiveRegistered
    <2>3. CASE active = n /\ mru' # <<>>
      <3>1. active' = Last(mru') /\ active' \in ToSet(mru')
        BY <2>3, <1>1, LastOf DEF RemoveDevice
      <3>2. active' \in Registered'
        BY <3>1, <1>3 DEF RecencyExact
      <3>3. active' \in Names
        BY <3>2 DEF Registered
      <3> QED
        BY <3>2, <3>3 DEF ActiveRegistered
    <2> QED
      BY <2>1, <2>2, <2>3
  <1> QED
    BY <1>1, <1>2, <1>3, <1>4 DEF RegistryTypeOK, Exact, RemoveDevice

LEMMA AdditionKeeps ==
  ASSUME TypeOK, Exact, NEW c \in Clients, AddDevice(c)
  PROVE  /\ RegistryTypeOK' /\ Exact' /\ linked' \subseteq linked
         /\ client[c].name \in Names
         /\ devices' = [devices EXCEPT ![client[c].name] = client[c].adapter]
  <1> DEFINE n == client[c].name
             a == client[c].adapter
  <1>1. n \in Names /\ a \in Adapters
    BY DEF TypeOK, AddDevice, Connecting, Idle
  <1>2. mru' = Touched(n) /\ devices' = [devices EXCEPT ![n] = a]
        /\ shown' = [shown EXCEPT ![n] = @ + 1] /\ linked' \subseteq linked
        /\ active' = IF Registered \cup {n} = {n} THEN n ELSE active
    BY DEF AddDevice
  <1>3. /\ mru' \in Seq(Names) /\ IsInjective(mru') /\ ToSet(mru') = ToSet(mru) \cup {n}
    BY <1>1, <1>2, TouchedExact DEF TypeOK, Exact, RecencyExact
  <1> HIDE DEF n, a
  <1>4. /\ devices' \in [Names -> Adapters \cup {None}] /\ shown' \in [Names -> Nat]
        /\ {m \in Names : shown'[m] > 0} = {m \in Names : shown[m] > 0} \cup {n}
    BY <1>1, <1>2 DEF TypeOK
  <1>5. Registered' = Registered \cup {n}
    BY <1>1, <1>2, DeviceRegistryAssumption DEF TypeOK, Registered
  <1>6. RecencyExact'
    BY <1>3, <1>4, <1>5 DEF Exact, RecencyExact
  <1>7. active' \in Names \cup {None} /\ ActiveRegistered'
    BY <1>1, <1>2, <1>5 DEF TypeOK, Exact, ActiveRegistered
  <1> QED
    BY <1>1, <1>2, <1>3, <1>4, <1>6, <1>7 DEF RegistryTypeOK, Exact, n, a

LEMMA RemoveAllKeeps ==
  ASSUME TypeOK, RemoveAll
  PROVE  RegistryTypeOK' /\ Exact' /\ linked' \subseteq linked
  <1>1. /\ mru' = <<>> /\ devices' = [n \in Names |-> None]
        /\ shown' = [n \in Names |-> 0] /\ active' = None /\ linked' \subseteq linked
    BY DEF RemoveAll
  <1>2. mru' \in Seq(Names) /\ IsInjective(mru') /\ ToSet(mru') = {}
    BY <1>1 DEF IsInjective, ToSet
  <1>3. Registered' = {} /\ {n \in Names : shown'[n] > 0} = {}
    BY <1>1 DEF Registered
  <1> QED
    BY <1>1, <1>2, <1>3 DEF RegistryTypeOK, Exact, ActiveRegistered, RecencyExact

LEMMA UseKeeps ==
  ASSUME TypeOK, Exact, NEW c \in Clients, NEW n \in Names, Use(c, n)
  PROVE  RegistryTypeOK' /\ Exact'
  <1>1. mru' \in Seq(Names) /\ IsInjective(mru') /\ ToSet(mru') = ToSet(mru) \cup {n}
    BY TouchedExact DEF TypeOK, Exact, RecencyExact, Use
  <1>2. UNCHANGED <<devices, shown>> /\ active' = n /\ n \in Registered
    BY DEF Use
  <1>3. Registered' = Registered
    BY <1>2 DEF Registered
  <1> QED
    BY <1>1, <1>2, <1>3 DEF TypeOK, RegistryTypeOK, Exact, ActiveRegistered, RecencyExact

LEMMA UnchangedKeeps ==
  ASSUME TypeOK, Exact, UNCHANGED registry
  PROVE  RegistryTypeOK' /\ Exact'
  BY DEF TypeOK, RegistryTypeOK, Exact, ActiveRegistered, RecencyExact, Registered, registry

----------------------------------------------------------------------------
(* The threads, the links and the watchdog's list.                         *)

RestTypeOK ==
  /\ linked \subseteq Adapters
  /\ config \in Clients \cup {None}
  /\ client \in [Clients -> Connecting]
  /\ reported \subseteq Names \X Adapters

LEMMA Shapes ==
  ASSUME TypeOK
  PROVE  /\ \A c \in Clients :
              /\ client[c] = Idle <=> client[c].pc = "idle"
              /\ client[c] # Idle => client[c].name \in Names /\ client[c].rival \in BOOLEAN
              /\ client[c].pc = "connected" => client[c].adapter \in Adapters
              /\ client[c].pc = "locked" => client[c] \in
                   [pc : {"locked"}, name : Names, adapter : {None}, rival : BOOLEAN]
              /\ client[c].pc = "checked" => client[c] \in
                   [pc : {"checked"}, name : Names, adapter : {None}, rival : BOOLEAN]
         /\ \A n \in Names : Alive(n) => devices[n] \in Adapters /\ n \in Registered
         /\ None \notin linked
  <1>1. \A c \in Clients : client[c] \in Connecting
    BY DEF TypeOK
  <1> QED
    BY <1>1, DeviceRegistryAssumption DEF TypeOK, Connecting, Idle, Alive, Registered

(* A step that leaves the threads and the list alone and brings no adapter *)
(* to life or under a name.                                                *)
LEMMA QuietKeeps ==
  ASSUME TypeOK, ReplacesNoLive, ListedAreDead, UNCHANGED <<config, client>>,
         linked' \subseteq linked, reported' \subseteq reported,
         \A n \in Names : devices'[n] \in {devices[n], None}
  PROVE  RestTypeOK' /\ ReplacesNoLive' /\ ListedAreDead'
  <1>1. \A n \in Names : Alive(n)' => Alive(n)
    BY Shapes DEF Alive
  <1>2. ReplacesNoLive'
    BY <1>1, Shapes DEF ReplacesNoLive, Idle
  <1> QED
    BY <1>2 DEF TypeOK, RestTypeOK, ListedAreDead

LEMMA CheckNameKeeps ==
  ASSUME Inv, NEW c \in Clients, NEW n \in Names, CheckName(c, n)
  PROVE  Inv'
  <1> DEFINE r == [Idle EXCEPT !.pc = "checked", !.name = n]
  <1>1. r \in Connecting /\ r.name = n
    BY DEF Idle, Connecting
  <1>2. client' = [client EXCEPT ![c] = r] /\ ~Alive(n)
        /\ UNCHANGED <<registry, linked, config, reported>>
    BY DEF CheckName
  <1> HIDE DEF r
  <1>3. RegistryTypeOK' /\ Exact'
    BY <1>2, UnchangedKeeps DEF Inv, Exact
  <1>4. RestTypeOK'
    BY <1>1, <1>2 DEF Inv, TypeOK, RestTypeOK
  <1>5. ReplacesNoLive' /\ ListedAreDead'
    BY <1>1, <1>2 DEF Inv, TypeOK, ReplacesNoLive, ListedAreDead, Alive, Idle, registry
  <1> QED
    BY <1>3, <1>4, <1>5 DEF Inv, Exact, TypeOK, RegistryTypeOK, RestTypeOK

LEMMA LockConfigKeeps ==
  ASSUME Inv, NEW c \in Clients, LockConfig(c)
  PROVE  Inv'
  <1> DEFINE r == [client[c] EXCEPT !.pc = "locked"]
  <1>1. client[c] \in [pc : {"checked"}, name : Names, adapter : {None}, rival : BOOLEAN]
    BY Shapes DEF Inv, LockConfig
  <1>2. /\ r \in [pc : {"locked"}, name : Names, adapter : {None}, rival : BOOLEAN]
        /\ r.name = client[c].name /\ r.rival = client[c].rival
    BY <1>1
  <1>3. client' = [client EXCEPT ![c] = r] /\ config' = c
        /\ UNCHANGED <<registry, linked, reported>>
    BY DEF LockConfig
  <1>4. r \in Connecting /\ client[c] # Idle
    BY <1>1, <1>2 DEF Connecting, Idle
  <1> HIDE DEF r
  <1>5. RegistryTypeOK' /\ Exact'
    BY <1>3, UnchangedKeeps DEF Inv, Exact
  <1>6. RestTypeOK'
    BY <1>3, <1>4 DEF Inv, TypeOK, RestTypeOK
  <1>7. ReplacesNoLive' /\ ListedAreDead'
    BY <1>2, <1>3, <1>4 DEF Inv, TypeOK, ReplacesNoLive, ListedAreDead, Alive, registry
  <1> QED
    BY <1>5, <1>6, <1>7 DEF Inv, Exact, TypeOK, RegistryTypeOK, RestTypeOK

(* A new adapter is nobody's and was never listed.                         *)
LEMMA ConnectKeeps ==
  ASSUME Inv, NEW c \in Clients, Connect(c)
  PROVE  Inv'
  <1>1. PICK a \in FreeAdapters :
          /\ client' = [client EXCEPT ![c].pc = "connected", ![c].adapter = a]
          /\ linked' = linked \cup {a}
    BY DEF Connect
  <1> DEFINE r == [client[c] EXCEPT !.pc = "connected", !.adapter = a]
  <1>2. /\ a \in Adapters
        /\ \A n \in Names : devices[n] # a /\ <<n, a>> \notin reported
    BY <1>1 DEF FreeAdapters
  <1>3. client[c] \in [pc : {"locked"}, name : Names, adapter : {None}, rival : BOOLEAN]
    BY Shapes DEF Inv, Connect
  <1>4. /\ r \in [pc : {"connected"}, name : Names, adapter : Adapters, rival : BOOLEAN]
        /\ r.name = client[c].name /\ r.rival = client[c].rival
    BY <1>2, <1>3
  <1>5. client' = [client EXCEPT ![c] = r] /\ UNCHANGED <<registry, config, reported>>
    BY <1>1, <1>3 DEF Connect, Inv, TypeOK
  <1>6. r \in Connecting /\ client[c] # Idle
    BY <1>3, <1>4 DEF Connecting, Idle
  <1> HIDE DEF r
  <1>7. RegistryTypeOK' /\ Exact'
    BY <1>5, UnchangedKeeps DEF Inv, Exact
  <1>8. RestTypeOK'
    BY <1>1, <1>2, <1>5, <1>6 DEF Inv, TypeOK, RestTypeOK
  <1>9. \A n \in Names : Alive(n)' => Alive(n)
    BY <1>1, <1>2, <1>5 DEF Alive, registry
  <1>10. ReplacesNoLive'
    BY <1>4, <1>5, <1>6, <1>9, Shapes DEF Inv, TypeOK, ReplacesNoLive
  <1>11. ListedAreDead'
    BY <1>1, <1>2, <1>5 DEF Inv, ListedAreDead
  <1> QED
    BY <1>7, <1>8, <1>10, <1>11 DEF Inv, Exact, TypeOK, RegistryTypeOK, RestTypeOK

LEMMA ConnectFailsKeeps ==
  ASSUME Inv, NEW c \in Clients, ConnectFails(c)
  PROVE  Inv'
  <1>1. client' = [client EXCEPT ![c] = Idle] /\ config' = None
        /\ UNCHANGED <<registry, linked, reported>>
    BY DEF ConnectFails
  <1>2. RegistryTypeOK' /\ Exact'
    BY <1>1, UnchangedKeeps DEF Inv, Exact
  <1>3. RestTypeOK'
    BY <1>1 DEF Inv, TypeOK, RestTypeOK, Connecting
  <1>4. ReplacesNoLive' /\ ListedAreDead'
    BY <1>1 DEF Inv, TypeOK, ReplacesNoLive, ListedAreDead, Alive, registry
  <1> QED
    BY <1>2, <1>3, <1>4 DEF Inv, Exact, TypeOK, RegistryTypeOK, RestTypeOK

(* Whoever connects the same name has a rival now.                         *)
LEMMA AddDeviceKeeps ==
  ASSUME Inv, NEW c \in Clients, AddDevice(c)
  PROVE  Inv'
  <1> DEFINE n == client[c].name
             over(d) == [client[d] EXCEPT !.rival = TRUE]
  <1>1. /\ RegistryTypeOK' /\ Exact' /\ linked' \subseteq linked /\ n \in Names
        /\ devices' = [devices EXCEPT ![n] = client[c].adapter]
    BY AdditionKeeps DEF Inv, Exact
  <1>2. /\ client' = [d \in Clients |-> IF d = c THEN Idle
                                        ELSE IF client[d].name = n THEN over(d) ELSE client[d]]
        /\ config' = None /\ UNCHANGED reported
    BY DEF AddDevice
  <1>3. \A d \in Clients : client[d] \in Connecting /\ client[d].name = n =>
          over(d) \in Connecting /\ over(d).rival /\ over(d) # Idle
    <2> SUFFICES ASSUME NEW d \in Clients, client[d] \in Connecting, client[d].name \in Names
                 PROVE  over(d) \in Connecting /\ over(d).rival /\ over(d) # Idle
      BY <1>1
    <2>1. CASE client[d] \in
            [pc : {"checked", "locked"}, name : Names, adapter : {None}, rival : BOOLEAN]
      <3>1. over(d) \in
              [pc : {"checked", "locked"}, name : Names, adapter : {None}, rival : BOOLEAN]
            /\ over(d).rival = TRUE
        BY <2>1
      <3> QED
        BY <3>1 DEF Connecting, Idle
    <2>2. CASE client[d] \in
            [pc : {"connected"}, name : Names, adapter : Adapters, rival : BOOLEAN]
      <3>1. over(d) \in [pc : {"connected"}, name : Names, adapter : Adapters, rival : BOOLEAN]
            /\ over(d).rival = TRUE
        BY <2>2
      <3> QED
        BY <3>1 DEF Connecting, Idle
    <2>3. client[d] # Idle
      BY DeviceRegistryAssumption DEF Idle
    <2> QED
      BY <2>1, <2>2, <2>3 DEF Connecting
  <1> HIDE DEF over
  <1>4. RestTypeOK'
    BY <1>1, <1>2, <1>3 DEF Inv, TypeOK, RestTypeOK, Connecting
  <1>5. ReplacesNoLive'
    <2> SUFFICES ASSUME NEW d \in Clients, client'[d] # Idle, ~client'[d].rival
                 PROVE  devices'[client'[d].name] \notin linked'
      BY DEF ReplacesNoLive, Alive, Idle
    <2>1. d # c /\ client[d].name # n /\ client'[d] = client[d]
      BY <1>2, <1>3 DEF Inv, TypeOK
    <2>2. ~Alive(client[d].name) /\ client[d].name \in Names
      BY <2>1, Shapes DEF Inv, ReplacesNoLive
    <2> QED
      BY <2>1, <2>2, <1>1 DEF Alive, Inv, TypeOK
  <1>6. ListedAreDead'
    BY <1>1, <1>2 DEF Inv, ListedAreDead
  <1> QED
    BY <1>1, <1>4, <1>5, <1>6 DEF Inv, Exact, TypeOK, RegistryTypeOK, RestTypeOK

LEMMA RemoveDeviceKeeps ==
  ASSUME Inv, NEW n \in Names, RemoveDevice(n), UNCHANGED <<config, client>>,
         reported' \subseteq reported
  PROVE  Inv'
  <1>1. RegistryTypeOK' /\ Exact' /\ linked' \subseteq linked
    BY RemovalKeeps DEF Inv, Exact
  <1>2. \A m \in Names : devices'[m] \in {devices[m], None}
    BY DEF RemoveDevice, Inv, TypeOK
  <1>3. RestTypeOK' /\ ReplacesNoLive' /\ ListedAreDead'
    BY <1>1, <1>2, QuietKeeps DEF Inv
  <1> QED
    BY <1>1, <1>3 DEF Inv, Exact, TypeOK, RegistryTypeOK, RestTypeOK

LEMMA OthersKeep ==
  ASSUME Inv,
         \/ RemoveAll
         \/ \E a \in Adapters : LinkLost(a)
         \/ \E c \in Clients, n \in Names : Use(c, n)
         \/ UNCHANGED vars
  PROVE  Inv'
  <1>1. RegistryTypeOK' /\ Exact'
    BY RemoveAllKeeps, UseKeeps, UnchangedKeeps DEF Inv, Exact, LinkLost, vars, registry
  <1>2. /\ UNCHANGED <<config, client, reported>> /\ linked' \subseteq linked
        /\ \A n \in Names : devices'[n] \in {devices[n], None}
    BY DEF RemoveAll, LinkLost, Use, vars, registry
  <1>3. RestTypeOK' /\ ReplacesNoLive' /\ ListedAreDead'
    BY <1>2, QuietKeeps DEF Inv
  <1> QED
    BY <1>1, <1>3 DEF Inv, Exact, TypeOK, RegistryTypeOK, RestTypeOK

LEMMA ListDeadKeeps ==
  ASSUME Inv, ListDead
  PROVE  Inv'
  <1>1. /\ UNCHANGED <<registry, linked, config, client>>
        /\ \A n \in Names, a \in Adapters :
             <<n, a>> \in reported' => a = devices[n] /\ Dead(n)
        /\ reported' \subseteq Names \X Adapters
    BY DEF ListDead, Dead, Registered, Inv, TypeOK
  <1>2. RegistryTypeOK' /\ Exact'
    BY <1>1, UnchangedKeeps DEF Inv, Exact
  <1>3. RestTypeOK' /\ ListedAreDead'
    BY <1>1 DEF Inv, TypeOK, RestTypeOK, ListedAreDead, Dead, Alive
  <1>4. ReplacesNoLive'
    BY <1>1 DEF Inv, ReplacesNoLive, Alive, registry
  <1> QED
    BY <1>2, <1>3, <1>4 DEF Inv, Exact, TypeOK, RegistryTypeOK, RestTypeOK

LEMMA Initially == Init => Inv
  <1> SUFFICES ASSUME Init PROVE Inv
    OBVIOUS
  <1>1. TypeOK
    BY DEF Init, TypeOK, Connecting
  <1>2. Registered = {} /\ ActiveRegistered
    BY DEF Init, Registered, ActiveRegistered
  <1>3. RecencyExact
    BY <1>2 DEF Init, RecencyExact, IsInjective, ToSet
  <1> QED
    BY <1>1, <1>2, <1>3 DEF Inv, Init, ReplacesNoLive, ListedAreDead

LEMMA InvNext == Inv /\ [Next]_vars => Inv'
  <1> SUFFICES ASSUME Inv, [Next]_vars PROVE Inv'
    OBVIOUS
  <1>1. ASSUME NEW c \in Clients, ClientStep(c) PROVE Inv'
    <2>1. CASE Disconnect(c)
      <3>1. active \in Names /\ RemoveDevice(active) /\ UNCHANGED <<config, client, reported>>
        BY <2>1 DEF Disconnect, Inv, TypeOK
      <3> QED
        BY <3>1, RemoveDeviceKeeps
    <2>2. CASE \E n \in Names : Use(c, n)
      BY <2>2, OthersKeep
    <2> QED
      BY <1>1, <2>1, <2>2, CheckNameKeeps, LockConfigKeeps, ConnectKeeps, ConnectFailsKeeps,
         AddDeviceKeeps DEF ClientStep
  <1>2. ASSUME NEW n \in Names, RemoveReported(n) PROVE Inv'
    BY <1>2, RemoveDeviceKeeps DEF RemoveReported
  <1> QED
    BY <1>1, <1>2, OthersKeep, ListDeadKeeps DEF Next, Watchdog

(* A live device goes only as LiveDevicesStay says: whoever replaces it was *)
(* overtaken, and whoever is listed under its name is not it.              *)
LEMMA StepKeepsLiveDevices ==
  ASSUME Inv, [Next]_vars, NEW n \in Names, Alive(n), devices'[n] # devices[n]
  PROVE  \/ devices'[n] = None /\ (n = active \/ Registered' = {}) /\ reported' = reported
         \/ \E a \in Adapters \ {devices[n]} : <<n, a>> \in reported \ reported'
         \/ \E c \in Clients : client[c].adapter = devices'[n] /\ client[c].rival
  <1>1. \A m \in Names : RemoveDevice(m) => m = n /\ devices'[n] = None
    BY DEF RemoveDevice, Inv, TypeOK
  <1>2. CASE RemoveAll
    BY <1>2 DEF RemoveAll, Registered
  <1>3. ASSUME NEW m \in Names, RemoveReported(m)
        PROVE  \E a \in Adapters \ {devices[n]} : <<n, a>> \in reported \ reported'
    <2>1. PICK a \in Adapters : <<m, a>> \in reported /\ reported' = reported \ {<<m, a>>}
      BY <1>3 DEF RemoveReported
    <2>2. m = n
      BY <1>1, <1>3 DEF RemoveReported
    <2>3. a \notin linked
      BY <2>1 DEF Inv, ListedAreDead
    <2> QED
      BY <2>1, <2>2, <2>3 DEF Alive
  <1>4. ASSUME NEW c \in Clients, Disconnect(c)
        PROVE  devices'[n] = None /\ n = active /\ reported' = reported
    BY <1>1, <1>4 DEF Disconnect, Inv, TypeOK
  <1>5. ASSUME NEW c \in Clients, AddDevice(c)
        PROVE  client[c].adapter = devices'[n] /\ client[c].rival
    <2>1. /\ client[c].name \in Names /\ client[c] # Idle /\ client[c].rival \in BOOLEAN
          /\ devices' = [devices EXCEPT ![client[c].name] = client[c].adapter]
      BY <1>5, AdditionKeeps, Shapes DEF Inv, Exact, AddDevice, Idle
    <2>2. client[c].name = n /\ devices'[n] = client[c].adapter
      BY <2>1 DEF Inv, TypeOK
    <2> QED
      BY <2>1, <2>2 DEF Inv, ReplacesNoLive
  <1>6. \/ RemoveAll \/ (\E m \in Names : RemoveReported(m))
        \/ \E c \in Clients : Disconnect(c) \/ AddDevice(c)
    BY DEF Next, Watchdog, ClientStep, CheckName, Use, LockConfig, Connect, ConnectFails,
           ListDead, LinkLost, vars, registry
  <1> QED
    BY <1>2, <1>3, <1>4, <1>5, <1>6

----------------------------------------------------------------------------
(* Whatever the threads, the watchdog and the links do, the registry's     *)
(* fields have their types.                                                *)
THEOREM TypeCorrect == Spec => []TypeOK
  <1>1. Inv => TypeOK
    BY DEF Inv
  <1> QED
    BY <1>1, Initially, InvNext, PTL DEF Spec

(* The device an unqualified command goes to is always registered, so that *)
(* no unwrap under the PortManager mutex can panic (port_manager.rs:258).  *)
THEOREM ActiveIsRegistered == Spec => []ActiveRegistered
  <1>1. Inv => ActiveRegistered
    BY DEF Inv
  <1> QED
    BY <1>1, Initially, InvNext, PTL DEF Spec

(* The fallback list and the device bar list the registered devices, the   *)
(* first each once.                                                        *)
THEOREM RecencyIsExact == Spec => []RecencyExact
  <1>1. Inv => RecencyExact
    BY DEF Inv
  <1> QED
    BY <1>1, Initially, InvNext, PTL DEF Spec

(* A device whose link holds is lost to nobody's mistake but the two races *)
(* LiveDevicesStay names.                                                  *)
THEOREM OnlyRacesLoseLiveDevices == Spec => LiveDevicesStay
  <1>1. Inv /\ [Next]_vars =>
          [\A n \in Names : Alive(n) /\ devices'[n] # devices[n] =>
             \/ devices'[n] = None /\ (n = active \/ Registered' = {}) /\ reported' = reported
             \/ \E a \in Adapters \ {devices[n]} : <<n, a>> \in reported \ reported'
             \/ \E c \in Clients : client[c].adapter = devices'[n] /\ client[c].rival]_vars
    BY StepKeepsLiveDevices
  <1> QED
    BY <1>1, Initially, InvNext, PTL DEF Spec, LiveDevicesStay
=============================================================================
