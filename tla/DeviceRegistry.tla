---------------------------- MODULE DeviceRegistry ----------------------------
(***************************************************************************)
(* Which devices the PortManager holds and which one is active             *)
(* (crates/bricklogo-hal/src/port_manager.rs), as connectto, disconnect,   *)
(* use (crates/bricklogo-tui/src/bridge.rs), bye and the health watchdog   *)
(* (crates/bricklogo-hal/src/health.rs) change it.                         *)
(*                                                                         *)
(* Every critical section under the PortManager mutex is one action.  Two  *)
(* operations are not: connectto checks the name, waits for the            *)
(* configuration mutex, connects the hardware with that mutex held, and    *)
(* only then adds the device; the watchdog lists the dead devices, reports *)
(* each and removes it by name.                                            *)
(***************************************************************************)
EXTENDS Integers, FiniteSets, Sequences, SequencesExt

CONSTANTS
  Names,      (* device names                                              *)
  Adapters,   (* identities of adapter objects in use at one time          *)
  Clients,    (* threads that run Logo commands                            *)
  MaxShown,   (* bound on the places one name takes in device_order        *)
  None

ASSUME DeviceRegistryAssumption ==
  /\ MaxShown \in Nat
  /\ None \notin Names /\ None \notin Adapters /\ None \notin Clients

VARIABLES
  devices,   (* the adapter registered under each name, or None            *)
  shown,     (* device_order, the device bar's list: how often each name is*)
             (* in it                                                      *)
  mru,       (* most recently used names, the most recent last             *)
  active,    (* active_device                                              *)
  linked,    (* the adapters whose connected() is true                     *)
  config,    (* the holder of the configuration mutex                      *)
  client,    (* the Logo threads: where each is in connectto               *)
  reported   (* dead names the watchdog has listed and not removed yet,    *)
             (* each with the adapter that was dead (history)              *)

vars == <<devices, shown, mru, active, linked, config, client, reported>>
registry == <<devices, shown, mru, active>>

(* rival: another connectto registered the name since this one checked it  *)
(* (history).                                                              *)
Idle == [pc |-> "idle", name |-> None, adapter |-> None, rival |-> FALSE]
Connecting ==
  {Idle} \cup [pc : {"checked", "locked"}, name : Names, adapter : {None}, rival : BOOLEAN]
         \cup [pc : {"connected"}, name : Names, adapter : Adapters, rival : BOOLEAN]

TypeOK ==
  /\ devices \in [Names -> Adapters \cup {None}]
  /\ shown \in [Names -> Nat] /\ mru \in Seq(Names)
  /\ active \in Names \cup {None}
  /\ linked \subseteq Adapters
  /\ config \in Clients \cup {None}
  /\ client \in [Clients -> Connecting]
  /\ reported \subseteq Names \X Adapters

Registered == {n \in Names : devices[n] # None}
Alive(n)   == devices[n] \in linked
Dead(n)    == n \in Registered /\ ~Alive(n)
FreeAdapters ==
  {a \in Adapters : /\ \A c \in Clients : client[c].adapter # a
                    /\ \A n \in Names : devices[n] # a /\ <<n, a>> \notin reported}

(* retain: mru holds a name once at most (RecencyExact), so that the rest  *)
(* moves up one place.                                                     *)
Place(n) == CHOOSE i \in DOMAIN mru : mru[i] = n
Without(n) ==
  IF n \notin ToSet(mru) THEN mru
  ELSE [i \in 1 .. Len(mru) - 1 |-> IF i < Place(n) THEN mru[i] ELSE mru[i + 1]]

(* Mutant of Touched: the name is pushed without leaving its old place.    *)
Pushed(n) == Append(mru, n)
Touched(n) == Append(Without(n), n)

----------------------------------------------------------------------------
(* connectto.                                                              *)

(* Mutant of CheckName: any name will do.                                  *)
CheckNothing(c, n) ==
  /\ client[c] = Idle
  /\ shown[n] + Cardinality({d \in Clients : client[d].name = n}) < MaxShown
  /\ client' = [client EXCEPT ![c] = [Idle EXCEPT !.pc = "checked", !.name = n]]
  /\ UNCHANGED <<registry, linked, config, reported>>

(* The name must not be that of a connected device; a dead one may be      *)
(* replaced.                                                               *)
CheckName(c, n) ==
  /\ client[c] = Idle /\ ~Alive(n)
  /\ shown[n] + Cardinality({d \in Clients : client[d].name = n}) < MaxShown
  /\ client' = [client EXCEPT ![c] = [Idle EXCEPT !.pc = "checked", !.name = n]]
  /\ UNCHANGED <<registry, linked, config, reported>>

LockConfig(c) ==
  /\ client[c].pc = "checked" /\ config = None
  /\ config' = c
  /\ client' = [client EXCEPT ![c].pc = "locked"]
  /\ UNCHANGED <<registry, linked, reported>>

(* The hardware answers, or connectto fails.                               *)
Connect(c) ==
  /\ client[c].pc = "locked"
  /\ \E a \in FreeAdapters :
       /\ client' = [client EXCEPT ![c].pc = "connected", ![c].adapter = a]
       /\ linked' = linked \cup {a}
  /\ UNCHANGED <<registry, config, reported>>

(* Mutant of ConnectFails: the failure path keeps the mutex.               *)
FailHoldingConfig(c) ==
  /\ client[c].pc = "locked"
  /\ client' = [client EXCEPT ![c] = Idle]
  /\ UNCHANGED <<registry, linked, config, reported>>

ConnectFails(c) ==
  /\ client[c].pc = "locked"
  /\ client' = [client EXCEPT ![c] = Idle]
  /\ config' = None
  /\ UNCHANGED <<registry, linked, reported>>

(* add_device: an entry of that name is replaced, and its adapter dropped. *)
AddDevice(c) ==
  /\ client[c].pc = "connected"
  /\ LET n == client[c].name
     IN /\ devices' = [devices EXCEPT ![n] = client[c].adapter]
        /\ shown' = [shown EXCEPT ![n] = @ + 1]
        /\ mru' = Touched(n)
        /\ active' = IF Registered \cup {n} = {n} THEN n ELSE active
        /\ linked' = linked \ {devices[n]}
        /\ client' = [d \in Clients |->
                        IF d = c THEN Idle
                        ELSE IF client[d].name = n THEN [client[d] EXCEPT !.rival = TRUE]
                        ELSE client[d]]
  /\ config' = None
  /\ UNCHANGED reported

----------------------------------------------------------------------------
(* Removal.                                                                *)

(* Mutant of RemoveDevice: the fallback is read before mru is updated.     *)
FallBackFirst(n) ==
  /\ devices' = [devices EXCEPT ![n] = None]
  /\ linked' = linked \ {devices[n]}
  /\ shown' = [shown EXCEPT ![n] = 0]
  /\ mru' = Without(n)
  /\ active' = IF active # n THEN active
               ELSE IF mru = <<>> THEN None ELSE Last(mru)

RemoveDevice(n) ==
  /\ devices' = [devices EXCEPT ![n] = None]
  /\ linked' = linked \ {devices[n]}
  /\ shown' = [shown EXCEPT ![n] = 0]
  /\ mru' = Without(n)
  /\ active' = IF active # n THEN active
               ELSE IF Without(n) = <<>> THEN None ELSE Last(Without(n))

(* disconnect removes the active device.                                   *)
Disconnect(c) ==
  /\ client[c] = Idle /\ active # None
  /\ RemoveDevice(active)
  /\ UNCHANGED <<config, client, reported>>

(* remove_all, on the way out: launched threads may still be connecting.   *)
RemoveAll ==
  /\ devices' = [n \in Names |-> None]
  /\ shown' = [n \in Names |-> 0] /\ mru' = <<>> /\ active' = None
  /\ linked' = linked \ {devices[n] : n \in Registered}
  /\ UNCHANGED <<config, client, reported>>

Use(c, n) ==
  /\ client[c] = Idle /\ n \in Registered
  /\ mru' = Touched(n)
  /\ active' = n
  /\ UNCHANGED <<devices, shown, linked, config, client, reported>>

(* The watchdog's pass: it lists the dead devices, and then removes each   *)
(* by name, taking the mutex anew.                                         *)
(* Mutant of ListDead: only the active device is polled.                   *)
ListActiveDead ==
  /\ reported = {}
  /\ reported' = {<<n, devices[n]>> : n \in {d \in Names : Dead(d) /\ d = active}}
  /\ UNCHANGED <<registry, linked, config, client>>

ListDead ==
  /\ reported = {}
  /\ reported' = {<<n, devices[n]>> : n \in {d \in Names : Dead(d)}}
  /\ UNCHANGED <<registry, linked, config, client>>

RemoveReported(n) ==
  /\ \E a \in Adapters :
       /\ <<n, a>> \in reported
       /\ reported' = reported \ {<<n, a>>}
  /\ RemoveDevice(n)
  /\ UNCHANGED <<config, client>>

(* A connection drops, registered or not yet.                              *)
LinkLost(a) ==
  /\ a \in linked
  /\ linked' = linked \ {a}
  /\ UNCHANGED <<registry, config, client, reported>>

----------------------------------------------------------------------------
Init ==
  /\ devices = [n \in Names |-> None]
  /\ shown = [n \in Names |-> 0] /\ mru = <<>> /\ active = None
  /\ linked = {} /\ config = None
  /\ client = [c \in Clients |-> Idle]
  /\ reported = {}

ClientStep(c) ==
  \/ \E n \in Names : CheckName(c, n) \/ Use(c, n)
  \/ LockConfig(c) \/ Connect(c) \/ ConnectFails(c) \/ AddDevice(c) \/ Disconnect(c)

Watchdog == ListDead \/ \E n \in Names : RemoveReported(n)

Next ==
  \/ RemoveAll \/ Watchdog
  \/ \E c \in Clients : ClientStep(c)
  \/ \E a \in Adapters : LinkLost(a)

Spec == Init /\ [][Next]_vars

(* The watchdog wakes every three seconds; connect calls return; a thread  *)
(* waiting for the configuration mutex gets it.                            *)
Fairness ==
  /\ WF_vars(ListDead) /\ \A n \in Names : WF_vars(RemoveReported(n))
  /\ \A c \in Clients :
       /\ SF_vars(LockConfig(c))
       /\ WF_vars(Connect(c) \/ ConnectFails(c)) /\ WF_vars(AddDevice(c))

FairSpec == Spec /\ Fairness
----------------------------------------------------------------------------
(* Properties.                                                             *)

(* The active device is registered, and there is one whenever a device is: *)
(* get_state and group_by_device unwrap the entry of an unqualified port's *)
(* device under the PortManager mutex, which a panic would poison for good.*)
ActiveRegistered ==
  IF Registered = {} THEN active = None ELSE active \in Registered

(* mru lists the registered devices once each, so that the fallback of a   *)
(* removal always finds one that exists; the device bar lists no other.    *)
RecencyExact ==
  /\ IsInjective(mru) /\ ToSet(mru) = Registered
  /\ {n \in Names : shown[n] > 0} = Registered

(* A device whose link holds stays registered until disconnect or bye asks *)
(* for it, but for two races: the watchdog removes by name, and the device *)
(* came after the one it found dead; or another thread passed the check of *)
(* connectto before this one was registered, and replaces it.              *)
LiveDevicesStay ==
  [][\A n \in Names : Alive(n) /\ devices'[n] # devices[n] =>
       \/ devices'[n] = None /\ (n = active \/ Registered' = {}) /\ reported' = reported
       \/ \E a \in Adapters \ {devices[n]} : <<n, a>> \in reported \ reported'
       \/ \E c \in Clients : client[c].adapter = devices'[n] /\ client[c].rival]_vars

(* A device that stays dead is removed, also when it is not the active one *)
(* and no command names it.                                                *)
DeadAreRemoved == \A n \in Names : Dead(n) ~> ~Dead(n)

(* connectto ends and releases the configuration mutex.                    *)
ConnectReturns == \A c \in Clients : client[c] # Idle ~> client[c] = Idle
=============================================================================
