------------------------------- MODULE MCHubs -------------------------------
(***************************************************************************)
(* The adapters that talk to a hub, and the commands that upload firmware  *)
(* to one: a behaviour is that of one of them, chosen at the start.        *)
(***************************************************************************)
EXTENDS Integers, Sequences

CONSTANTS Ports, Modes, MaxMishaps, MaxRid, MaxLate, MaxUp, MaxNotices, MaxFeedback, None

VARIABLES
  which,                                                (* the adapter     *)
  call, open, link, mishaps, ran,                       (* of every one    *)
  slot, queue, cache, down, up, agent, plugged, power, stale, raced,
  devices, notices, feedback, hw, misled, crossed

OnePort == {CHOOSE p \in Ports : TRUE}

S == INSTANCE Spike WITH Ports <- OnePort
P == INSTANCE PoweredUp WITH Ports <- OnePort
C == INSTANCE Coral WITH Ports <- OnePort, MaxNotices <- 1
N == INSTANCE Nxt
E == INSTANCE Ev3 WITH Ports <- OnePort
B == INSTANCE BuildHat WITH Ports <- OnePort, MaxMishaps <- MaxMishaps + 1
W == INSTANCE WeDo
T == INSTANCE TcLogoConnect WITH Ports <- OnePort, MaxMishaps <- MaxMishaps + 1
Y == INSTANCE ToyPad WITH MaxLate <- 0, MaxMishaps <- MaxMishaps + 1
(* The Control Lab twice: its outputs, and its inputs.                     *)
L == INSTANCE ControlLab WITH Inputs <- {}
I == INSTANCE ControlLab WITH Ports <- OnePort, Inputs <- OnePort, MaxMishaps <- MaxMishaps + 1
M == INSTANCE CyberMaster WITH Ports <- OnePort, Retries <- 2, MaxMishaps <- MaxMishaps + 1
F == INSTANCE BrickInterface WITH Ports <- OnePort
(* The uploads: a flash of six bytes, the first of them protected, and     *)
(* images of two chunks, of two elements in one sector, and of what cannot *)
(* be written.                                                             *)
Sector(size, writable) == [size |-> size, writable |-> writable]
Layout == <<Sector(1, FALSE), Sector(1, TRUE), Sector(2, TRUE), Sector(2, TRUE)>>
Element(address, size) == [address |-> address, size |-> size]
Images == {<<Element(1, 3)>>, <<Element(2, 1), Element(3, 2)>>, <<Element(0, 2)>>, <<Element(5, 2)>>}
R == INSTANCE RcxUpload WITH Blocks <- 3, Retries <- 2, MaxMishaps <- MaxMishaps + 2
H == INSTANCE HatUpload WITH MaxMishaps <- MaxMishaps + 2
D == INSTANCE DfuUpload WITH TransferSize <- 2, MaxMishaps <- MaxMishaps + 2

(* The variables an adapter leaves alone.                                  *)
notSpike == <<which, devices, notices, feedback, hw, misled, crossed>>
notPup   == <<which, slot, queue, cache, down, up, agent, plugged, power, stale, raced>>
notCoral == <<which, slot, queue, down, up, agent, plugged, power, stale, raced, devices, feedback, crossed>>
notNxt   == <<which, down, up, agent, plugged, power, stale, devices, notices, feedback, crossed>>
notEv3   == <<which, agent, plugged, power, raced, devices, notices, feedback, misled, crossed>>
notHat   == <<which, down, agent, plugged, power, stale, devices, notices, feedback, crossed>>
notWeDo  == <<which, down, agent, plugged, power, stale, raced, devices, notices, feedback, crossed>>
notTc    == notHat
notPad   == <<which, agent, plugged, power, stale, devices, notices, feedback, misled, crossed>>
notLab   == notHat
notCyber == notHat
notBrick == <<which, queue, cache, agent, plugged, power, stale, devices, notices, feedback, crossed>>
notRcx   == <<which, open, slot, queue, cache, down, agent, plugged, power, stale, devices, notices, feedback, crossed>>
notBoot  == <<which, open, slot, queue, cache, down, agent, plugged, power, stale, raced, devices, notices, feedback, misled, crossed>>
notDfu   == <<notBoot, up>>

Only(names, v) == which \notin names => v = None
Uploads == {"rcx", "boot", "dfu"}
Unused ==
  /\ Only({"spike"}, agent) /\ Only({"spike"}, plugged) /\ Only({"spike"}, power)
  /\ Only({"spike", "ev3"}, stale)
  /\ Only({"pup"}, devices) /\ Only({"pup"}, feedback) /\ Only({"pup"}, crossed)
  /\ Only({"pup", "coral"}, notices)
  /\ Only({"pup", "coral", "nxt", "hat", "wedo", "tc", "lab", "labin", "cyber", "brick", "rcx"}, misled)
  /\ Only({"spike", "nxt", "hat", "tc", "pad", "lab", "labin", "cyber", "brick", "rcx"}, raced)
  /\ Only({"spike", "ev3", "pad", "brick"}, down)
  /\ (which \in Uploads => open = None /\ slot = None /\ queue = None /\ cache = None)
  /\ (which = "dfu" => up = None)
  /\ (which = "spike" => hw = None) /\ (which \in {"pup", "brick"} => cache = None)
  /\ (which \in {"pup", "coral"} => slot = None) /\ (which \in {"pup", "coral", "brick"} => queue = None)
  /\ (which \in {"pup", "coral", "nxt"} => up = None)

Init ==
  /\ \/ which = "spike" /\ S!Init
     \/ which = "pup"   /\ P!Init
     \/ which = "coral" /\ C!Init
     \/ which = "nxt"   /\ N!Init
     \/ which = "ev3"   /\ E!Init
     \/ which = "hat"   /\ B!Init
     \/ which = "wedo"  /\ W!Init
     \/ which = "tc"    /\ T!Init
     \/ which = "pad"   /\ Y!Init
     \/ which = "lab"   /\ L!Init
     \/ which = "labin" /\ I!Init
     \/ which = "cyber" /\ M!Init
     \/ which = "brick" /\ F!Init
     \/ which = "rcx"   /\ R!Init
     \/ which = "boot"  /\ H!Init
     \/ which = "dfu"   /\ D!Init
  /\ Unused

Next ==
  \/ which = "spike" /\ S!Next /\ UNCHANGED notSpike
  \/ which = "pup"   /\ P!Next /\ UNCHANGED notPup
  \/ which = "coral" /\ C!Next /\ UNCHANGED notCoral
  \/ which = "nxt"   /\ N!Next /\ UNCHANGED notNxt
  \/ which = "ev3"   /\ E!Next /\ UNCHANGED notEv3
  \/ which = "hat"   /\ B!Next /\ UNCHANGED notHat
  \/ which = "wedo"  /\ W!Next /\ UNCHANGED notWeDo
  \/ which = "tc"    /\ T!Next /\ UNCHANGED notTc
  \/ which = "pad"   /\ Y!Next /\ UNCHANGED notPad
  \/ which = "lab"  /\ L!Next /\ UNCHANGED notLab
  \/ which = "labin"/\ I!Next /\ UNCHANGED notLab
  \/ which = "cyber"/\ M!Next /\ UNCHANGED notCyber
  \/ which = "brick"/\ F!Next /\ UNCHANGED notBrick
  \/ which = "rcx"  /\ R!Next /\ UNCHANGED notRcx
  \/ which = "boot" /\ H!Next /\ UNCHANGED notBoot
  \/ which = "dfu"  /\ D!Next /\ UNCHANGED notDfu

vars == <<which, call, open, link, mishaps, ran, slot, queue, cache, down, up, agent, plugged,
          power, stale, raced, devices, notices, feedback, hw, misled, crossed>>

(* What keeps a call from waiting for ever: the scheduler's thread, or the *)
(* caller itself where there is no slot.                                   *)
Served ==
  \/ which = "spike" /\ (S!Tick \/ S!Silence) /\ UNCHANGED notSpike
  \/ which = "pup"   /\ P!Caller /\ UNCHANGED notPup
  \/ which = "coral" /\ C!Caller /\ UNCHANGED notCoral
  \/ which = "nxt"   /\ N!Tick /\ UNCHANGED notNxt
  \/ which = "ev3"   /\ E!Runs /\ UNCHANGED notEv3
  \/ which = "hat"   /\ (B!Tick \/ B!Lost) /\ UNCHANGED notHat
  \/ which = "wedo"  /\ W!Tick /\ UNCHANGED notWeDo
  \/ which = "tc"    /\ T!Tick /\ UNCHANGED notTc
  \/ which = "pad"   /\ Y!Tick /\ UNCHANGED notPad
  \/ which = "lab"  /\ (L!Tick \/ L!Caller) /\ UNCHANGED notLab
  \/ which = "labin"/\ (I!Tick \/ I!Caller) /\ UNCHANGED notLab
  \/ which = "cyber"/\ M!Tick /\ UNCHANGED notCyber
  \/ which = "brick"/\ F!Caller /\ UNCHANGED notBrick
  \/ which = "rcx"  /\ R!Tick /\ UNCHANGED notRcx
  \/ which = "boot" /\ H!Tick /\ UNCHANGED notBoot
  \/ which = "dfu"  /\ D!Tick /\ UNCHANGED notDfu
Spec == Init /\ [][Next]_vars /\ WF_vars(Served)

(* Every adapter's variables have the values its module names.             *)
TypeOK == CASE which = "spike" -> S!TypeOK
            [] which = "pup"   -> P!TypeOK
            [] which = "coral" -> C!TypeOK
            [] which = "nxt"   -> N!TypeOK
            [] which = "ev3"   -> E!TypeOK
            [] which = "hat"   -> B!TypeOK
            [] which = "wedo"  -> W!TypeOK
            [] which = "tc"    -> T!TypeOK
            [] which = "pad"   -> Y!TypeOK
            [] which = "lab"  -> L!TypeOK
            [] which = "labin"-> I!TypeOK
            [] which = "cyber"-> M!TypeOK
            [] which = "brick"-> F!TypeOK
            [] which = "rcx" -> R!TypeOK
            [] which = "boot" -> H!TypeOK
            [] which = "dfu" -> D!TypeOK
(* What each adapter believes of its hub is so, but for the races its      *)
(* module names.                                                           *)
CacheFollowsHub == CASE which = "spike" -> S!CacheFollowsHub
                     [] which = "pup"   -> P!CacheFollowsHub
                     [] which = "coral" -> C!CacheFollowsHub
                     [] which = "nxt"   -> N!CacheFollowsHub
                     [] which = "ev3"   -> E!CacheFollowsHub
                     [] which = "hat"   -> B!CacheFollowsHub
                     [] which = "wedo"  -> W!CacheFollowsHub
                     [] which = "tc"    -> T!CacheFollowsHub
                     [] which = "pad"   -> Y!CacheFollowsHub
                     [] which = "lab"  -> L!CacheFollowsHub
                     [] which = "labin"-> I!CacheFollowsHub
                     [] which = "cyber"-> M!CacheFollowsHub
                     [] which = "brick"-> F!CacheFollowsHub
                     [] which = "rcx" -> R!CacheFollowsHub
                     [] which = "boot" -> H!CacheFollowsHub
                     [] which = "dfu" -> D!CacheFollowsHub

Stranded == CASE which = "spike" -> S!Stranded
              [] which = "pup"   -> P!Stranded
              [] which = "coral" -> C!Stranded
              [] which = "nxt"   -> N!Stranded
              [] which = "ev3"   -> E!Stranded
              [] which = "hat"   -> B!Stranded
              [] which = "wedo"  -> W!Stranded
              [] which = "tc"    -> T!Stranded
              [] which = "pad"   -> Y!Stranded
              [] which = "lab"  -> L!Stranded
              [] which = "labin"-> I!Stranded
              [] which = "cyber"-> M!Stranded
              [] which = "brick"-> F!Stranded
              [] which = "rcx" -> R!Stranded
              [] which = "boot" -> H!Stranded
              [] which = "dfu" -> D!Stranded
(* No call waits for ever for a hub that is gone.                          *)
GoneHubFailsCalls == Stranded ~> ~Stranded
(* Every adapter implements HubCall, but for the commands its module says  *)
(* are answered Ok though the hub was not told (misled).                   *)
Calls == INSTANCE HubCall WITH
           phase <- call.phase,
           ran   <- IF which \in {"spike", "ev3", "pad", "boot", "dfu"} THEN ran ELSE ran \/ misled
ImplementsHubCall == Calls!Spec
=============================================================================
