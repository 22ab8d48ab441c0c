---------------------------- MODULE AdapterProofs ----------------------------
(***************************************************************************)
(* Proofs about the adapters WeDo, Nxt, Ev3 and TcLogoConnect for every    *)
(* set of ports and every bound: each implements HubCall, and what it      *)
(* believes of its hub is so.  And one about the turns all adapters share. *)
(*                                                                         *)
(* The four are the ways an adapter and its slot share a channel.  The     *)
(* WeDo slot writes the command queued last and answers for all the others *)
(* too; the NXT slot carries out one after the other, starts some that end *)
(* later, and answers each, though a failure answers many; the EV3 slot    *)
(* waits for replies that bear a counter, some of which come too late; TC  *)
(* Logo Connect merges all that is queued into one write.                  *)
(***************************************************************************)
EXTENDS Integers, FiniteSets, Sequences, SequenceTheorems, FiniteSetTheorems, TLAPS

CONSTANTS Ports, Modes, MaxLate, MaxUp, MaxMishaps, MaxRid, None

VARIABLES call, open, link, slot, queue, cache, up, down, hw, mishaps, ran, misled, raced, stale

W  == INSTANCE WeDo
N  == INSTANCE Nxt
E  == INSTANCE Ev3
TC == INSTANCE TcLogoConnect
Rot == INSTANCE Rotations
(* A rotation or a timed run said to be over though the brick was not told *)
(* to brake, or a command answered though never sent, counts as carried    *)
(* out; WeDoExecuteSteps shows that the WeDo has none of the latter.       *)
HC == INSTANCE HubCall WITH phase <- call.phase, ran <- ran \/ misled
HE == INSTANCE HubCall WITH phase <- call.phase

----------------------------------------------------------------------------
(* The WeDo hub.                                                           *)
(*                                                                         *)
(* The command issued last is in the queue at most once, last, and while   *)
(* it is there the hub has not carried it out and its caller has not been  *)
(* told Ok: that is what makes Execute one of HubCall's steps.             *)

(* The command issued last, while it is queued.                            *)
WeDoOwnPending ==
  \A i \in DOMAIN queue : queue[i].own =>
    /\ i = Len(queue) /\ call.phase \in {"waiting", "failed"} /\ ~ran /\ ~misled

(* A caller that waits has its command in the queue.                       *)
WeDoWaitersQueue ==
  call.phase = "waiting" => queue # <<>> /\ queue[Len(queue)].own

(* The adapter's motor_values are those of the message queued last.        *)
WeDoLastWanted == queue # <<>> => queue[Len(queue)].want = cache.want

(* An Ok is the answer of the tick that emptied the queue.                 *)
WeDoOkMeansWritten ==
  open /\ link /\ call.phase = "ok" => queue = <<>> /\ hw.motor = cache.want

(* What was told last is on its way or kept.                               *)
WeDoTellsLast ==
  open => \A p \in hw.told :
            IF up # <<>> THEN up[Len(up)][p] = hw.sensor[p]
            ELSE hw.sensor[p].type # None =>
                   cache.payload[p][hw.sensor[p].type] = hw.sensor[p].value

WeDoInv == W!TypeOK /\ WeDoOwnPending /\ WeDoWaitersQueue /\ WeDoLastWanted /\ WeDoOkMeansWritten /\ WeDoTellsLast

WeDoCallType == [phase : {"idle", "waiting", "ok", "failed"}, todo : Seq(W!Powers)]
WeDoCacheType == [want : W!Powers, payload : [Ports -> [W!Types -> 0 .. 1 \cup {None}]]]
WeDoHubType == [motor : W!Powers, sensor : W!Report, told : SUBSET Ports]

LEMMA WeDoTypes ==
  ASSUME W!TypeOK
  PROVE  /\ call \in WeDoCallType /\ cache \in WeDoCacheType /\ hw \in WeDoHubType
         /\ queue \in Seq(W!Command) /\ up \in Seq(W!Report)
         /\ \A i \in 1 .. Len(queue) : queue[i] \in W!Command
  BY DEF W!TypeOK, WeDoCallType, WeDoCacheType, WeDoHubType

(* Powers of a part of the motors.                                         *)
LEMMA WeDoSetType ==
  ASSUME W!TypeOK, NEW S \in SUBSET Ports, NEW f \in W!Powers
  PROVE  W!Set(S, f) \in W!Powers
  BY DEF W!Set, W!TypeOK, W!Powers

LEMMA WeDoStillType == W!Still \in W!Powers
  BY DEF W!Still, W!Powers

----------------------------------------------------------------------------
(* Each action keeps the invariant.                                        *)

LEMMA WeDoConnectKeeps ==
  ASSUME WeDoInv, W!Connect
  PROVE  WeDoInv'
  <1>1. W!NoCall \in WeDoCallType /\ W!NoCall.phase = "idle"
    BY DEF W!NoCall, WeDoCallType
  <1>2. W!NoCache \in WeDoCacheType
    BY WeDoStillType DEF W!NoCache, WeDoCacheType
  <1>3. hw' \in WeDoHubType /\ hw'.told = {}
    BY WeDoTypes DEF W!Connect, WeDoInv, WeDoHubType
  <1>4. <<>> \in Seq(W!Command) /\ <<>> \in Seq(W!Report)
    OBVIOUS
  <1>5. /\ open' = TRUE /\ slot' = W!Still /\ queue' = <<>> /\ up' = <<>> /\ cache' = W!NoCache
        /\ call' = W!NoCall /\ ran' = FALSE /\ misled' = FALSE /\ UNCHANGED <<link, mishaps>>
    BY DEF W!Connect
  <1>6. W!TypeOK'
    BY <1>1, <1>2, <1>3, <1>4, <1>5, WeDoStillType
    DEF WeDoInv, W!TypeOK, WeDoCallType, WeDoCacheType, WeDoHubType
  <1>7. WeDoOwnPending' /\ WeDoWaitersQueue' /\ WeDoLastWanted' /\ WeDoOkMeansWritten' /\ WeDoTellsLast'
    BY <1>1, <1>3, <1>5 DEF WeDoOwnPending, WeDoWaitersQueue, WeDoLastWanted,
       WeDoOkMeansWritten, WeDoTellsLast
  <1> QED
    BY <1>6, <1>7 DEF WeDoInv

LEMMA WeDoDisconnectKeeps ==
  ASSUME WeDoInv, W!Disconnect
  PROVE  WeDoInv'
  <1>1. W!NoCall \in WeDoCallType /\ W!NoCall.phase = "idle"
    BY DEF W!NoCall, WeDoCallType
  <1>2. cache' \in WeDoCacheType
    BY WeDoStillType, WeDoTypes DEF W!Disconnect, WeDoInv, WeDoCacheType
  <1>3. <<>> \in Seq(W!Command) /\ <<>> \in Seq(W!Report)
    OBVIOUS
  <1>4. /\ open' = FALSE /\ slot' = None /\ queue' = <<>> /\ up' = <<>> /\ call' = W!NoCall
        /\ ran' = FALSE /\ misled' = FALSE /\ UNCHANGED <<link, hw, mishaps>>
    BY DEF W!Disconnect
  <1>5. W!TypeOK'
    BY <1>1, <1>2, <1>3, <1>4 DEF WeDoInv, W!TypeOK, WeDoCallType, WeDoCacheType
  <1>6. WeDoOwnPending' /\ WeDoWaitersQueue' /\ WeDoLastWanted' /\ WeDoOkMeansWritten' /\ WeDoTellsLast'
    BY <1>1, <1>4 DEF WeDoOwnPending, WeDoWaitersQueue, WeDoLastWanted, WeDoOkMeansWritten,
       WeDoTellsLast
  <1> QED
    BY <1>5, <1>6 DEF WeDoInv

LEMMA WeDoBeginKeeps ==
  ASSUME WeDoInv, W!Begin
  PROVE  WeDoInv'
  <1>1. call' \in WeDoCallType /\ call'.phase = call.phase
    <2>1. PICK S \in (SUBSET Ports) \ {{}}, f \in W!Powers, timed \in BOOLEAN :
            call' = [call EXCEPT !.todo = IF timed THEN <<W!Set(S, f), W!Set(S, W!Still)>>
                                          ELSE <<W!Set(S, f)>>]
      BY DEF W!Begin
    <2>2. W!Set(S, f) \in W!Powers /\ W!Set(S, W!Still) \in W!Powers
      BY WeDoSetType, WeDoStillType DEF WeDoInv
    <2>3. <<W!Set(S, f), W!Set(S, W!Still)>> \in Seq(W!Powers)
          /\ <<W!Set(S, f)>> \in Seq(W!Powers)
      BY <2>2
    <2> QED
      BY <2>1, <2>3, WeDoTypes DEF WeDoInv, WeDoCallType
  <1>2. UNCHANGED <<open, link, slot, queue, cache, up, hw, mishaps, ran, misled>>
    BY DEF W!Begin
  <1> QED
    BY <1>1, <1>2
       DEF WeDoInv, W!TypeOK, WeDoOwnPending, WeDoWaitersQueue, WeDoLastWanted,
           WeDoOkMeansWritten, WeDoTellsLast, WeDoCallType

(* The command before it, if it is queued still, is nobody's now.          *)
LEMMA WeDoIssueKeeps ==
  ASSUME WeDoInv, W!Issue
  PROVE  WeDoInv'
  <1> DEFINE n == Len(queue)
             older == [i \in DOMAIN queue |-> [queue[i] EXCEPT !.own = FALSE]]
             new == [want |-> Head(call.todo), own |-> TRUE]
  <1>1. /\ queue \in Seq(W!Command) /\ n \in Nat /\ DOMAIN queue = 1 .. n
        /\ \A i \in 1 .. n : queue[i] \in W!Command
    BY WeDoTypes DEF WeDoInv
  <1>6. /\ call' \in WeDoCallType /\ call'.phase = "waiting" /\ Head(call.todo) \in W!Powers
    <2>1. Tail(call.todo) \in Seq(W!Powers) /\ Head(call.todo) \in W!Powers
      BY WeDoTypes DEF WeDoInv, W!Issue, WeDoCallType
    <2> QED
      BY <2>1 DEF W!Issue, WeDoCallType
  <1>2. /\ older \in Seq(W!Command) /\ Len(older) = n /\ new \in W!Command
        /\ \A i \in 1 .. n : older[i].own = FALSE
    <2> DEFINE disowned(i) == [queue[i] EXCEPT !.own = FALSE]
    <2>1. \A i \in 1 .. n : disowned(i) \in W!Command /\ disowned(i).own = FALSE
      BY <1>1 DEF W!Command
    <2>2. older = [i \in 1 .. n |-> disowned(i)]
      BY <1>1
    <2>3. new \in W!Command
      BY <1>6 DEF W!Command
    <2> HIDE DEF disowned, older, new
    <2>4. older \in [1 .. n -> W!Command] /\ \A i \in 1 .. n : older[i].own = FALSE
      BY <2>1, <2>2
    <2> QED
      BY <1>1, <2>3, <2>4
  <1>3. queue' = Append(older, new)
    BY DEF W!Issue
  <1> HIDE DEF older, new
  <1>4. /\ queue' \in Seq(W!Command) /\ Len(queue') = n + 1 /\ queue'[n + 1] = new
        /\ DOMAIN queue' = 1 .. n + 1
        /\ \A i \in 1 .. n : queue'[i].own = FALSE
    BY <1>1, <1>2, <1>3
  <1>5. \A i \in DOMAIN queue' : queue'[i].own => i = n + 1
    BY <1>1, <1>4
  <1>7. cache' \in WeDoCacheType /\ cache'.want = Head(call.todo) /\ cache'.payload = cache.payload
    BY <1>6, WeDoTypes DEF W!Issue, WeDoInv, WeDoCacheType, W!Wanted
  <1>8. queue' # <<>> /\ new.own /\ new.want = Head(call.todo)
    BY <1>1, <1>4 DEF new
  <1>9. ran' = FALSE /\ misled' = FALSE /\ UNCHANGED <<open, link, slot, up, hw, mishaps>>
    BY DEF W!Issue
  <1>10. W!TypeOK'
    BY <1>4, <1>6, <1>7, <1>9 DEF WeDoInv, W!TypeOK, WeDoCallType, WeDoCacheType
  <1>11. WeDoOwnPending' /\ WeDoWaitersQueue' /\ WeDoLastWanted'
    BY <1>4, <1>5, <1>6, <1>7, <1>8, <1>9 DEF WeDoOwnPending, WeDoWaitersQueue, WeDoLastWanted
  <1>12. WeDoOkMeansWritten' /\ WeDoTellsLast'
    BY <1>6, <1>7, <1>9 DEF WeDoInv, WeDoOkMeansWritten, WeDoTellsLast
  <1> QED
    BY <1>10, <1>11, <1>12 DEF WeDoInv

(* What may be answered: the call that waits.                              *)
LEMMA WeDoAnswerType ==
  ASSUME W!TypeOK, NEW ok \in BOOLEAN, W!Answer(ok)
  PROVE  /\ call' \in WeDoCallType
         /\ call.phase # "waiting" => call' = call
         /\ call.phase = "waiting" => call'.phase = IF ok THEN "ok" ELSE "failed"
  <1>1. <<>> \in Seq(W!Powers)
    OBVIOUS
  <1> QED
    BY <1>1, WeDoTypes DEF W!Answer, WeDoCallType

LEMMA WeDoTimeOutKeeps ==
  ASSUME WeDoInv, W!TimeOut
  PROVE  WeDoInv'
  <1>1. call' \in WeDoCallType /\ call'.phase = "failed"
    BY WeDoAnswerType DEF WeDoInv, W!TimeOut
  <1>2. mishaps' \in Nat
    BY DEF W!TimeOut, W!Mishap, WeDoInv, W!TypeOK
  <1>3. UNCHANGED <<open, link, slot, queue, cache, up, hw, ran, misled>>
    BY DEF W!TimeOut
  <1> QED
    BY <1>1, <1>2, <1>3
       DEF WeDoInv, W!TypeOK, WeDoOwnPending, WeDoWaitersQueue, WeDoLastWanted,
           WeDoOkMeansWritten, WeDoTellsLast, WeDoCallType

LEMMA WeDoTakeReportKeeps ==
  ASSUME WeDoInv, W!TakeReport
  PROVE  WeDoInv'
  <1> DEFINE n == Len(up)
             r == Head(up)
  <1>1. /\ up \in Seq(W!Report) /\ n \in Nat /\ n # 0 /\ r = up[1] /\ r \in W!Report
        /\ Tail(up) \in Seq(W!Report) /\ Len(Tail(up)) = n - 1
        /\ n > 1 => Tail(up)[n - 1] = up[n]
    BY WeDoTypes DEF WeDoInv, W!TakeReport
  <1>2. /\ up' = Tail(up)
        /\ UNCHANGED <<call, open, link, slot, queue, hw, mishaps, ran, misled>>
        /\ cache' = [cache EXCEPT !.payload = [p \in Ports |-> [t \in W!Types |->
                       IF r[p].type = t THEN r[p].value ELSE @[p][t]]]]
    BY DEF W!TakeReport
  <1>3. \A p \in Ports : r[p].type \in W!Types \cup {None} /\ r[p].value \in 0 .. 1
    BY <1>1 DEF W!Report, W!Sample
  <1>4. cache \in WeDoCacheType
    BY WeDoTypes DEF WeDoInv
  <1>5. /\ cache' \in WeDoCacheType /\ cache'.want = cache.want
        /\ \A p \in Ports : r[p].type \in W!Types => cache'.payload[p][r[p].type] = r[p].value
    <2> DEFINE kept(p, t) == IF r[p].type = t THEN r[p].value ELSE cache.payload[p][t]
               payload == [p \in Ports |-> [t \in W!Types |-> kept(p, t)]]
    <2>1. cache' = [cache EXCEPT !.payload = payload]
      BY <1>2, <1>4 DEF WeDoCacheType
    <2>2. \A p \in Ports, t \in W!Types : kept(p, t) \in 0 .. 1 \cup {None}
      BY <1>3, <1>4 DEF WeDoCacheType
    <2>3. \A p \in Ports : r[p].type \in W!Types => kept(p, r[p].type) = r[p].value
      OBVIOUS
    <2> HIDE DEF kept
    <2>4. payload \in [Ports -> [W!Types -> 0 .. 1 \cup {None}]]
      BY <2>2
    <2>5. \A p \in Ports : r[p].type \in W!Types => payload[p][r[p].type] = r[p].value
      BY <2>3
    <2> HIDE DEF payload
    <2> QED
      BY <2>1, <2>4, <2>5, <1>4 DEF WeDoCacheType
  <1>6. WeDoTellsLast'
    <2> SUFFICES ASSUME open', NEW p \in hw'.told
                 PROVE  IF up' # <<>> THEN up'[Len(up')][p] = hw'.sensor[p]
                        ELSE hw'.sensor[p].type # None =>
                               cache'.payload[p][hw'.sensor[p].type] = hw'.sensor[p].value
      BY DEF WeDoTellsLast
    <2>1. up # <<>> /\ up[n][p] = hw.sensor[p] /\ p \in Ports
      BY <1>1, <1>2, WeDoTypes DEF WeDoInv, WeDoTellsLast, WeDoHubType
    <2>2. CASE n > 1
      <3>0. Len(up') = n - 1 /\ up'[n - 1] = up[n] /\ n - 1 # 0
        BY <1>1, <1>2, <2>2
      <3>1. up' # <<>> /\ Len(up') = n - 1 /\ up'[n - 1] = up[n]
        BY <3>0
      <3>2. up'[Len(up')][p] = hw.sensor[p] /\ hw' = hw
        BY <3>1, <1>2, <2>1
      <3> QED
        BY <3>1, <3>2
    <2>3. CASE n = 1
      <3>1. r[p] = hw.sensor[p] /\ up' = <<>>
        BY <1>1, <1>2, <2>1, <2>3
      <3> QED
        BY <3>1, <1>2, <1>3, <1>5, <2>1
    <2> QED
      BY <1>1, <2>2, <2>3
  <1> QED
    BY <1>1, <1>2, <1>5, <1>6
       DEF WeDoInv, W!TypeOK, WeDoOwnPending, WeDoWaitersQueue, WeDoLastWanted,
           WeDoOkMeansWritten, WeDoCacheType

(* Execute's case: the command that waits is the last, so that none of     *)
(* those skipped is it.                                                    *)
LEMMA WeDoExecuteSteps ==
  ASSUME WeDoInv, W!Execute
  PROVE  LET last == queue[Len(queue)]
         IN /\ last \in W!Command /\ last.want = cache.want
            /\ queue' = <<>> /\ slot' = last.want
            /\ hw' = IF link THEN [hw EXCEPT !.motor = last.want] ELSE hw
            /\ misled' = misled /\ ran' = (ran \/ (last.own /\ link))
            /\ call.phase = "waiting" => last.own
            /\ last.own => call.phase \in {"waiting", "failed"} /\ ~ran /\ ~misled
            /\ IF last.own THEN W!Answer(link) ELSE UNCHANGED call
            /\ UNCHANGED <<open, link, cache, up, mishaps>>
  <1> DEFINE n == Len(queue)
             last == queue[n]
             skipped == \E i \in 1 .. n - 1 : queue[i].own
  <1>1. n \in Nat /\ n # 0 /\ n \in DOMAIN queue /\ DOMAIN queue = 1 .. n /\ last \in W!Command
    BY WeDoTypes DEF WeDoInv, W!Execute
  <1>2. ~skipped
    BY <1>1 DEF WeDoInv, WeDoOwnPending
  <1>3. link \in BOOLEAN /\ misled \in BOOLEAN
    BY DEF WeDoInv, W!TypeOK
  <1>4. /\ queue' = <<>> /\ slot' = last.want
        /\ hw' = IF link THEN [hw EXCEPT !.motor = last.want] ELSE hw
        /\ misled' = (misled \/ skipped) /\ ran' = (ran \/ (last.own /\ link))
        /\ IF last.own \/ skipped THEN W!Answer(skipped \/ link) ELSE UNCHANGED call
        /\ UNCHANGED <<open, link, cache, up, mishaps>>
    BY DEF W!Execute
  <1>5. (skipped \/ link) = link /\ (misled \/ skipped) = misled
    BY <1>2, <1>3
  <1>6. last.want = cache.want
    BY DEF WeDoInv, WeDoLastWanted, W!Execute
  <1>7. call.phase = "waiting" => last.own
    BY DEF WeDoInv, WeDoWaitersQueue
  <1>8. last.own => call.phase \in {"waiting", "failed"} /\ ~ran /\ ~misled
    BY <1>1 DEF WeDoInv, WeDoOwnPending
  <1> HIDE DEF last, skipped
  <1>9. IF last.own THEN W!Answer(link) ELSE UNCHANGED call
    BY <1>2, <1>4, <1>5
  <1> QED
    BY <1>1, <1>4, <1>5, <1>6, <1>7, <1>8, <1>9 DEF last

LEMMA WeDoExecuteKeeps ==
  ASSUME WeDoInv, W!Execute
  PROVE  WeDoInv'
  <1> DEFINE last == queue[Len(queue)]
  <1>1. /\ last \in W!Command /\ last.want = cache.want
        /\ queue' = <<>> /\ slot' = last.want
        /\ hw' = IF link THEN [hw EXCEPT !.motor = last.want] ELSE hw
        /\ misled' = misled /\ ran' = (ran \/ (last.own /\ link))
        /\ call.phase = "waiting" => last.own
        /\ IF last.own THEN W!Answer(link) ELSE UNCHANGED call
        /\ UNCHANGED <<open, link, cache, up, mishaps>>
    BY WeDoExecuteSteps
  <1> HIDE DEF last
  <1>2. last.want \in W!Powers /\ <<>> \in Seq(W!Command) /\ link \in BOOLEAN
    BY <1>1 DEF W!Command, WeDoInv, W!TypeOK
  <1>3. /\ hw' \in WeDoHubType /\ hw'.sensor = hw.sensor /\ hw'.told = hw.told
        /\ link => hw'.motor = cache.want
    BY <1>1, <1>2, WeDoTypes DEF WeDoInv, WeDoHubType
  <1>4. /\ call' \in WeDoCallType /\ call'.phase # "waiting"
        /\ call'.phase = "ok" => link \/ call.phase = "ok"
    <2>1. CASE last.own
      BY <1>1, <1>2, <2>1, WeDoAnswerType DEF WeDoInv
    <2>2. CASE ~last.own
      BY <1>1, <2>2, WeDoTypes DEF WeDoInv
    <2> QED
      BY <2>1, <2>2
  <1>5. ran' \in BOOLEAN /\ misled' \in BOOLEAN
    BY <1>1 DEF WeDoInv, W!TypeOK
  <1>6. W!TypeOK'
    BY <1>1, <1>2, <1>3, <1>4, <1>5 DEF WeDoInv, W!TypeOK, WeDoCallType, WeDoHubType
  <1>7. WeDoOwnPending' /\ WeDoWaitersQueue' /\ WeDoLastWanted' /\ WeDoTellsLast'
    BY <1>1, <1>3, <1>4 DEF WeDoInv, WeDoOwnPending, WeDoWaitersQueue, WeDoLastWanted,
       WeDoTellsLast
  <1>8. WeDoOkMeansWritten'
    BY <1>1, <1>3, <1>4 DEF WeDoInv, WeDoOkMeansWritten
  <1> QED
    BY <1>6, <1>7, <1>8 DEF WeDoInv

LEMMA WeDoHubKeeps ==
  ASSUME WeDoInv, W!Sends \/ W!Sense \/ W!LinkDrops \/ W!LinkReturns
  PROVE  WeDoInv'
  <1>1. hw \in WeDoHubType /\ up \in Seq(W!Report)
    BY WeDoTypes DEF WeDoInv
  <1>mishap. ASSUME W!Mishap PROVE mishaps' \in Nat
    BY <1>mishap DEF W!Mishap, WeDoInv, W!TypeOK
  <1>2. CASE W!Sends
    <2>1. /\ up' = Append(up, hw.sensor) /\ hw' = [hw EXCEPT !.told = Ports]
          /\ UNCHANGED <<call, open, link, slot, queue, cache, mishaps, ran, misled>>
      BY <1>2 DEF W!Sends
    <2>2. hw' \in WeDoHubType /\ hw'.motor = hw.motor /\ hw'.sensor = hw.sensor /\ hw.sensor \in W!Report
      BY <1>1, <2>1 DEF WeDoHubType
    <2>3. up' \in Seq(W!Report) /\ up' # <<>> /\ up'[Len(up')] = hw.sensor
      BY <1>1, <2>1, <2>2
    <2> QED
      BY <2>1, <2>2, <2>3
         DEF WeDoInv, W!TypeOK, WeDoOwnPending, WeDoWaitersQueue, WeDoLastWanted,
             WeDoOkMeansWritten, WeDoTellsLast, WeDoHubType
  <1>3. CASE W!Sense
    <2>1. PICK p \in Ports, s \in W!Sample : hw' = [hw EXCEPT !.sensor[p] = s, !.told = @ \ {p}]
      BY <1>3 DEF W!Sense
    <2>2. /\ hw' \in WeDoHubType /\ hw'.motor = hw.motor /\ hw'.told = hw.told \ {p}
          /\ \A q \in hw'.told : hw'.sensor[q] = hw.sensor[q]
      BY <1>1, <2>1 DEF WeDoHubType, W!Report
    <2>3. /\ mishaps' \in Nat
          /\ UNCHANGED <<call, open, link, slot, queue, cache, up, ran, misled>>
      BY <1>3, <1>mishap DEF W!Sense
    <2>4. W!TypeOK'
      BY <2>2, <2>3 DEF WeDoInv, W!TypeOK, WeDoHubType
    <2>5. WeDoOwnPending' /\ WeDoWaitersQueue' /\ WeDoLastWanted' /\ WeDoOkMeansWritten'
      BY <2>2, <2>3 DEF WeDoInv, WeDoOwnPending, WeDoWaitersQueue, WeDoLastWanted,
         WeDoOkMeansWritten
    <2>6. WeDoTellsLast'
      BY <2>2, <2>3 DEF WeDoInv, WeDoTellsLast
    <2> QED
      BY <2>4, <2>5, <2>6 DEF WeDoInv
  <1>4. CASE W!LinkDrops
    <2>1. /\ mishaps' \in Nat /\ link' = FALSE
          /\ hw' \in WeDoHubType /\ hw'.sensor = hw.sensor /\ hw'.told = hw.told
          /\ UNCHANGED <<call, open, slot, queue, cache, up, ran, misled>>
      BY <1>1, <1>4, <1>mishap, WeDoStillType DEF W!LinkDrops, WeDoHubType
    <2>2. W!TypeOK'
      BY <2>1 DEF WeDoInv, W!TypeOK, WeDoHubType
    <2>3. WeDoOwnPending' /\ WeDoWaitersQueue' /\ WeDoLastWanted' /\ WeDoOkMeansWritten' /\ WeDoTellsLast'
      BY <2>1 DEF WeDoInv, WeDoOwnPending, WeDoWaitersQueue, WeDoLastWanted,
         WeDoOkMeansWritten, WeDoTellsLast
    <2> QED
      BY <2>2, <2>3 DEF WeDoInv
  <1>5. CASE W!LinkReturns
    BY <1>5 DEF W!LinkReturns, WeDoInv, W!TypeOK, WeDoOwnPending, WeDoWaitersQueue,
       WeDoLastWanted, WeDoOkMeansWritten,
                WeDoTellsLast
  <1> QED
    BY <1>2, <1>3, <1>4, <1>5

----------------------------------------------------------------------------
LEMMA WeDoInitially ==
  ASSUME W!Init
  PROVE  WeDoInv
  <1>1. /\ W!NoCall \in WeDoCallType /\ W!NoCall.phase = "idle" /\ W!NoCache \in WeDoCacheType
        /\ <<>> \in Seq(W!Command) /\ <<>> \in Seq(W!Report)
    BY WeDoStillType DEF W!NoCall, W!NoCache, WeDoCallType, WeDoCacheType
  <1>2. hw \in WeDoHubType /\ hw.told = {}
    BY WeDoStillType DEF W!Init, WeDoHubType, W!Report, W!Sample
  <1>3. /\ call = W!NoCall /\ open = FALSE /\ link = TRUE /\ slot = None /\ queue = <<>>
        /\ cache = W!NoCache /\ up = <<>> /\ mishaps = 0 /\ ran = FALSE /\ misled = FALSE
    BY DEF W!Init
  <1>4. W!TypeOK
    BY <1>1, <1>2, <1>3 DEF W!TypeOK, WeDoCallType, WeDoCacheType, WeDoHubType
  <1>5. WeDoOwnPending /\ WeDoWaitersQueue /\ WeDoLastWanted /\ WeDoOkMeansWritten /\ WeDoTellsLast
    BY <1>1, <1>3 DEF WeDoOwnPending, WeDoWaitersQueue, WeDoLastWanted, WeDoOkMeansWritten,
       WeDoTellsLast
  <1> QED
    BY <1>4, <1>5 DEF WeDoInv

LEMMA WeDoInvNext ==
  ASSUME WeDoInv, [W!Next]_W!vars
  PROVE  WeDoInv'
  <1>1. CASE W!Next
    BY <1>1, WeDoConnectKeeps, WeDoDisconnectKeeps, WeDoBeginKeeps, WeDoIssueKeeps,
       WeDoTimeOutKeeps, WeDoTakeReportKeeps,
       WeDoExecuteKeeps, WeDoHubKeeps DEF W!Next, W!Tick
  <1>2. CASE UNCHANGED W!vars
    BY <1>2 DEF W!vars, WeDoInv, W!TypeOK, WeDoOwnPending, WeDoWaitersQueue, WeDoLastWanted,
       WeDoOkMeansWritten, WeDoTellsLast
  <1> QED
    BY <1>1, <1>2

LEMMA WeDoInvariant == W!Spec => []WeDoInv
  BY WeDoInitially, WeDoInvNext, PTL DEF W!Spec

----------------------------------------------------------------------------
(* The adapter's state, the slot's queue and the hub keep their types:     *)
(* wedo_adapter.rs:16-60.                                                  *)
THEOREM WeDoTypeCorrect == W!Spec => []W!TypeOK
  BY WeDoInvariant, PTL DEF WeDoInv

(* After an Ok every motor is at the power the adapter holds for it, and a *)
(* payload of the type plugged in is the sensor's once it was reported and *)
(* read (wedo_adapter.rs:70-125).                                          *)
THEOREM WeDoCacheIsHub == W!Spec => []W!CacheFollowsHub
  <1>1. ASSUME WeDoInv PROVE W!CacheFollowsHub
    BY <1>1 DEF WeDoInv, W!CacheFollowsHub, WeDoOkMeansWritten, WeDoTellsLast
  <1> QED
    BY <1>1, WeDoInvariant, PTL

(* Every run of the adapter and its hub is one HubCall allows: the caller  *)
(* is told Ok only of a command the hub carried out, and no command is     *)
(* carried out twice (wedo_adapter.rs:86-125).                             *)
THEOREM WeDoImplements == W!Spec => HC!Spec
  <1>1. ASSUME W!Init PROVE HC!Init
    BY <1>1 DEF W!Init, W!NoCall, HC!Init
  <1>2. ASSUME WeDoInv, [W!Next]_W!vars PROVE [HC!Next]_HC!vars
    <2> USE <1>2
    <2>1. /\ ran \in BOOLEAN /\ misled \in BOOLEAN /\ link \in BOOLEAN /\ call \in WeDoCallType
          /\ call.phase \in {"idle", "waiting", "ok", "failed"}
      BY WeDoTypes DEF WeDoInv, W!TypeOK, WeDoCallType
    <2>2. CASE W!Connect \/ W!Disconnect
      <3>1. call.phase # "waiting" /\ call'.phase = "idle" /\ ~(ran' \/ misled')
        BY <2>2 DEF W!Connect, W!Disconnect, W!Over, W!NoCall
      <3>2. HC!Forget
        BY <3>1 DEF HC!Forget
      <3> QED
        BY <3>2 DEF HC!Next
    <2>3. CASE W!Issue
      <3>1. call.phase # "waiting" /\ call'.phase = "waiting" /\ ~(ran' \/ misled')
        BY <2>3 DEF W!Issue
      <3>2. HC!Issue
        BY <3>1 DEF HC!Issue
      <3> QED
        BY <3>2 DEF HC!Next
    <2>4. CASE W!TimeOut
      <3>1. call.phase = "waiting" /\ call'.phase = "failed" /\ (ran' \/ misled') = (ran \/ misled)
        BY <2>4, WeDoAnswerType DEF W!TimeOut, WeDoInv
      <3>2. HC!Fail
        BY <3>1 DEF HC!Fail
      <3> QED
        BY <3>2 DEF HC!Next
    <2>5. CASE W!Execute
      <3> DEFINE own == queue[Len(queue)].own
      <3>1. /\ own \in BOOLEAN /\ misled' = misled /\ ran' = (ran \/ (own /\ link))
            /\ call.phase = "waiting" => own
            /\ own => call.phase \in {"waiting", "failed"} /\ ~ran /\ ~misled
            /\ IF own THEN W!Answer(link) ELSE UNCHANGED call
        BY <2>5, WeDoExecuteSteps DEF W!Command
      <3> HIDE DEF own
      <3>2. CASE ~own
        BY <2>1, <3>1, <3>2 DEF HC!vars
      <3>3. CASE own /\ call.phase = "waiting"
        <4>1. /\ call'.phase = IF link THEN "ok" ELSE "failed"
              /\ ran' = link /\ ~misled' /\ ~ran /\ ~misled
          BY <2>1, <3>1, <3>3, WeDoAnswerType DEF WeDoInv
        <4>2. CASE link
          <5>1. HC!Succeed
            BY <3>3, <4>1, <4>2 DEF HC!Succeed
          <5> QED
            BY <5>1 DEF HC!Next
        <4>3. CASE ~link
          <5>1. HC!Fail
            BY <3>3, <4>1, <4>3 DEF HC!Fail
          <5> QED
            BY <5>1 DEF HC!Next
        <4> QED
          BY <4>2, <4>3
      <3>4. CASE own /\ call.phase # "waiting"
        <4>1. /\ call' = call /\ call.phase = "failed"
              /\ ran' = link /\ ~misled' /\ ~ran /\ ~misled
          BY <2>1, <3>1, <3>4, WeDoAnswerType DEF WeDoInv
        <4>2. CASE link
          <5>1. HC!Execute
            BY <4>1, <4>2 DEF HC!Execute
          <5> QED
            BY <5>1 DEF HC!Next
        <4>3. CASE ~link
          BY <4>1, <4>3 DEF HC!vars
        <4> QED
          BY <4>2, <4>3
      <3> QED
        BY <3>1, <3>2, <3>3, <3>4
    <2>6. CASE W!Begin \/ W!TakeReport \/ W!Sends \/ W!Sense \/ W!LinkDrops \/ W!LinkReturns \/ UNCHANGED W!vars
      <3>1. call'.phase = call.phase /\ ran' = ran /\ misled' = misled
        BY <2>1, <2>6 DEF W!Begin, W!TakeReport, W!Sends, W!Sense, W!LinkDrops,
           W!LinkReturns, W!vars, WeDoCallType
      <3> QED
        BY <3>1 DEF HC!vars
    <2> QED
      BY <2>2, <2>3, <2>4, <2>5, <2>6 DEF W!Next, W!Tick
  <1> QED
    BY <1>1, <1>2, WeDoInvariant, PTL DEF W!Spec, HC!Spec

----------------------------------------------------------------------------
(* The NXT brick.                                                          *)
(*                                                                         *)
(* The command issued last is in one place: in the queue, or among the     *)
(* runs the slot ends later; so that it is answered once, and what is left *)
(* over of the commands before it answers nobody.                          *)

(* Every brick has so many motors; a run has a bound on its mishaps.       *)
NxtBounded == IsFiniteSet(Ports) /\ MaxMishaps \in Nat

(* The command issued last is in one place: queued, or run by the slot.    *)
NxtOwnOnce ==
  /\ \A i, j \in 1 .. Len(queue) : queue[i].own /\ queue[j].own => i = j
  /\ slot # None => \A e \in slot.pending : e.own =>
       /\ \A f \in slot.pending : f.own => f = e
       /\ \A i \in 1 .. Len(queue) : ~queue[i].own

(* While it is there, its caller was not told Ok.                          *)
NxtOwnOpen ==
  /\ \A i \in 1 .. Len(queue) : queue[i].own => call.phase \in {"waiting", "failed"}
  /\ slot # None => \A e \in slot.pending : e.own => call.phase \in {"waiting", "failed"}

(* And it is the one its caller waits for.                                 *)
NxtOwnIsNow ==
  call.phase = "waiting" =>
    /\ \A i \in 1 .. Len(queue) :
         queue[i].own => queue[i].op = call.now.op /\ queue[i].mode = call.now.mode
    /\ slot # None => \A e \in slot.pending : e.own => call.now.op = e.op

NxtClosed ==
  /\ ~open => slot = None /\ cache = None
  /\ call.closing => call.phase # "waiting" /\ call.todo = <<>>

NxtSynced == cache # None /\ ~raced => hw.mode = cache

(* What is still to come is nobody's.                                      *)
NxtFresh == {c \in N!Command : c.own = FALSE}
NxtUnissued == call.todo \in Seq(NxtFresh)

NxtOwners == NxtOwnOnce /\ NxtOwnOpen /\ NxtOwnIsNow
NxtInv == N!TypeOK /\ NxtUnissued /\ NxtOwners /\ NxtClosed /\ NxtSynced

NxtPhases == {"idle", "waiting", "ok", "failed"}
NxtCallType == [phase : NxtPhases, todo : Seq(N!Command), now : N!Command \cup {None}, closing : BOOLEAN]
NxtSlotType == [alive : BOOLEAN, pending : SUBSET N!Pending]
NxtHubType == [drives : SUBSET Ports, mode : Modes \cup {None}]

LEMMA NxtTypes ==
  ASSUME N!TypeOK
  PROVE  /\ call \in NxtCallType /\ queue \in Seq(N!Command) /\ hw \in NxtHubType
         /\ slot # None => slot \in NxtSlotType
         /\ Len(queue) \in Nat /\ DOMAIN queue = 1 .. Len(queue)
         /\ \A i \in 1 .. Len(queue) : queue[i] \in N!Command
  <1>1. /\ call \in NxtCallType /\ queue \in Seq(N!Command) /\ hw \in NxtHubType
        /\ slot # None => slot \in NxtSlotType
    BY DEF N!TypeOK, NxtCallType, NxtSlotType, NxtHubType, NxtPhases
  <1> QED
    BY <1>1, LenProperties, ElementOfSeq

----------------------------------------------------------------------------
(* What the calls queue.                                                   *)

LEMMA SetToSeqType ==
  ASSUME NEW S, IsFiniteSet(S)
  PROVE  /\ N!SetToSeq(S) \in Seq(S) /\ Len(N!SetToSeq(S)) \in Nat
         /\ DOMAIN N!SetToSeq(S) = 1 .. Len(N!SetToSeq(S))
         /\ \A i \in 1 .. Len(N!SetToSeq(S)) : N!SetToSeq(S)[i] \in S
  <1> DEFINE n == Cardinality(S)
  <1>1. n \in Nat /\ \E f : f \in Bijection(1 .. n, S)
    BY FS_CardinalityType DEF ExistsBijection
  <1>2. PICK f : f \in Bijection(1 .. n, S)
    BY <1>1
  <1>3. f \in [1 .. n -> S] /\ N!IsInjective(f)
    BY <1>2 DEF Bijection, Injection, IsInjective, N!IsInjective
  <1>4. N!Cardinality(S) = n
    BY Zenon DEF N!Cardinality, Cardinality
  <1>5. N!SetToSeq(S) \in [1 .. n -> S]
    BY <1>3, <1>4 DEF N!SetToSeq
  <1>6. N!SetToSeq(S) \in Seq(S)
    BY <1>1, <1>5
  <1> QED
    BY <1>6, LenProperties, ElementOfSeq

(* A function on 1 .. n is a sequence of its values; so are one or none.    *)
LEMMA FunctionIsSeq ==
  ASSUME NEW S, NEW n \in Nat, NEW f \in [1 .. n -> S]
  PROVE  f \in Seq(S) /\ Len(f) = n
  OBVIOUS

LEMMA OneSeq ==
  ASSUME NEW S, NEW x \in S
  PROVE  <<x>> \in Seq(S) /\ <<>> \in Seq(S)
  OBVIOUS

LEMMA NxtCmdType ==
  ASSUME NEW op \in N!Ops, NEW S \in SUBSET Ports, NEW w \in BOOLEAN
  PROVE  /\ N!Cmd(op, S, w) \in N!Command /\ N!Cmd(op, S, w).own = FALSE
         /\ \A m \in Modes : [N!Cmd(op, S, w) EXCEPT !.mode = m] \in N!Command
                             /\ [N!Cmd(op, S, w) EXCEPT !.mode = m].own = FALSE
  BY DEF N!Cmd, N!Command

LEMMA NxtBatchType ==
  ASSUME NEW op \in N!Ops, NEW S \in SUBSET Ports, IsFiniteSet(S)
  PROVE  /\ N!Batch(op, S) \in Seq(NxtFresh) /\ N!Each(op, S) \in Seq(NxtFresh)
  <1> DEFINE s == N!SetToSeq(S)
  <1>1. /\ Len(s) \in Nat /\ DOMAIN s = 1 .. Len(s)
        /\ \A i \in 1 .. Len(s) : s[i] \in S
    BY SetToSeqType
  <1> HIDE DEF s
  <1>2. ASSUME NEW i \in 1 .. Len(s)
        PROVE  N!Cmd(op, {s[i]}, i = Len(s)) \in NxtFresh /\ N!Cmd(op, {s[i]}, TRUE) \in NxtFresh
    <2>1. {s[i]} \in SUBSET Ports /\ (i = Len(s)) \in BOOLEAN
      BY <1>1
    <2> QED
      BY <2>1, NxtCmdType DEF NxtFresh
  <1>3. /\ N!Batch(op, S) = [i \in 1 .. Len(s) |-> N!Cmd(op, {s[i]}, i = Len(s))]
        /\ N!Each(op, S) = [i \in 1 .. Len(s) |-> N!Cmd(op, {s[i]}, TRUE)]
    BY <1>1 DEF N!Batch, N!Each, s
  <1>4. N!Batch(op, S) \in [1 .. Len(s) -> NxtFresh] /\ N!Each(op, S) \in [1 .. Len(s) -> NxtFresh]
    BY <1>2, <1>3, Zenon
  <1> QED
    BY <1>1, <1>4, FunctionIsSeq

LEMMA NxtStopsType ==
  ASSUME NxtBounded
  PROVE  N!Stops \in Seq(N!Command) /\ \A i \in 1 .. Len(N!Stops) : N!Stops[i].own = FALSE
  <1> DEFINE s == N!SetToSeq(Ports)
  <1>1. /\ Len(s) \in Nat /\ DOMAIN s = 1 .. Len(s)
        /\ \A i \in 1 .. Len(s) : s[i] \in Ports
    BY SetToSeqType DEF NxtBounded
  <1> HIDE DEF s
  <1>2. \A i \in 1 .. Len(s) :
           N!Cmd("off", {s[i]}, FALSE) \in N!Command /\ N!Cmd("off", {s[i]}, FALSE).own = FALSE
    <2> TAKE i \in 1 .. Len(s)
    <2>1. {s[i]} \in SUBSET Ports /\ "off" \in N!Ops
      BY <1>1 DEF N!Ops
    <2> QED
      BY <2>1, NxtCmdType
  <1>3. N!Stops = [i \in 1 .. Len(s) |-> N!Cmd("off", {s[i]}, FALSE)]
    BY <1>1 DEF N!Stops, s
  <1>4. N!Stops \in [1 .. Len(s) -> N!Command]
    BY <1>2, <1>3, Zenon
  <1>5. N!Stops \in Seq(N!Command) /\ Len(N!Stops) = Len(s)
    BY <1>1, <1>4, FunctionIsSeq
  <1> QED
    BY <1>2, <1>3, <1>5

LEMMA NxtProgramsType ==
  ASSUME NxtBounded, N!TypeOK, NEW S \in SUBSET Ports, NEW t \in N!Programs(S)
  PROVE  t \in Seq(NxtFresh)
  <1>1. IsFiniteSet(S)
    BY FS_Subset DEF NxtBounded
  <1>2. \A op \in N!Ops : N!Batch(op, S) \in Seq(NxtFresh) /\ N!Each(op, S) \in Seq(NxtFresh)
    BY <1>1, NxtBatchType
  <1>3. <<N!Cmd("step", S, TRUE)>> \in Seq(NxtFresh) /\ <<N!Cmd("time", S, TRUE)>> \in Seq(NxtFresh)
    <2>1. "step" \in N!Ops /\ "time" \in N!Ops
      BY DEF N!Ops
    <2>2. N!Cmd("step", S, TRUE) \in NxtFresh /\ N!Cmd("time", S, TRUE) \in NxtFresh
      BY <2>1, NxtCmdType DEF NxtFresh
    <2> QED
      BY <2>2, OneSeq
  <1>4. ASSUME NEW u \in N!RotateTo(S)
        PROVE  u \in Seq(NxtFresh)
    <2>1. PICK D \in SUBSET S :
            u = N!Each("count", S) \o (IF D = {} THEN <<>> ELSE <<N!Cmd("step", D, TRUE)>>)
      BY DEF N!RotateTo
    <2>2. N!Cmd("step", D, TRUE) \in NxtFresh
      BY NxtCmdType DEF N!Ops, NxtFresh
    <2>3. (IF D = {} THEN <<>> ELSE <<N!Cmd("step", D, TRUE)>>) \in Seq(NxtFresh)
      BY <2>2, OneSeq
    <2>4. N!Each("count", S) \in Seq(NxtFresh)
      BY <1>2 DEF N!Ops
    <2> QED
      BY <2>1, <2>3, <2>4, ConcatProperties
  <1>5. ASSUME NEW m \in Modes
        PROVE  N!ReadSensor(m) \in Seq(NxtFresh)
    <2> DEFINE a == [N!Cmd("mode", {}, TRUE) EXCEPT !.mode = m]
               b == [N!Cmd("read", {}, TRUE) EXCEPT !.mode = m]
    <2>1. a \in NxtFresh /\ b \in NxtFresh
      BY NxtCmdType DEF N!Ops, NxtFresh
    <2>2. N!ReadSensor(m) = (IF cache # m THEN <<a>> ELSE <<>>) \o <<b>>
      BY DEF N!ReadSensor
    <2> HIDE DEF a, b
    <2>3. (IF cache # m THEN <<a>> ELSE <<>>) \in Seq(NxtFresh) /\ <<b>> \in Seq(NxtFresh)
      BY <2>1
    <2> QED
      BY <2>2, <2>3, ConcatProperties
  <1>6. \/ t \in {N!Batch("on", S), N!Batch("off", S), N!Each("zero", S), N!Each("count", S)}
        \/ t \in {<<N!Cmd("step", S, TRUE)>>, <<N!Cmd("time", S, TRUE)>>}
        \/ t \in N!RotateTo(S) \/ \E m \in Modes : t = N!ReadSensor(m)
    BY DEF N!Programs
  <1> QED
    BY <1>2, <1>3, <1>4, <1>5, <1>6 DEF N!Ops

----------------------------------------------------------------------------
(* The operations on the queue and the answer.                             *)

LEMMA NxtQueueTail ==
  ASSUME N!TypeOK, queue # <<>>
  PROVE  /\ Len(queue) \in Nat \ {0} /\ Head(queue) = queue[1] /\ queue[1] \in N!Command
         /\ Tail(queue) \in Seq(N!Command) /\ Len(Tail(queue)) = Len(queue) - 1
         /\ \A i \in 1 .. Len(Tail(queue)) :
              i + 1 \in 1 .. Len(queue) /\ i + 1 # 1 /\ Tail(queue)[i] = queue[i + 1]
  <1>1. queue \in Seq(N!Command)
    BY NxtTypes
  <1>2. /\ Len(queue) \in Nat \ {0} /\ Tail(queue) \in Seq(N!Command)
        /\ Len(Tail(queue)) = Len(queue) - 1
        /\ \A i \in 1 .. Len(Tail(queue)) : Tail(queue)[i] = queue[i + 1]
    BY <1>1, HeadTailProperties, EmptySeq
  <1>3. Head(queue) = queue[1] /\ queue[1] \in N!Command
    BY <1>1, <1>2, ElementOfSeq
  <1>4. \A i \in 1 .. Len(Tail(queue)) : i + 1 \in 1 .. Len(queue) /\ i + 1 # 1
    BY <1>2
  <1> QED
    BY <1>2, <1>3, <1>4

(* A new command at the end.                                               *)
LEMMA NxtQueueAppend ==
  ASSUME NEW q \in Seq(N!Command), NEW c \in N!Command
  PROVE  /\ Append(q, c) \in Seq(N!Command) /\ Len(Append(q, c)) = Len(q) + 1 /\ Len(q) \in Nat
         /\ \A i \in 1 .. Len(q) + 1 :
              \/ i = Len(q) + 1 /\ Append(q, c)[i] = c
              \/ i \in 1 .. Len(q) /\ Append(q, c)[i] = q[i]
  <1>1. Len(q) \in Nat
    BY LenProperties
  <1> QED
    BY <1>1

LEMMA NxtFreshIsCommand ==
  ASSUME NEW t \in Seq(NxtFresh)
  PROVE  t \in Seq(N!Command)
  BY SeqMonotonic DEF NxtFresh

LEMMA NxtUnissuedKept ==
  ASSUME NxtUnissued, call'.todo = call.todo \/ call'.todo = <<>>
                     \/ (call.todo # <<>> /\ call'.todo = Tail(call.todo))
  PROVE  NxtUnissued'
  BY HeadTailProperties, EmptySeq DEF NxtUnissued

LEMMA NxtDisowned ==
  ASSUME N!TypeOK
  PROVE  LET q == [i \in DOMAIN queue |-> N!Disown(queue[i])]
         IN  /\ q \in Seq(N!Command) /\ Len(q) = Len(queue)
             /\ \A i \in 1 .. Len(queue) : q[i].own = FALSE
  <1> DEFINE q == [i \in 1 .. Len(queue) |-> N!Disown(queue[i])]
  <1>1. Len(queue) \in Nat /\ DOMAIN queue = 1 .. Len(queue)
        /\ \A i \in 1 .. Len(queue) : queue[i] \in N!Command
    BY NxtTypes
  <1>2. \A c \in N!Command : N!Disown(c) \in N!Command /\ N!Disown(c).own = FALSE
    BY DEF N!Disown, N!Command
  <1>3. q \in Seq(N!Command) /\ Len(q) = Len(queue) /\ \A i \in 1 .. Len(queue) : q[i].own = FALSE
    BY <1>1, <1>2
  <1> QED
    BY <1>1, <1>3

(* What Answer does to the call and the cache.                             *)
LEMMA NxtAnswerIs ==
  ASSUME N!TypeOK, NEW own \in BOOLEAN, NEW ok \in BOOLEAN, N!Answer(own, ok)
  PROVE  /\ call' \in NxtCallType /\ call'.closing = call.closing
         /\ call'.todo = call.todo \/ call'.todo = <<>>
         /\ \/ /\ own /\ call.phase = "waiting"
               /\ call'.phase = IF ok THEN "ok" ELSE "failed"
               /\ cache' = IF ok /\ call.now.op = "mode" THEN call.now.mode ELSE cache
            \/ ~(own /\ call.phase = "waiting") /\ call' = call /\ cache' = cache
  <1>1. call \in NxtCallType
    BY NxtTypes
  <1>2. CASE own /\ call.phase = "waiting"
    <2>1. /\ call' = IF ok THEN [call EXCEPT !.phase = "ok", !.now = None]
                     ELSE [call EXCEPT !.phase = "failed", !.now = None, !.todo = <<>>]
          /\ cache' = IF ok /\ call.now.op = "mode" THEN call.now.mode ELSE cache
      BY <1>2 DEF N!Answer
    <2>2. ASSUME ok
          PROVE  /\ call' \in NxtCallType /\ call'.closing = call.closing
                 /\ call'.todo = call.todo /\ call'.phase = "ok"
      BY <1>1, <2>1, <2>2 DEF NxtCallType, NxtPhases
    <2>3. ASSUME ~ok
          PROVE  /\ call' \in NxtCallType /\ call'.closing = call.closing
                 /\ call'.todo = <<>> /\ call'.phase = "failed"
      <3>1. <<>> \in Seq(N!Command)
        BY EmptySeq
      <3> DEFINE S == Seq(N!Command)
      <3>2. call \in [phase : NxtPhases, todo : S, now : N!Command \cup {None}, closing : BOOLEAN] /\ <<>> \in S
        BY <1>1, <3>1 DEF NxtCallType
      <3> HIDE DEF S
      <3>3. call' \in [phase : NxtPhases, todo : S, now : N!Command \cup {None}, closing : BOOLEAN]
        BY <2>1, <2>3, <3>2 DEF NxtPhases
      <3>4. call'.closing = call.closing /\ call'.todo = <<>> /\ call'.phase = "failed"
        BY <2>1, <2>3, <3>2
      <3> QED
        BY <3>3, <3>4 DEF NxtCallType, S
    <2> QED
      BY <1>2, <2>1, <2>2, <2>3
  <1>3. CASE ~(own /\ call.phase = "waiting")
    <2>1. call' = call /\ cache' = cache
      BY <1>3 DEF N!Answer
    <2> QED
      BY <1>1, <1>3, <2>1
  <1> QED
    BY <1>2, <1>3

----------------------------------------------------------------------------
(* Owners.                                                                 *)

(* Nobody owns anything any more.                                          *)
LEMMA NxtOwnersGone ==
  ASSUME \A i \in 1 .. Len(queue)' : queue'[i].own = FALSE,
         slot' # None => \A e \in slot'.pending : e.own = FALSE
  PROVE  NxtOwners'
  BY DEF NxtOwners, NxtOwnOnce, NxtOwnOpen, NxtOwnIsNow

(* What is left is what there was, and the call is the same.               *)
LEMMA NxtTailOwners ==
  ASSUME N!TypeOK, NxtOwners, queue # <<>>, NEW i \in 1 .. Len(Tail(queue)), Tail(queue)[i].own
  PROVE  /\ i + 1 \in 1 .. Len(queue) /\ queue[i + 1] = Tail(queue)[i] /\ ~queue[1].own
         /\ \A j \in 1 .. Len(Tail(queue)) : Tail(queue)[j].own => i = j
         /\ slot # None => \A e \in slot.pending : ~e.own
  <1>1. /\ i + 1 \in 1 .. Len(queue) /\ i + 1 # 1 /\ Tail(queue)[i] = queue[i + 1]
        /\ Len(queue) \in Nat \ {0} /\ 1 \in 1 .. Len(queue)
    BY NxtQueueTail
  <1>2. ~queue[1].own
    BY <1>1 DEF NxtOwners, NxtOwnOnce
  <1>3. ASSUME NEW j \in 1 .. Len(Tail(queue)), Tail(queue)[j].own
        PROVE  i = j
    <2>1. j + 1 \in 1 .. Len(queue) /\ Tail(queue)[j] = queue[j + 1]
      BY NxtQueueTail
    <2>2. i + 1 = j + 1
      BY <1>1, <1>3, <2>1 DEF NxtOwners, NxtOwnOnce
    <2> QED
      BY <2>2
  <1>4. slot # None => \A e \in slot.pending : ~e.own
    BY <1>1 DEF NxtOwners, NxtOwnOnce
  <1> QED
    BY <1>1, <1>2, <1>3, <1>4

LEMMA NxtOwnersFewer ==
  ASSUME N!TypeOK, NxtOwners, call' = call,
         queue' = queue \/ (queue # <<>> /\ queue' = Tail(queue)),
         slot' = None \/ (slot # None /\ slot'.pending \subseteq slot.pending)
  PROVE  NxtOwners'
  <1>1. CASE queue' = queue
    BY <1>1 DEF NxtOwners, NxtOwnOnce, NxtOwnOpen, NxtOwnIsNow
  <1>2. CASE queue # <<>> /\ queue' = Tail(queue)
    <2>1. ASSUME NEW i \in 1 .. Len(queue'), queue'[i].own
          PROVE  /\ call'.phase \in {"waiting", "failed"}
                 /\ call'.phase = "waiting" => queue'[i].op = call'.now.op /\ queue'[i].mode = call'.now.mode
                 /\ \A j \in 1 .. Len(queue') : queue'[j].own => i = j
                 /\ slot # None => \A e \in slot.pending : ~e.own
      <3>1. /\ i + 1 \in 1 .. Len(queue) /\ queue[i + 1] = queue'[i]
            /\ \A j \in 1 .. Len(queue') : queue'[j].own => i = j
            /\ slot # None => \A e \in slot.pending : ~e.own
        BY <1>2, <2>1, NxtTailOwners
      <3> QED
        BY <2>1, <3>1 DEF NxtOwners, NxtOwnOpen, NxtOwnIsNow
    <2>2. slot' # None => \A e \in slot'.pending : e.own =>
            /\ \A f \in slot'.pending : f.own => f = e
            /\ call'.phase \in {"waiting", "failed"}
            /\ call'.phase = "waiting" => call'.now.op = e.op
            /\ e \in slot.pending /\ slot # None
      BY DEF NxtOwners, NxtOwnOnce, NxtOwnOpen, NxtOwnIsNow
    <2> QED
      BY <2>1, <2>2 DEF NxtOwners, NxtOwnOnce, NxtOwnOpen, NxtOwnIsNow
  <1> QED
    BY <1>1, <1>2

----------------------------------------------------------------------------
(* Each action keeps the invariant.                                        *)

LEMMA NxtConnectKeeps ==
  ASSUME NxtInv, N!Connect
  PROVE  NxtInv'
  <1>1. /\ open' = TRUE /\ slot' = [alive |-> TRUE, pending |-> {}] /\ queue' = <<>>
        /\ call' = N!NoCall /\ ran' = FALSE /\ misled' = FALSE /\ raced' = FALSE
        /\ UNCHANGED <<link, cache, hw, mishaps>> /\ cache = None
    BY DEF N!Connect, NxtInv, NxtClosed
  <1>2. <<>> \in Seq(N!Command) /\ Len(<<>>) = 0
    BY EmptySeq
  <1>3. N!NoCall \in NxtCallType /\ N!NoCall.phase = "idle"
    BY <1>2 DEF N!NoCall, NxtCallType, NxtPhases
  <1>4. slot' \in NxtSlotType /\ slot'.pending = {}
    BY <1>1 DEF NxtSlotType
  <1>5. N!TypeOK'
    BY <1>1, <1>2, <1>3, <1>4 DEF NxtInv, N!TypeOK, NxtCallType, NxtPhases, NxtSlotType
  <1>6. NxtOwners'
    BY <1>1, <1>2, <1>4, NxtOwnersGone
  <1>7. NxtClosed' /\ NxtUnissued'
    BY <1>1, <1>3, EmptySeq DEF NxtClosed, N!NoCall, NxtUnissued
  <1> QED
    BY <1>1, <1>5, <1>6, <1>7 DEF NxtInv, NxtSynced

LEMMA NxtCloseKeeps ==
  ASSUME NxtInv, N!Close
  PROVE  NxtInv'
  <1>1. /\ open' = FALSE /\ slot' = None /\ queue' = <<>> /\ cache' = None
        /\ call' = N!NoCall /\ ran' = FALSE /\ misled' = FALSE /\ raced' = FALSE
        /\ UNCHANGED <<link, hw, mishaps>>
    BY DEF N!Close
  <1>2. <<>> \in Seq(N!Command) /\ Len(<<>>) = 0
    BY EmptySeq
  <1>3. N!NoCall \in NxtCallType /\ N!NoCall.phase = "idle"
    BY <1>2 DEF N!NoCall, NxtCallType, NxtPhases
  <1>4. N!TypeOK'
    BY <1>1, <1>2, <1>3 DEF NxtInv, N!TypeOK, NxtCallType, NxtPhases
  <1>5. NxtOwners'
    BY <1>1, <1>2, NxtOwnersGone
  <1>6. NxtClosed' /\ NxtUnissued'
    BY <1>1, <1>3, EmptySeq DEF NxtClosed, N!NoCall, NxtUnissued
  <1> QED
    BY <1>1, <1>4, <1>5, <1>6 DEF NxtInv, NxtSynced

LEMMA NxtDisconnectKeeps ==
  ASSUME NxtBounded, NxtInv, N!Disconnect
  PROVE  NxtInv'
  <1>1. /\ queue' = (IF slot = None THEN queue ELSE queue \o N!Stops)
        /\ call' = [call EXCEPT !.closing = TRUE]
        /\ call.phase # "waiting" /\ call.todo = <<>> /\ open
        /\ UNCHANGED <<open, link, slot, cache, hw, mishaps, ran, misled, raced>>
    BY DEF N!Disconnect, N!Over
  <1>2. /\ N!TypeOK /\ call \in NxtCallType /\ queue \in Seq(N!Command) /\ Len(queue) \in Nat
    BY NxtTypes DEF NxtInv
  <1>3. /\ call' \in NxtCallType /\ call'.phase = call.phase /\ call'.todo = <<>>
    BY <1>1, <1>2 DEF NxtCallType
  <1>4. /\ queue' \in Seq(N!Command)
        /\ \A i \in 1 .. Len(queue') : queue'[i].own => i \in 1 .. Len(queue) /\ queue'[i] = queue[i]
    <2>1. CASE slot = None
      BY <1>1, <1>2, <2>1
    <2>2. CASE slot # None
      <3>1. N!Stops \in Seq(N!Command) /\ \A i \in 1 .. Len(N!Stops) : N!Stops[i].own = FALSE
        BY NxtStopsType
      <3> DEFINE t == N!Stops
      <3>2. Len(t) \in Nat /\ t \in Seq(N!Command) /\ \A i \in 1 .. Len(t) : t[i].own = FALSE
        BY <3>1, LenProperties
      <3> HIDE DEF t
      <3>3. /\ queue \o t \in Seq(N!Command) /\ Len(queue \o t) = Len(queue) + Len(t)
            /\ \A i \in 1 .. Len(queue) + Len(t) :
                 (queue \o t)[i] = IF i <= Len(queue) THEN queue[i] ELSE t[i - Len(queue)]
        BY <1>2, <3>2, ConcatProperties
      <3>4. queue' = queue \o t
        BY <1>1, <2>2 DEF t
      <3>5. ASSUME NEW i \in 1 .. Len(queue \o t), (queue \o t)[i].own
            PROVE  i \in 1 .. Len(queue) /\ (queue \o t)[i] = queue[i]
        <4>1. CASE i <= Len(queue)
          BY <1>2, <3>2, <3>3, <4>1
        <4>2. CASE i > Len(queue)
          <5>1. i - Len(queue) \in 1 .. Len(t) /\ (queue \o t)[i] = t[i - Len(queue)]
            BY <1>2, <3>2, <3>3, <4>2
          <5> QED
            BY <3>2, <3>5, <5>1
        <4> QED
          BY <1>2, <3>2, <3>3, <4>1, <4>2
      <3> QED
        BY <3>3, <3>4, <3>5
    <2> QED
      BY <2>1, <2>2
  <1>5. N!TypeOK'
    BY <1>1, <1>2, <1>3, <1>4 DEF N!TypeOK, NxtCallType, NxtPhases
  <1>6. NxtOwners'
    <2>1. slot' = slot /\ call'.phase = call.phase /\ call.phase # "waiting"
      BY <1>1, <1>3
    <2> QED
      BY <1>4, <2>1 DEF NxtInv, NxtOwners, NxtOwnOnce, NxtOwnOpen, NxtOwnIsNow
  <1>7. NxtClosed' /\ NxtSynced' /\ NxtUnissued'
    BY <1>1, <1>3, NxtUnissuedKept DEF NxtInv, NxtClosed, NxtSynced
  <1> QED
    BY <1>5, <1>6, <1>7 DEF NxtInv

LEMMA NxtBeginKeeps ==
  ASSUME NxtBounded, NxtInv, N!Begin
  PROVE  NxtInv'
  <1>1. PICK S \in SUBSET Ports : \E t \in N!Programs(S) : call' = [call EXCEPT !.todo = t]
    BY DEF N!Begin
  <1>2. PICK t \in N!Programs(S) : call' = [call EXCEPT !.todo = t]
    BY <1>1
  <1>3. /\ UNCHANGED <<open, link, slot, queue, cache, hw, mishaps, ran, misled, raced>>
        /\ ~call.closing
    BY DEF N!Begin, N!Over
  <1>4. t \in Seq(NxtFresh) /\ t \in Seq(N!Command) /\ call \in NxtCallType
    BY NxtProgramsType, NxtFreshIsCommand, NxtTypes DEF NxtInv
  <1>5. /\ call' \in NxtCallType /\ call'.todo = t /\ call'.phase = call.phase /\ call'.now = call.now
        /\ call'.closing = call.closing
    BY <1>2, <1>4 DEF NxtCallType
  <1>6. N!TypeOK'
    BY <1>3, <1>5 DEF NxtInv, N!TypeOK, NxtCallType, NxtPhases
  <1>7. NxtOwners'
    BY <1>3, <1>5 DEF NxtInv, NxtOwners, NxtOwnOnce, NxtOwnOpen, NxtOwnIsNow
  <1>8. NxtClosed' /\ NxtSynced' /\ NxtUnissued'
    BY <1>3, <1>4, <1>5 DEF NxtInv, NxtClosed, NxtSynced, NxtUnissued
  <1> QED
    BY <1>6, <1>7, <1>8 DEF NxtInv

(* A call that fails at once, one that waits, one that does not.           *)
LEMMA NxtIssueKeeps ==
  ASSUME NxtInv, N!Issue
  PROVE  NxtInv'
  <1> DEFINE c == Head(call.todo)
  <1>1. /\ N!TypeOK /\ call \in NxtCallType /\ queue \in Seq(N!Command) /\ call.phase # "waiting"
        /\ call.todo # <<>> /\ ~call.closing
        /\ slot # None => slot \in NxtSlotType
        /\ UNCHANGED <<open, link, cache, hw, mishaps, raced>>
    BY NxtTypes DEF NxtInv, N!Issue, NxtClosed
  <1>2. /\ c \in N!Command /\ c.own = FALSE /\ Tail(call.todo) \in Seq(N!Command) /\ <<>> \in Seq(N!Command)
    <2>1. call.todo \in Seq(N!Command)
      BY <1>1 DEF NxtCallType
    <2>2. c \in NxtFresh
      BY <1>1, HeadTailProperties DEF NxtInv, NxtUnissued
    <2> QED
      BY <1>1, <2>1, <2>2, HeadTailProperties, EmptySeq DEF NxtFresh
  <1> HIDE DEF c
  <1>3. CASE slot = None
    <2>1. /\ call' = [call EXCEPT !.phase = "failed", !.todo = <<>>]
          /\ ran' = FALSE /\ misled' = FALSE /\ UNCHANGED <<slot, queue>>
      BY <1>3 DEF N!Issue
    <2>2. call' \in NxtCallType /\ call'.phase = "failed" /\ call'.todo = <<>>
      <3> DEFINE S == Seq(N!Command)
      <3>1. /\ call \in [phase : NxtPhases, todo : S, now : N!Command \cup {None}, closing : BOOLEAN]
            /\ <<>> \in S
        BY <1>1, <1>2 DEF NxtCallType
      <3> HIDE DEF S
      <3>2. call' \in [phase : NxtPhases, todo : S, now : N!Command \cup {None}, closing : BOOLEAN]
        BY <2>1, <3>1 DEF NxtPhases
      <3>3. call'.phase = "failed" /\ call'.todo = <<>>
        BY <2>1, <3>1
      <3> QED
        BY <3>2, <3>3 DEF NxtCallType, S
    <2>3. N!TypeOK'
      BY <1>1, <2>1, <2>2 DEF N!TypeOK, NxtCallType, NxtPhases
    <2>4. NxtOwners'
      BY <1>1, <1>3, <2>1, <2>2 DEF NxtInv, NxtOwners, NxtOwnOnce, NxtOwnOpen, NxtOwnIsNow
    <2>5. NxtUnissued'
      BY <2>2, NxtUnissuedKept DEF NxtInv
    <2> QED
      BY <1>1, <2>1, <2>2, <2>3, <2>4, <2>5 DEF NxtInv, NxtClosed, NxtSynced
  <1>4. CASE slot # None /\ c.wait
    <2> DEFINE q == [i \in DOMAIN queue |-> N!Disown(queue[i])]
               d == [c EXCEPT !.own = TRUE]
    <2>1. /\ call' = [call EXCEPT !.phase = "waiting", !.todo = Tail(@), !.now = c]
          /\ ran' = FALSE /\ misled' = FALSE
          /\ slot' = [slot EXCEPT !.pending = {N!Disown(e) : e \in @}]
          /\ queue' = Append(q, d)
      BY <1>4 DEF N!Issue, c
    <2>2. /\ call' \in NxtCallType /\ call'.phase = "waiting" /\ call'.now = c
          /\ call'.closing = call.closing /\ call'.todo = Tail(call.todo)
      <3>1. /\ call'.phase = "waiting" /\ call'.now = c /\ call'.closing = call.closing
            /\ call'.todo = Tail(call.todo)
            /\ call' = [phase |-> "waiting", todo |-> Tail(call.todo), now |-> c,
                        closing |-> call.closing]
        BY <1>1, <2>1 DEF NxtCallType
      <3>2. call.closing \in BOOLEAN
        BY <1>1 DEF NxtCallType
      <3> QED
        BY <1>2, <3>1, <3>2 DEF NxtCallType, NxtPhases
    <2>3. d \in N!Command /\ d.op = c.op /\ d.mode = c.mode
      BY <1>2 DEF N!Command
    <2>4. q \in Seq(N!Command) /\ Len(q) = Len(queue) /\ \A i \in 1 .. Len(queue) : q[i].own = FALSE
      BY <1>1, NxtDisowned
    <2> HIDE DEF q, d
    <2>5. /\ queue' \in Seq(N!Command) /\ Len(queue') = Len(q) + 1 /\ Len(q) \in Nat
          /\ \A i \in 1 .. Len(queue') : queue'[i].own => i = Len(q) + 1 /\ queue'[i] = d
      <3>1. /\ queue' \in Seq(N!Command) /\ Len(queue') = Len(q) + 1 /\ Len(q) \in Nat
            /\ \A i \in 1 .. Len(q) + 1 :
                 \/ i = Len(q) + 1 /\ queue'[i] = d
                 \/ i \in 1 .. Len(q) /\ queue'[i] = q[i]
        BY <2>1, <2>3, <2>4, NxtQueueAppend
      <3>2. \A i \in 1 .. Len(q) : q[i].own = FALSE
        BY <2>4
      <3> QED
        BY <3>1, <3>2
    <2>6. slot' \in NxtSlotType /\ \A e \in slot'.pending : e.own = FALSE
      <3>1. /\ slot' = [slot EXCEPT !.pending = {N!Disown(e) : e \in slot.pending}]
            /\ slot \in NxtSlotType
        BY <1>1, <1>4, <2>1
      <3>2. \A e \in N!Pending : N!Disown(e) \in N!Pending /\ N!Disown(e).own = FALSE
        BY DEF N!Disown, N!Pending
      <3>3. slot'.pending = {N!Disown(e) : e \in slot.pending} /\ slot.pending \subseteq N!Pending
        BY <3>1 DEF NxtSlotType
      <3>4. \A e \in slot'.pending : e \in N!Pending /\ e.own = FALSE
        BY <3>2, <3>3
      <3> QED
        BY <3>1, <3>3, <3>4 DEF NxtSlotType
    <2>7. N!TypeOK'
      BY <1>1, <2>1, <2>2, <2>5, <2>6 DEF N!TypeOK, NxtCallType, NxtPhases, NxtSlotType
    <2>8. NxtOwners'
      <3>1. NxtOwnOnce'
        BY <2>5, <2>6 DEF NxtOwnOnce
      <3>2. NxtOwnOpen' /\ NxtOwnIsNow'
        BY <2>2, <2>3, <2>5, <2>6 DEF NxtOwnOpen, NxtOwnIsNow
      <3> QED
        BY <3>1, <3>2 DEF NxtOwners
    <2>9. NxtUnissued'
      BY <1>1, <2>2, NxtUnissuedKept DEF NxtInv
    <2> QED
      BY <1>1, <1>4, <2>2, <2>7, <2>8, <2>9 DEF NxtInv, NxtClosed, NxtSynced
  <1>5. CASE slot # None /\ ~c.wait
    <2>1. /\ call' = [call EXCEPT !.todo = Tail(@)] /\ queue' = Append(queue, c)
          /\ UNCHANGED <<slot, ran, misled>>
      BY <1>5 DEF N!Issue, c
    <2>2. /\ call' \in NxtCallType /\ call'.phase = call.phase /\ call'.closing = call.closing
          /\ call'.todo = Tail(call.todo)
      <3>1. /\ call' = [phase |-> call.phase, todo |-> Tail(call.todo), now |-> call.now,
                        closing |-> call.closing]
            /\ call.phase \in NxtPhases /\ call.now \in N!Command \cup {None} /\ call.closing \in BOOLEAN
        BY <1>1, <2>1 DEF NxtCallType
      <3> QED
        BY <1>2, <3>1 DEF NxtCallType
    <2>3. /\ queue' \in Seq(N!Command) /\ Len(queue') = Len(queue) + 1 /\ Len(queue) \in Nat
          /\ \A i \in 1 .. Len(queue') : queue'[i].own => i \in 1 .. Len(queue) /\ queue'[i] = queue[i]
      <3>1. /\ queue' \in Seq(N!Command) /\ Len(queue') = Len(queue) + 1 /\ Len(queue) \in Nat
            /\ \A i \in 1 .. Len(queue) + 1 :
                 \/ i = Len(queue) + 1 /\ queue'[i] = c
                 \/ i \in 1 .. Len(queue) /\ queue'[i] = queue[i]
        BY <1>1, <1>2, <2>1, NxtQueueAppend
      <3> QED
        BY <1>2, <3>1
    <2>4. N!TypeOK'
      BY <1>1, <2>1, <2>2, <2>3 DEF N!TypeOK, NxtCallType, NxtPhases
    <2>5. NxtOwners'
      BY <1>1, <2>1, <2>2, <2>3 DEF NxtInv, NxtOwners, NxtOwnOnce, NxtOwnOpen, NxtOwnIsNow
    <2>6. NxtUnissued'
      BY <1>1, <2>2, NxtUnissuedKept DEF NxtInv
    <2> QED
      BY <1>1, <1>5, <2>1, <2>2, <2>4, <2>5, <2>6 DEF NxtInv, NxtClosed, NxtSynced
  <1> QED
    BY <1>3, <1>4, <1>5

(* The caller gives up; what it queued is still there.                     *)
LEMMA NxtMishapType ==
  ASSUME NxtBounded, N!TypeOK, N!Mishap
  PROVE  mishaps' \in 0 .. MaxMishaps
  <1>1. mishaps \in 0 .. MaxMishaps /\ MaxMishaps \in Nat /\ mishaps < MaxMishaps /\ mishaps' = mishaps + 1
    BY DEF N!TypeOK, NxtBounded, N!Mishap
  <1> QED
    BY <1>1

LEMMA NxtTimeOutKeeps ==
  ASSUME NxtBounded, NxtInv, N!TimeOut
  PROVE  NxtInv'
  <1>1. /\ call' = [call EXCEPT !.phase = "failed", !.now = None, !.todo = <<>>]
        /\ call.phase = "waiting"
        /\ UNCHANGED <<open, link, slot, queue, cache, hw, ran, misled, raced>>
    BY DEF N!TimeOut
  <1>2. call \in NxtCallType /\ <<>> \in Seq(N!Command) /\ ~call.closing
    <2>1. call.closing => call.phase # "waiting"
      BY DEF NxtInv, NxtClosed
    <2> QED
      BY <1>1, <2>1, NxtTypes, EmptySeq DEF NxtInv
  <1>3. /\ call' = [phase |-> "failed", todo |-> <<>>, now |-> None, closing |-> call.closing]
        /\ call.closing \in BOOLEAN
    BY <1>1, <1>2 DEF NxtCallType
  <1>4. /\ call' \in NxtCallType /\ call'.phase = "failed" /\ call'.todo = <<>>
        /\ call'.closing = call.closing
    BY <1>2, <1>3 DEF NxtCallType, NxtPhases
  <1>5. mishaps' \in 0 .. MaxMishaps
    BY NxtMishapType DEF NxtInv, N!TimeOut
  <1>6. N!TypeOK'
    BY <1>1, <1>4, <1>5 DEF NxtInv, N!TypeOK, NxtCallType, NxtPhases
  <1>7. NxtOwners'
    BY <1>1, <1>4 DEF NxtInv, NxtOwners, NxtOwnOnce, NxtOwnOpen, NxtOwnIsNow
  <1>8. NxtUnissued'
    BY <1>4, NxtUnissuedKept DEF NxtInv
  <1> QED
    BY <1>1, <1>2, <1>4, <1>6, <1>7, <1>8 DEF NxtInv, NxtClosed, NxtSynced

(* What every step of the slot does to the call and the cache: it answers  *)
(* the owner, if the caller waits for it, or does not touch them.          *)
NxtStepFacts(own, ok) ==
  /\ IF own /\ call.phase = "waiting"
     THEN /\ \A i \in 1 .. Len(queue') : queue'[i].own = FALSE
          /\ slot' # None => \A e \in slot'.pending : e.own = FALSE
          /\ ok => call.now.op # "mode"
     ELSE NxtOwners'
  /\ open' = open /\ (link' = link \/ link' \in BOOLEAN) /\ open
  /\ slot' \in NxtSlotType \cup {None} /\ queue' \in Seq(N!Command)
  /\ hw' \in NxtHubType /\ hw'.mode = hw.mode /\ raced' = raced
  /\ (mishaps' = mishaps \/ N!Mishap)
  /\ ran' \in BOOLEAN /\ misled' \in BOOLEAN

LEMMA NxtSlotKeeps ==
  ASSUME NxtBounded, NxtInv, NEW own \in BOOLEAN, NEW ok \in BOOLEAN, N!Answer(own, ok),
         NxtStepFacts(own, ok)
  PROVE  NxtInv'
  <1>1. N!TypeOK /\ call \in NxtCallType
    BY NxtTypes DEF NxtInv
  <1>2. /\ call' \in NxtCallType /\ call'.closing = call.closing
        /\ call'.todo = call.todo \/ call'.todo = <<>>
        /\ call'.phase = call.phase \/ call'.phase # "waiting"
        /\ cache' = cache
    BY <1>1, NxtAnswerIs DEF NxtStepFacts
  <1>3. mishaps' \in 0 .. MaxMishaps
    BY <1>1, NxtMishapType DEF N!TypeOK, NxtStepFacts
  <1>4. N!TypeOK'
    BY <1>1, <1>2, <1>3 DEF N!TypeOK, NxtCallType, NxtPhases, NxtSlotType, NxtHubType,
       NxtStepFacts
  <1>5. NxtOwners'
    <2>1. CASE own /\ call.phase = "waiting"
      BY <2>1, NxtOwnersGone DEF NxtStepFacts
    <2> QED
      BY <2>1 DEF NxtStepFacts
  <1>6. NxtUnissued'
    BY <1>2, NxtUnissuedKept DEF NxtInv
  <1>7. NxtClosed'
    BY <1>2 DEF NxtInv, NxtClosed, NxtStepFacts
  <1>8. NxtSynced'
    BY <1>2 DEF NxtInv, NxtSynced, NxtStepFacts
  <1> QED
    BY <1>4, <1>5, <1>6, <1>7, <1>8 DEF NxtInv

(* The owner is at the head of the queue, so nowhere else.                 *)
LEMMA NxtHeadOwns ==
  ASSUME N!TypeOK, NxtOwners, queue # <<>>, queue[1].own
  PROVE  /\ \A i \in 1 .. Len(Tail(queue)) : Tail(queue)[i].own = FALSE
         /\ slot # None => \A e \in slot.pending : e.own = FALSE
         /\ call.phase \in {"waiting", "failed"}
         /\ call.phase = "waiting" => queue[1].op = call.now.op /\ queue[1].mode = call.now.mode
  <1>1. Len(queue) \in Nat \ {0} /\ 1 \in 1 .. Len(queue) /\ Tail(queue) \in Seq(N!Command)
    BY NxtQueueTail
  <1>2. \A i \in 1 .. Len(Tail(queue)) : Tail(queue)[i].own = FALSE
    <2> TAKE i \in 1 .. Len(Tail(queue))
    <2>1. Tail(queue)[i] \in N!Command
      BY <1>1, ElementOfSeq
    <2>2. ~Tail(queue)[i].own
      BY NxtTailOwners
    <2> QED
      BY <2>1, <2>2 DEF N!Command
  <1>3. slot # None => \A e \in slot.pending : e.own = FALSE
    <2>1. slot # None => slot.pending \subseteq N!Pending
      BY NxtTypes DEF NxtSlotType
    <2> QED
      BY <1>1, <2>1 DEF NxtOwners, NxtOwnOnce, N!Pending
  <1> QED
    BY <1>1, <1>2, <1>3 DEF NxtOwners, NxtOwnOpen, NxtOwnIsNow

(* The owner is run by the slot, so not queued.                            *)
LEMMA NxtRunOwns ==
  ASSUME N!TypeOK, NxtOwners, slot # None, NEW e \in slot.pending, e.own
  PROVE  /\ \A i \in 1 .. Len(queue) : queue[i].own = FALSE
         /\ \A f \in slot.pending \ {e} : f.own = FALSE
         /\ call.phase \in {"waiting", "failed"}
         /\ call.phase = "waiting" => e.op = call.now.op
  <1>1. slot.pending \subseteq N!Pending /\ \A i \in 1 .. Len(queue) : queue[i] \in N!Command
    BY NxtTypes DEF NxtSlotType
  <1>2. \A i \in 1 .. Len(queue) : queue[i].own = FALSE
    BY <1>1 DEF NxtOwners, NxtOwnOnce, N!Command
  <1>3. \A f \in slot.pending \ {e} : f.own = FALSE
    BY <1>1 DEF NxtOwners, NxtOwnOnce, N!Pending
  <1> QED
    BY <1>2, <1>3 DEF NxtOwners, NxtOwnOpen, NxtOwnIsNow

(* What HubCall sees of a step of the slot.                                *)
NxtAnswers(own, ok) ==
  /\ N!Answer(own, ok)
  /\ own => call.phase \in {"waiting", "failed"}
  /\ IF own /\ ok THEN ran' \/ misled' ELSE ran' = ran /\ misled' = misled
NxtSlotStep == \E own, ok \in BOOLEAN : NxtAnswers(own, ok)

LEMMA NxtUnmoved ==
  ASSUME N!TypeOK, NEW own \in BOOLEAN, NEW ok \in BOOLEAN, N!Answer(own, ok),
         ~(own /\ call.phase = "waiting")
  PROVE  call' = call /\ cache' = cache
  BY NxtAnswerIs

(* fail_transport: the one that failed, and if it is the first failure     *)
(* every pending run, are told.                                            *)
LEMMA NxtFailKeeps ==
  ASSUME NxtBounded, NxtInv, slot # None, NEW x, N!FailTransport({x}),
         \/ queue # <<>> /\ x = queue[1] /\ queue' = Tail(queue)
         \/ x \in slot.pending /\ queue' = queue,
         UNCHANGED <<open, link, hw, mishaps, ran, misled, raced>>
  PROVE  NxtInv' /\ NxtSlotStep
  <1> DEFINE told == {x} \cup IF slot.alive THEN slot.pending ELSE {}
             own == \E e \in told : e.own
  <1>1. N!TypeOK /\ NxtOwners /\ slot \in NxtSlotType /\ hw \in NxtHubType /\ open
    BY NxtTypes DEF NxtInv, NxtClosed
  <1>2. /\ slot' = [alive |-> FALSE, pending |-> IF slot.alive THEN {} ELSE slot.pending \ {x}]
        /\ N!Answer(own, FALSE) /\ own \in BOOLEAN
    BY DEF N!FailTransport
  <1> HIDE DEF own
  <1>3. slot' \in NxtSlotType /\ slot'.pending = IF slot.alive THEN {} ELSE slot.pending \ {x}
    BY <1>1, <1>2 DEF NxtSlotType
  <1>4. queue' \in Seq(N!Command)
    BY <1>1, NxtQueueTail, NxtTypes
  <1>5. ASSUME own
        PROVE  /\ call.phase \in {"waiting", "failed"}
               /\ \A i \in 1 .. Len(queue') : queue'[i].own = FALSE
               /\ \A e \in slot'.pending : e.own = FALSE
    <2>1. PICK e \in told : e.own
      BY <1>5 DEF own
    <2>2. CASE e = x /\ queue # <<>> /\ x = queue[1] /\ queue' = Tail(queue)
      <3>1. /\ \A i \in 1 .. Len(Tail(queue)) : Tail(queue)[i].own = FALSE
            /\ slot # None => \A f \in slot.pending : f.own = FALSE
            /\ call.phase \in {"waiting", "failed"}
        BY <1>1, <2>1, <2>2, NxtHeadOwns
      <3> QED
        BY <1>2, <2>2, <3>1
    <2>3. CASE e \in slot.pending
      <3>1. /\ \A i \in 1 .. Len(queue) : queue[i].own = FALSE
            /\ \A f \in slot.pending \ {e} : f.own = FALSE
            /\ call.phase \in {"waiting", "failed"}
        BY <1>1, <2>1, <2>3, NxtRunOwns
      <3>2. \A i \in 1 .. Len(queue') : queue'[i].own = FALSE
        BY <1>1, <3>1, NxtQueueTail
      <3>3. slot.alive \/ e = x
        BY <2>1
      <3> QED
        BY <1>2, <3>1, <3>2, <3>3
    <2> QED
      BY <2>1, <2>2, <2>3
  <1>6. ASSUME ~(own /\ call.phase = "waiting")
        PROVE  NxtOwners'
    <2>1. call' = call
      BY <1>1, <1>2, <1>6, NxtUnmoved
    <2> QED
      BY <1>1, <1>2, <2>1, NxtOwnersFewer
  <1>7. NxtInv'
    <2>1. /\ ran' \in BOOLEAN /\ misled' \in BOOLEAN /\ (mishaps' = mishaps \/ N!Mishap)
          /\ open' = open /\ link' = link /\ hw' \in NxtHubType /\ hw'.mode = hw.mode /\ raced' = raced
      BY <1>1 DEF N!TypeOK
    <2>2. own /\ call.phase = "waiting" =>
            /\ \A i \in 1 .. Len(queue') : queue'[i].own = FALSE
            /\ slot' # None => \A e \in slot'.pending : e.own = FALSE
      BY <1>5
    <2>3. FALSE \in BOOLEAN /\ slot' \in NxtSlotType \cup {None}
      BY <1>3
    <2>4. IF own /\ call.phase = "waiting"
          THEN /\ \A i \in 1 .. Len(queue') : queue'[i].own = FALSE
               /\ slot' # None => \A e \in slot'.pending : e.own = FALSE
               /\ FALSE => call.now.op # "mode"
          ELSE NxtOwners'
      BY <1>6, <2>2, Zenon
    <2>5. NxtStepFacts(own, FALSE)
      BY <1>1, <1>4, <2>1, <2>3, <2>4, Zenon DEF NxtStepFacts
    <2> QED
      BY <1>2, <2>3, <2>5, NxtSlotKeeps
  <1>8. NxtAnswers(own, FALSE)
    BY <1>2, <1>5 DEF NxtAnswers
  <1> QED
    BY <1>2, <1>7, <1>8 DEF NxtSlotStep

(* A command the brick carries out at once.                                *)
LEMMA NxtExecuteNowKeeps ==
  ASSUME NxtBounded, NxtInv, slot # None, queue # <<>>, queue' = Tail(queue),
         NEW c, c = queue[1], ~N!Starts(c),
         hw' = CASE c.op = "on"   -> [hw EXCEPT !.drives = @ \cup c.ports]
                 [] c.op = "off"  -> [hw EXCEPT !.drives = @ \ c.ports]
                 [] c.op = "mode" -> [hw EXCEPT !.mode = c.mode]
                 [] OTHER -> hw,
         raced' = IF c.op # "mode" THEN raced ELSE ~(c.own /\ call.phase = "waiting"),
         ran' = (ran \/ c.own), N!Answer(c.own, TRUE),
         UNCHANGED <<open, link, slot, mishaps, misled>>
  PROVE  NxtInv' /\ NxtSlotStep
  <1>1. /\ N!TypeOK /\ NxtOwners /\ slot \in NxtSlotType /\ hw \in NxtHubType /\ open
        /\ c \in N!Command /\ Tail(queue) \in Seq(N!Command) /\ ran \in BOOLEAN /\ misled \in BOOLEAN
    BY NxtTypes, NxtQueueTail DEF NxtInv, NxtClosed, N!TypeOK
  <1>2. c.own \in BOOLEAN /\ c.ports \in SUBSET Ports /\ c.mode \in Modes \cup {None}
    BY <1>1 DEF N!Command
  <1>3. c.own => /\ call.phase \in {"waiting", "failed"}
                 /\ \A i \in 1 .. Len(queue') : queue'[i].own = FALSE
                 /\ \A e \in slot'.pending : e.own = FALSE
                 /\ call.phase = "waiting" => c.op = call.now.op /\ c.mode = call.now.mode
    BY <1>1, NxtHeadOwns
  <1>4. ASSUME ~(c.own /\ call.phase = "waiting")
        PROVE  NxtOwners' /\ call' = call /\ cache' = cache
    <2>1. call' = call /\ cache' = cache
      BY <1>1, <1>2, <1>4, NxtUnmoved
    <2> QED
      BY <1>1, <2>1, NxtOwnersFewer
  <1>5. /\ hw' \in NxtHubType
        /\ c.op # "mode" => hw'.mode = hw.mode
        /\ c.op = "mode" => hw'.mode = c.mode
    <2>1. CASE c.op = "on"
      <3>1. hw' = [hw EXCEPT !.drives = @ \cup c.ports]
        BY <2>1
      <3> QED
        BY <1>1, <1>2, <2>1, <3>1 DEF NxtHubType
    <2>2. CASE c.op = "off"
      <3>1. hw' = [hw EXCEPT !.drives = @ \ c.ports]
        BY <2>2
      <3> QED
        BY <1>1, <1>2, <2>2, <3>1 DEF NxtHubType
    <2>3. CASE c.op = "mode"
      <3>1. hw' = [hw EXCEPT !.mode = c.mode]
        BY <2>3
      <3> QED
        BY <1>1, <1>2, <2>3, <3>1 DEF NxtHubType
    <2>4. CASE c.op \notin {"on", "off", "mode"}
      <3>1. hw' = hw
        BY <2>4
      <3> QED
        BY <1>1, <2>4, <3>1
    <2> QED
      BY <2>1, <2>2, <2>3, <2>4
  <1>6. ran' \in BOOLEAN /\ misled' \in BOOLEAN
    BY <1>1
  <1>7. ASSUME c.op # "mode" PROVE NxtInv'
    <2>1. call.now.op # "mode" \/ ~(c.own /\ call.phase = "waiting")
      BY <1>3, <1>7
    <2>2. /\ slot' \in NxtSlotType \cup {None} /\ queue' \in Seq(N!Command) /\ raced' = raced
          /\ hw'.mode = hw.mode /\ (mishaps' = mishaps \/ N!Mishap)
          /\ open' = open /\ link' = link /\ TRUE \in BOOLEAN
      BY <1>1, <1>5, <1>7
    <2>3. c.own /\ call.phase = "waiting" =>
            /\ \A i \in 1 .. Len(queue') : queue'[i].own = FALSE
            /\ slot' # None => \A e \in slot'.pending : e.own = FALSE
      BY <1>3
    <2>4. IF c.own /\ call.phase = "waiting"
          THEN /\ \A i \in 1 .. Len(queue') : queue'[i].own = FALSE
               /\ slot' # None => \A e \in slot'.pending : e.own = FALSE
               /\ TRUE => call.now.op # "mode"
          ELSE NxtOwners'
      BY <1>4, <2>1, <2>3, Zenon
    <2>5. NxtStepFacts(c.own, TRUE)
      BY <1>1, <1>5, <1>6, <2>2, <2>4, Zenon DEF NxtStepFacts
    <2> QED
      BY <1>2, <2>2, <2>5, NxtSlotKeeps
  <1>8. ASSUME c.op = "mode" PROVE NxtInv'
    <2>1. hw' \in NxtHubType /\ hw'.mode = c.mode /\ raced' = ~(c.own /\ call.phase = "waiting")
      BY <1>5, <1>8
    <2>2. CASE c.own /\ call.phase = "waiting"
      <3>1. /\ call' \in NxtCallType /\ call'.closing = call.closing /\ call'.phase = "ok"
            /\ call'.todo = call.todo \/ call'.todo = <<>>
            /\ cache' = c.mode
        <4>1. /\ call' \in NxtCallType /\ call'.closing = call.closing
              /\ call'.todo = call.todo \/ call'.todo = <<>>
              /\ call'.phase = "ok" /\ cache' = IF call.now.op = "mode" THEN call.now.mode ELSE cache
          BY <1>1, <1>2, <2>2, NxtAnswerIs
        <4> QED
          BY <1>3, <1>8, <2>2, <4>1
      <3>2. N!TypeOK'
        BY <1>1, <1>2, <1>6, <2>1, <2>2, <3>1
        DEF N!TypeOK, NxtCallType, NxtPhases, NxtSlotType, NxtHubType
      <3>3. NxtOwners'
        BY <1>3, <2>2, NxtOwnersGone
      <3>4. NxtUnissued' /\ NxtClosed' /\ NxtSynced'
        BY <1>1, <2>1, <2>2, <3>1, NxtUnissuedKept DEF NxtInv, NxtClosed, NxtSynced
      <3> QED
        BY <3>2, <3>3, <3>4 DEF NxtInv
    <2>3. CASE ~(c.own /\ call.phase = "waiting")
      <3>1. NxtOwners' /\ call' = call /\ cache' = cache
        BY <1>4, <2>3
      <3>2. N!TypeOK'
        BY <1>1, <1>2, <1>6, <2>1, <2>3, <3>1 DEF N!TypeOK, NxtSlotType, NxtHubType
      <3>3. NxtUnissued' /\ NxtClosed' /\ NxtSynced'
        BY <1>1, <2>1, <2>3, <3>1 DEF NxtInv, NxtUnissued, NxtClosed, NxtSynced
      <3> QED
        BY <3>1, <3>2, <3>3 DEF NxtInv
    <2> QED
      BY <2>2, <2>3
  <1>9. NxtAnswers(c.own, TRUE)
    BY <1>1, <1>2, <1>3 DEF NxtAnswers
  <1> QED
    BY <1>2, <1>7, <1>8, <1>9 DEF NxtSlotStep
(* A rotation or a timed run is started: its owner moves from the queue to *)
(* the runs.                                                               *)
LEMMA NxtStartKeeps ==
  ASSUME NxtBounded, NxtInv, slot # None, queue # <<>>, queue' = Tail(queue),
         NEW c, c = queue[1], N!Starts(c),
         hw' = [hw EXCEPT !.drives = @ \cup c.ports],
         slot' = [slot EXCEPT !.pending =
                    @ \cup {[op |-> c.op, left |-> c.ports, own |-> c.own, astray |-> FALSE]}],
         UNCHANGED <<call, cache, mishaps, ran, raced, open, link, misled>>
  PROVE  NxtInv' /\ NxtSlotStep
  <1> DEFINE run == [op |-> c.op, left |-> c.ports, own |-> c.own, astray |-> FALSE]
  <1>1. /\ N!TypeOK /\ NxtOwners /\ slot \in NxtSlotType /\ hw \in NxtHubType /\ open
        /\ c \in N!Command /\ Tail(queue) \in Seq(N!Command)
    BY NxtTypes, NxtQueueTail DEF NxtInv, NxtClosed
  <1>2. /\ c.own \in BOOLEAN /\ c.ports \in SUBSET Ports /\ c.op \in {"step", "time"}
        /\ run \in N!Pending /\ run.own = c.own /\ run.op = c.op
    BY <1>1 DEF N!Command, N!Starts, N!Pending
  <1> HIDE DEF run
  <1>3. slot' = [slot EXCEPT !.pending = @ \cup {run}]
    BY DEF run
  <1>4. slot' \in NxtSlotType /\ slot'.pending = slot.pending \cup {run}
    <2>1. slot' \in NxtSlotType /\ slot'.pending = slot.pending \cup {run}
      BY <1>1, <1>2, <1>3 DEF NxtSlotType
    <2> QED
      BY <2>1
  <1>5. hw' \in NxtHubType /\ hw'.mode = hw.mode
    BY <1>1, <1>2 DEF NxtHubType
  <1>6. NxtOwners'
    <2>1. CASE c.own
      <3>1. /\ \A i \in 1 .. Len(queue') : queue'[i].own = FALSE
            /\ \A e \in slot.pending : e.own = FALSE
            /\ call.phase \in {"waiting", "failed"}
            /\ call.phase = "waiting" => c.op = call.now.op
        BY <1>1, <2>1, NxtHeadOwns
      <3> QED
        BY <1>2, <1>4, <3>1 DEF NxtOwners, NxtOwnOnce, NxtOwnOpen, NxtOwnIsNow
    <2>2. CASE ~c.own
      <3>1. \A i \in 1 .. Len(queue') : queue'[i].own =>
              /\ i + 1 \in 1 .. Len(queue) /\ queue[i + 1] = queue'[i]
              /\ \A j \in 1 .. Len(queue') : queue'[j].own => i = j
              /\ \A e \in slot.pending : ~e.own
        BY <1>1, NxtTailOwners
      <3>2. \A e \in slot'.pending : e.own => e \in slot.pending
        BY <1>2, <1>4, <2>2
      <3>3. NxtOwnOnce'
        BY <1>1, <1>4, <3>1, <3>2 DEF NxtOwners, NxtOwnOnce
      <3>4. NxtOwnOpen' /\ NxtOwnIsNow'
        BY <1>1, <1>4, <3>1, <3>2 DEF NxtOwners, NxtOwnOpen, NxtOwnIsNow
      <3> QED
        BY <3>3, <3>4 DEF NxtOwners
    <2> QED
      BY <2>1, <2>2
  <1>7. N!TypeOK'
    BY <1>1, <1>4, <1>5 DEF N!TypeOK, NxtSlotType, NxtHubType
  <1>8. NxtUnissued' /\ NxtClosed' /\ NxtSynced'
    BY <1>1, <1>5 DEF NxtInv, NxtUnissued, NxtClosed, NxtSynced
  <1>9. NxtAnswers(FALSE, FALSE)
    BY DEF NxtAnswers, N!Answer
  <1> QED
    BY <1>6, <1>7, <1>8, <1>9 DEF NxtInv, NxtSlotStep

LEMMA NxtRefuseKeeps ==
  ASSUME NxtBounded, NxtInv, slot # None, queue # <<>>, queue' = Tail(queue),
         NEW c, c = queue[1], N!Mishap, N!Answer(c.own, FALSE),
         UNCHANGED <<slot, hw, ran, raced, open, link, misled>>
  PROVE  NxtInv' /\ NxtSlotStep
  <1>1. /\ N!TypeOK /\ NxtOwners /\ slot \in NxtSlotType /\ hw \in NxtHubType /\ open
        /\ c \in N!Command /\ Tail(queue) \in Seq(N!Command) /\ ran \in BOOLEAN /\ misled \in BOOLEAN
    BY NxtTypes, NxtQueueTail DEF NxtInv, NxtClosed, N!TypeOK
  <1>2. c.own \in BOOLEAN
    BY <1>1 DEF N!Command
  <1>3. c.own => /\ call.phase \in {"waiting", "failed"}
                 /\ \A i \in 1 .. Len(queue') : queue'[i].own = FALSE
                 /\ \A e \in slot'.pending : e.own = FALSE
    BY <1>1, NxtHeadOwns
  <1>4. ASSUME ~(c.own /\ call.phase = "waiting")
        PROVE  NxtOwners'
    <2>1. call' = call
      BY <1>1, <1>2, <1>4, NxtUnmoved
    <2> QED
      BY <1>1, <2>1, NxtOwnersFewer
  <1>5. IF c.own /\ call.phase = "waiting"
        THEN /\ \A i \in 1 .. Len(queue') : queue'[i].own = FALSE
             /\ slot' # None => \A e \in slot'.pending : e.own = FALSE
             /\ FALSE => call.now.op # "mode"
        ELSE NxtOwners'
    BY <1>3, <1>4, Zenon
  <1>6. /\ open' = open /\ link' = link /\ slot' \in NxtSlotType \cup {None}
        /\ queue' \in Seq(N!Command) /\ hw' \in NxtHubType /\ hw'.mode = hw.mode /\ raced' = raced
        /\ ran' \in BOOLEAN /\ misled' \in BOOLEAN /\ FALSE \in BOOLEAN
    BY <1>1
  <1>7. NxtStepFacts(c.own, FALSE)
    BY <1>1, <1>5, <1>6, Zenon DEF NxtStepFacts
  <1>8. NxtInv'
    BY <1>2, <1>6, <1>7, NxtSlotKeeps
  <1>9. NxtAnswers(c.own, FALSE)
    BY <1>3 DEF NxtAnswers
  <1> QED
    BY <1>2, <1>8, <1>9 DEF NxtSlotStep

LEMMA NxtExecuteKeeps ==
  ASSUME NxtBounded, NxtInv, N!Execute
  PROVE  NxtInv' /\ NxtSlotStep
  <1> DEFINE c == Head(queue)
  <1>1. /\ slot # None /\ queue # <<>> /\ queue' = Tail(queue)
        /\ UNCHANGED <<open, link, misled>> /\ c = queue[1]
    BY NxtQueueTail DEF N!Execute, NxtInv
  <1>2. \/ /\ N!FailTransport({c}) /\ UNCHANGED <<hw, mishaps, ran, raced>>
        \/ /\ ~N!Starts(c)
           /\ hw' = CASE c.op = "on"   -> [hw EXCEPT !.drives = @ \cup c.ports]
                      [] c.op = "off"  -> [hw EXCEPT !.drives = @ \ c.ports]
                      [] c.op = "mode" -> [hw EXCEPT !.mode = c.mode]
                      [] OTHER -> hw
           /\ raced' = IF c.op # "mode" THEN raced ELSE ~(c.own /\ call.phase = "waiting")
           /\ ran' = (ran \/ c.own)
           /\ N!Answer(c.own, TRUE) /\ UNCHANGED <<slot, mishaps>>
        \/ /\ N!Starts(c)
           /\ hw' = [hw EXCEPT !.drives = @ \cup c.ports]
           /\ slot' = [slot EXCEPT !.pending =
                         @ \cup {[op |-> c.op, left |-> c.ports, own |-> c.own, astray |-> FALSE]}]
           /\ UNCHANGED <<call, cache, mishaps, ran, raced>>
        \/ /\ N!Mishap /\ N!Answer(c.own, FALSE) /\ UNCHANGED <<slot, hw, ran, raced>>
    BY Zenon DEF N!Execute
  <1> HIDE DEF c
  <1>3. CASE N!FailTransport({c}) /\ UNCHANGED <<hw, mishaps, ran, raced>>
    BY <1>1, <1>3, NxtFailKeeps, Zenon
  <1>4. CASE /\ ~N!Starts(c)
             /\ hw' = CASE c.op = "on"   -> [hw EXCEPT !.drives = @ \cup c.ports]
                        [] c.op = "off"  -> [hw EXCEPT !.drives = @ \ c.ports]
                        [] c.op = "mode" -> [hw EXCEPT !.mode = c.mode]
                        [] OTHER -> hw
             /\ raced' = IF c.op # "mode" THEN raced ELSE ~(c.own /\ call.phase = "waiting")
             /\ ran' = (ran \/ c.own)
             /\ N!Answer(c.own, TRUE) /\ UNCHANGED <<slot, mishaps>>
    BY <1>1, <1>4, NxtExecuteNowKeeps, Zenon
  <1>5. CASE /\ N!Starts(c)
             /\ hw' = [hw EXCEPT !.drives = @ \cup c.ports]
             /\ slot' = [slot EXCEPT !.pending =
                           @ \cup {[op |-> c.op, left |-> c.ports, own |-> c.own, astray |-> FALSE]}]
             /\ UNCHANGED <<call, cache, mishaps, ran, raced>>
    BY <1>1, <1>5, NxtStartKeeps, Zenon
  <1>6. CASE N!Mishap /\ N!Answer(c.own, FALSE) /\ UNCHANGED <<slot, hw, ran, raced>>
    BY <1>1, <1>6, NxtRefuseKeeps, Zenon
  <1> QED
    BY <1>2, <1>3, <1>4, <1>5, <1>6, Zenon

(* One motor of a rotation is braked, or was to be, and others are not.    *)
LEMMA NxtRestKeeps ==
  ASSUME NxtBounded, NxtInv, slot # None, NEW e \in slot.pending,
         NEW rest \in N!Pending, rest.own = e.own, rest.op = e.op,
         slot' = [slot EXCEPT !.pending = (@ \ {e}) \cup {rest}],
         hw' \in NxtHubType, hw'.mode = hw.mode,
         link' \in BOOLEAN, (mishaps' = mishaps \/ N!Mishap),
         UNCHANGED <<call, cache, ran, misled, open, queue, raced>>
  PROVE  NxtInv' /\ NxtSlotStep
  <1>1. /\ N!TypeOK /\ NxtOwners /\ slot \in NxtSlotType /\ open
        /\ queue \in Seq(N!Command) /\ ran \in BOOLEAN /\ misled \in BOOLEAN
    BY NxtTypes DEF NxtInv, NxtClosed, N!TypeOK
  <1>2. /\ slot' \in NxtSlotType /\ slot'.pending = (slot.pending \ {e}) \cup {rest}
        /\ e.own \in BOOLEAN
    BY <1>1 DEF NxtSlotType, N!Pending
  <1>3. NxtOwners'
    <2>1. CASE e.own
      <3>1. /\ call.phase \in {"waiting", "failed"}
            /\ \A i \in 1 .. Len(queue) : queue[i].own = FALSE
            /\ \A f \in slot.pending \ {e} : f.own = FALSE
            /\ call.phase = "waiting" => e.op = call.now.op
        BY <1>1, <2>1, NxtRunOwns
      <3>2. \A f \in slot'.pending : f.own => f = rest
        BY <1>2, <3>1
      <3> QED
        BY <1>2, <2>1, <3>1, <3>2 DEF NxtOwnOnce, NxtOwnOpen, NxtOwnIsNow, NxtOwners
    <2>2. CASE ~e.own
      <3>1. \A f \in slot'.pending : f.own => f \in slot.pending
        BY <1>2, <2>2
      <3> QED
        BY <1>1, <3>1 DEF NxtOwnOnce, NxtOwnOpen, NxtOwnIsNow, NxtOwners
    <2> QED
      BY <2>1, <2>2
  <1>4. N!Answer(FALSE, TRUE) /\ FALSE \in BOOLEAN /\ TRUE \in BOOLEAN
    BY DEF N!Answer
  <1>5. /\ open' = open /\ slot' \in NxtSlotType \cup {None} /\ queue' \in Seq(N!Command)
        /\ raced' = raced /\ ran' \in BOOLEAN /\ misled' \in BOOLEAN
    BY <1>1, <1>2
  <1>6. NxtStepFacts(FALSE, TRUE)
    BY <1>1, <1>3, <1>5, Zenon DEF NxtStepFacts
  <1>7. NxtInv'
    BY <1>4, <1>6, NxtSlotKeeps
  <1>8. NxtAnswers(FALSE, TRUE)
    BY <1>4 DEF NxtAnswers
  <1> QED
    BY <1>4, <1>7, <1>8 DEF NxtSlotStep

(* A run is dropped: a timed one at its deadline, a rotation at its last   *)
(* motor or because the brick refused to report on it.                     *)
LEMMA NxtDropKeeps ==
  ASSUME NxtBounded, NxtInv, slot # None, NEW e \in slot.pending, NEW ok \in BOOLEAN,
         slot' = [slot EXCEPT !.pending = @ \ {e}], N!Answer(e.own, ok),
         hw' \in NxtHubType, hw'.mode = hw.mode,
         (mishaps' = mishaps \/ N!Mishap),
         ran' \in BOOLEAN, misled' \in BOOLEAN,
         IF e.own /\ ok THEN ran' \/ misled' ELSE ran' = ran /\ misled' = misled,
         link' \in BOOLEAN, UNCHANGED <<open, queue, raced>>
  PROVE  NxtInv' /\ NxtSlotStep
  <1>1. /\ N!TypeOK /\ NxtOwners /\ slot \in NxtSlotType /\ open /\ queue \in Seq(N!Command)
    BY NxtTypes DEF NxtInv, NxtClosed
  <1>2. e \in N!Pending /\ e.own \in BOOLEAN /\ e.op # "mode"
    BY <1>1 DEF NxtSlotType, N!Pending
  <1>3. slot' \in NxtSlotType /\ slot'.pending = slot.pending \ {e}
    BY <1>1 DEF NxtSlotType
  <1>4. e.own => /\ call.phase \in {"waiting", "failed"}
                 /\ \A i \in 1 .. Len(queue') : queue'[i].own = FALSE
                 /\ \A f \in slot'.pending : f.own = FALSE
                 /\ call.phase = "waiting" => call.now.op # "mode"
    BY <1>1, <1>2, <1>3, NxtRunOwns
  <1>5. ASSUME ~(e.own /\ call.phase = "waiting")
        PROVE  NxtOwners'
    <2>1. call' = call
      BY <1>1, <1>2, <1>5, NxtUnmoved
    <2> QED
      BY <1>1, <1>3, <2>1, NxtOwnersFewer
  <1>6. IF e.own /\ call.phase = "waiting"
        THEN /\ \A i \in 1 .. Len(queue') : queue'[i].own = FALSE
             /\ slot' # None => \A f \in slot'.pending : f.own = FALSE
             /\ ok => call.now.op # "mode"
        ELSE NxtOwners'
    BY <1>4, <1>5, Zenon
  <1>7. /\ open' = open /\ slot' \in NxtSlotType \cup {None}
        /\ queue' \in Seq(N!Command) /\ raced' = raced
    BY <1>1, <1>3
  <1>8. NxtStepFacts(e.own, ok)
    BY <1>1, <1>6, <1>7, Zenon DEF NxtStepFacts
  <1>9. NxtInv'
    BY <1>2, <1>8, NxtSlotKeeps
  <1>10. NxtAnswers(e.own, ok)
    BY <1>4, Zenon DEF NxtAnswers
  <1> QED
    BY <1>2, <1>9, <1>10 DEF NxtSlotStep

(* The brakes of some motors are sent; the rest of the brick is as it was. *)
LEMMA NxtBrakeTypes ==
  ASSUME N!TypeOK, NEW S, NEW stopped, N!Brake(S, stopped)
  PROVE  /\ hw' \in NxtHubType /\ hw'.mode = hw.mode /\ link' \in BOOLEAN
         /\ (mishaps' = mishaps \/ N!Mishap)
  <1>1. hw \in NxtHubType /\ link \in BOOLEAN
    BY NxtTypes DEF N!TypeOK
  <1>2. hw' = [hw EXCEPT !.drives = @ \ stopped]
    BY DEF N!Brake
  <1>3. hw' \in NxtHubType /\ hw'.mode = hw.mode
    BY <1>1, <1>2 DEF NxtHubType
  <1>4. link' \in BOOLEAN /\ (mishaps' = mishaps \/ N!Mishap)
    BY <1>1 DEF N!Brake
  <1> QED
    BY <1>3, <1>4

(* Its caller is told Ok, whether the brakes arrived or not.               *)
LEMMA NxtFinishKeeps ==
  ASSUME NxtBounded, NxtInv, slot # None, NEW e \in slot.pending, NEW astray \in BOOLEAN,
         NEW S, NEW stopped, N!Brake(S, stopped), N!Finish(e, astray),
         UNCHANGED <<open, queue, raced>>
  PROVE  NxtInv' /\ NxtSlotStep
  <1>1. N!TypeOK /\ slot \in NxtSlotType /\ ran \in BOOLEAN /\ misled \in BOOLEAN
    BY NxtTypes DEF NxtInv, N!TypeOK
  <1>2. e.own \in BOOLEAN
    BY <1>1 DEF NxtSlotType, N!Pending
  <1>3. /\ slot' = [slot EXCEPT !.pending = @ \ {e}] /\ N!Answer(e.own, TRUE)
        /\ ran' = (ran \/ (e.own /\ ~astray)) /\ misled' = (misled \/ (e.own /\ astray))
    BY DEF N!Finish
  <1>4. /\ hw' \in NxtHubType /\ hw'.mode = hw.mode /\ link' \in BOOLEAN
        /\ (mishaps' = mishaps \/ N!Mishap)
    BY <1>1, NxtBrakeTypes
  <1>5. ran' \in BOOLEAN /\ misled' \in BOOLEAN /\ TRUE \in BOOLEAN
    BY <1>1, <1>2, <1>3
  <1>6. IF e.own /\ TRUE THEN ran' \/ misled' ELSE ran' = ran /\ misled' = misled
    BY <1>1, <1>2, <1>3
  <1> QED
    BY <1>3, <1>4, <1>5, <1>6, NxtDropKeeps, Zenon

LEMMA NxtPollStepKeeps ==
  ASSUME NxtBounded, NxtInv, N!PollStep
  PROVE  NxtInv' /\ NxtSlotStep
  <1>1. slot # None /\ UNCHANGED <<open, queue, raced>>
    BY DEF N!PollStep
  <1>2. /\ N!TypeOK /\ slot \in NxtSlotType /\ hw \in NxtHubType
        /\ link \in BOOLEAN /\ ran \in BOOLEAN /\ misled \in BOOLEAN
    BY <1>1, NxtTypes DEF NxtInv, N!TypeOK
  <1>3. PICK e \in slot.pending :
          /\ e.op = "step"
          /\ \/ N!FailTransport({e}) /\ UNCHANGED <<link, hw, mishaps, ran, misled>>
             \/ \E p \in e.left : \E stopped \in SUBSET {p} :
                  LET astray == e.astray \/ stopped = {}
                      rest   == [e EXCEPT !.left = @ \ {p}, !.astray = astray]
                  IN /\ N!Brake({p}, stopped)
                     /\ \/ e.left = {p} /\ N!Finish(e, astray)
                        \/ /\ slot' = [slot EXCEPT !.pending = (@ \ {e}) \cup {rest}]
                           /\ UNCHANGED <<call, cache, ran, misled>>
             \/ /\ N!Mishap
                /\ slot' = [slot EXCEPT !.pending = @ \ {e}] /\ N!Answer(e.own, FALSE)
                /\ UNCHANGED <<link, hw, ran, misled>>
    BY Zenon DEF N!PollStep
  <1>4. e \in N!Pending
    BY <1>2 DEF NxtSlotType
  <1>5. CASE N!FailTransport({e}) /\ UNCHANGED <<link, hw, mishaps, ran, misled>>
    BY <1>1, <1>5, NxtFailKeeps
  <1>6. ASSUME NEW p \in e.left, NEW stopped \in SUBSET {p}, N!Brake({p}, stopped),
               NEW astray, astray = (e.astray \/ stopped = {}),
               \/ N!Finish(e, astray)
               \/ /\ slot' = [slot EXCEPT !.pending =
                                (@ \ {e}) \cup {[e EXCEPT !.left = @ \ {p}, !.astray = astray]}]
                  /\ UNCHANGED <<call, cache, ran, misled>>
        PROVE  NxtInv' /\ NxtSlotStep
    <2>1. astray \in BOOLEAN
      BY <1>4, <1>6 DEF N!Pending
    <2>2. CASE N!Finish(e, astray)
      BY <1>1, <1>6, <2>1, <2>2, NxtFinishKeeps
    <2>3. CASE /\ slot' = [slot EXCEPT !.pending =
                              (@ \ {e}) \cup {[e EXCEPT !.left = @ \ {p}, !.astray = astray]}]
               /\ UNCHANGED <<call, cache, ran, misled>>
      <3> DEFINE rest == [e EXCEPT !.left = @ \ {p}, !.astray = astray]
      <3>1. rest \in N!Pending /\ rest.own = e.own /\ rest.op = e.op
        BY <1>4, <2>1 DEF N!Pending
      <3>2. slot' = [slot EXCEPT !.pending = (@ \ {e}) \cup {rest}]
        BY <2>3
      <3>3. /\ hw' \in NxtHubType /\ hw'.mode = hw.mode /\ link' \in BOOLEAN
            /\ (mishaps' = mishaps \/ N!Mishap)
        BY <1>2, <1>6, NxtBrakeTypes
      <3>4. UNCHANGED <<call, cache, ran, misled, open, queue, raced>>
        BY <1>1, <2>3
      <3> HIDE DEF rest
      <3> QED
        BY <1>1, <3>1, <3>2, <3>3, <3>4, NxtRestKeeps
    <2> QED
      BY <1>6, <2>2, <2>3
  <1>7. CASE /\ N!Mishap
             /\ slot' = [slot EXCEPT !.pending = @ \ {e}] /\ N!Answer(e.own, FALSE)
             /\ UNCHANGED <<link, hw, ran, misled>>
    <2>1. /\ hw' \in NxtHubType /\ hw'.mode = hw.mode /\ ran' \in BOOLEAN /\ misled' \in BOOLEAN
          /\ FALSE \in BOOLEAN /\ ran' = ran /\ misled' = misled /\ link' \in BOOLEAN
          /\ (mishaps' = mishaps \/ N!Mishap)
          /\ slot' = [slot EXCEPT !.pending = @ \ {e}] /\ N!Answer(e.own, FALSE)
      BY <1>2, <1>7
    <2>2. IF e.own /\ FALSE THEN ran' \/ misled' ELSE ran' = ran /\ misled' = misled
      BY <2>1
    <2> QED
      BY <1>1, <2>1, <2>2, NxtDropKeeps, Zenon
  <1>8. ASSUME \E p \in e.left : \E stopped \in SUBSET {p} :
                  LET astray == e.astray \/ stopped = {}
                      rest   == [e EXCEPT !.left = @ \ {p}, !.astray = astray]
                  IN /\ N!Brake({p}, stopped)
                     /\ \/ e.left = {p} /\ N!Finish(e, astray)
                        \/ /\ slot' = [slot EXCEPT !.pending = (@ \ {e}) \cup {rest}]
                           /\ UNCHANGED <<call, cache, ran, misled>>
        PROVE  NxtInv' /\ NxtSlotStep
    BY <1>6, <1>8
  <1> QED
    BY <1>3, <1>5, <1>7, <1>8

LEMMA NxtEndTimeKeeps ==
  ASSUME NxtBounded, NxtInv, N!EndTime
  PROVE  NxtInv' /\ NxtSlotStep
  <1>1. slot # None /\ UNCHANGED <<open, queue, raced>>
    BY DEF N!EndTime
  <1>2. PICK e \in slot.pending : \E stopped \in SUBSET e.left :
          N!Brake(e.left, stopped) /\ N!Finish(e, stopped # e.left)
    BY DEF N!EndTime
  <1>3. PICK stopped \in SUBSET e.left :
          N!Brake(e.left, stopped) /\ N!Finish(e, stopped # e.left)
    BY <1>2
  <1> QED
    BY <1>1, <1>3, NxtFinishKeeps

(* The dead slot goes, and everybody who waited for it is told.            *)
LEMMA NxtReapKeeps ==
  ASSUME NxtBounded, NxtInv, N!Reap
  PROVE  NxtInv' /\ NxtSlotStep
  <1> DEFINE own == (\E e \in slot.pending : e.own) \/ (\E i \in DOMAIN queue : queue[i].own)
  <1>1. /\ slot # None /\ slot' = None /\ queue' = <<>>
        /\ UNCHANGED <<open, link, hw, mishaps, ran, misled, raced>>
        /\ N!Answer(own, FALSE) /\ own \in BOOLEAN
    BY DEF N!Reap
  <1>2. /\ N!TypeOK /\ NxtOwners /\ hw \in NxtHubType /\ open /\ DOMAIN queue = 1 .. Len(queue)
        /\ ran \in BOOLEAN /\ misled \in BOOLEAN
    BY <1>1, NxtTypes DEF NxtInv, NxtClosed, N!TypeOK
  <1>3. own => call.phase \in {"waiting", "failed"}
    BY <1>1, <1>2 DEF NxtOwners, NxtOwnOpen
  <1> HIDE DEF own
  <1>4. <<>> \in Seq(N!Command) /\ \A i \in 1 .. Len(queue') : queue'[i].own = FALSE
    BY <1>1, EmptySeq
  <1>5. NxtOwners'
    BY <1>1, <1>4, NxtOwnersGone
  <1>6. IF own /\ call.phase = "waiting"
        THEN /\ \A i \in 1 .. Len(queue') : queue'[i].own = FALSE
             /\ slot' # None => \A e \in slot'.pending : e.own = FALSE
             /\ FALSE => call.now.op # "mode"
        ELSE NxtOwners'
    BY <1>1, <1>4, <1>5, Zenon
  <1>7. /\ open' = open /\ link' = link /\ slot' \in NxtSlotType \cup {None}
        /\ queue' \in Seq(N!Command) /\ hw' \in NxtHubType /\ hw'.mode = hw.mode /\ raced' = raced
        /\ ran' \in BOOLEAN /\ misled' \in BOOLEAN /\ mishaps' = mishaps /\ FALSE \in BOOLEAN
    BY <1>1, <1>2, <1>4
  <1>8. NxtStepFacts(own, FALSE)
    BY <1>2, <1>6, <1>7, Zenon DEF NxtStepFacts
  <1>9. NxtInv'
    BY <1>1, <1>7, <1>8, NxtSlotKeeps
  <1>10. NxtAnswers(own, FALSE)
    BY <1>1, <1>3, Zenon DEF NxtAnswers
  <1> QED
    BY <1>1, <1>9, <1>10 DEF NxtSlotStep

(* The link goes or comes back, or nothing happens.                        *)
LEMMA NxtLinkKeeps ==
  ASSUME NxtBounded, NxtInv, N!LinkDrops \/ N!LinkReturns \/ UNCHANGED N!vars
  PROVE  NxtInv'
  <1>1. /\ UNCHANGED <<call, open, slot, queue, cache, hw, ran, misled, raced>>
        /\ link' \in BOOLEAN /\ mishaps' \in 0 .. MaxMishaps
    <2>1. CASE N!LinkDrops
      BY <2>1, NxtMishapType DEF N!LinkDrops, NxtInv
    <2>2. CASE N!LinkReturns \/ UNCHANGED N!vars
      BY <2>2 DEF N!LinkReturns, N!vars, NxtInv, N!TypeOK
    <2> QED
      BY <2>1, <2>2
  <1> QED
    BY <1>1 DEF NxtInv, N!TypeOK, NxtUnissued, NxtOwners, NxtOwnOnce, NxtOwnOpen,
       NxtOwnIsNow, NxtClosed, NxtSynced
----------------------------------------------------------------------------
(* A step of the slot is one of the three the specification of a call      *)
(* allows; every other step of the adapter is the caller's.                *)

LEMMA NxtStarting ==
  ASSUME NxtBounded, N!Init
  PROVE  NxtInv
  <1>1. /\ call = N!NoCall /\ open = FALSE /\ link = TRUE /\ slot = None /\ queue = <<>>
        /\ cache = None /\ hw = [drives |-> {}, mode |-> None]
        /\ mishaps = 0 /\ ran = FALSE /\ misled = FALSE /\ raced = FALSE
    BY DEF N!Init
  <1>2. <<>> \in Seq(N!Command) /\ <<>> \in Seq(NxtFresh) /\ Len(<<>>) = 0
    BY EmptySeq
  <1>3. N!NoCall \in NxtCallType /\ N!NoCall.todo = <<>> /\ ~N!NoCall.closing
    BY <1>2 DEF N!NoCall, NxtCallType, NxtPhases
  <1>4. hw \in NxtHubType /\ mishaps \in 0 .. MaxMishaps
    BY <1>1 DEF NxtHubType, NxtBounded
  <1>5. N!TypeOK
    BY <1>1, <1>2, <1>3, <1>4 DEF N!TypeOK, NxtCallType, NxtPhases, NxtHubType
  <1>6. NxtUnissued /\ NxtOwners /\ NxtClosed /\ NxtSynced
    BY <1>1, <1>2, <1>3
    DEF NxtUnissued, NxtOwners, NxtOwnOnce, NxtOwnOpen, NxtOwnIsNow, NxtClosed, NxtSynced
  <1> QED
    BY <1>5, <1>6 DEF NxtInv

LEMMA NxtTickKeeps ==
  ASSUME NxtBounded, NxtInv, N!Tick
  PROVE  NxtInv' /\ NxtSlotStep
  BY NxtExecuteKeeps, NxtPollStepKeeps, NxtEndTimeKeeps, NxtReapKeeps DEF N!Tick

LEMMA NxtStepKeeps ==
  ASSUME NxtBounded, NxtInv, [N!Next]_N!vars
  PROVE  NxtInv'
  BY NxtConnectKeeps, NxtCloseKeeps, NxtDisconnectKeeps, NxtBeginKeeps, NxtIssueKeeps,
     NxtTimeOutKeeps,
     NxtTickKeeps, NxtLinkKeeps DEF N!Next

LEMMA NxtInvariant ==
  ASSUME NxtBounded
  PROVE  N!Spec => []NxtInv
  <1>1. N!Init => NxtInv
    BY NxtStarting
  <1>2. NxtInv /\ [N!Next]_N!vars => NxtInv'
    BY NxtStepKeeps
  <1> QED
    BY <1>1, <1>2, PTL DEF N!Spec

(* The call, the slot, its queue and the runs it ends keep their types:    *)
(* nxt_adapter.rs:135-212.                                                 *)
THEOREM NxtTypeCorrect ==
  ASSUME NxtBounded
  PROVE  N!Spec => []N!TypeOK
  <1>1. NxtInv => N!TypeOK
    BY DEF NxtInv
  <1> QED
    BY <1>1, NxtInvariant, PTL

(* The brick's sensor is in the mode sensor_modes remembers, unless a mode *)
(* whose caller had given up was set late: whatever is late, answered      *)
(* twice or lost in between (nxt_adapter.rs:767-843).                      *)
THEOREM NxtCacheIsHub ==
  ASSUME NxtBounded
  PROVE  N!Spec => []N!CacheFollowsHub
  <1>1. NxtInv => N!CacheFollowsHub
    BY DEF NxtInv, NxtSynced, N!CacheFollowsHub
  <1> QED
    BY <1>1, NxtInvariant, PTL

(* Every run of the adapter and its brick is one HubCall allows: the       *)
(* caller is told Ok only of a command the brick carried out, at its last  *)
(* motor when it is a rotation, or of a rotation or a timed run one of     *)
(* whose brakes was sent and did not reach the brick; and fail_transport,  *)
(* which answers many at once, answers the caller no second time           *)
(* (nxt_adapter.rs:215-242, 268-471).                                      *)
THEOREM NxtImplements ==
  ASSUME NxtBounded
  PROVE  N!Spec => HC!Spec
  <1>1. N!Init => HC!Init
    BY DEF N!Init, N!NoCall, HC!Init
  <1>2. ASSUME NxtInv, [N!Next]_N!vars
        PROVE  [HC!Next]_HC!vars
    <2>1. /\ call \in NxtCallType /\ ran \in BOOLEAN /\ misled \in BOOLEAN
          /\ call.phase \in NxtPhases
      BY <1>2, NxtTypes DEF NxtInv, N!TypeOK, NxtCallType
    <2>2. CASE N!Connect \/ N!Close
      <3>1. call'.phase = "idle" /\ ran' = FALSE /\ misled' = FALSE /\ call.phase # "waiting"
        BY <1>2, <2>2 DEF N!Connect, N!Close, N!NoCall, N!Over, NxtInv, NxtClosed
      <3>2. HC!Forget
        BY <3>1 DEF HC!Forget
      <3> QED
        BY <3>2 DEF HC!Next
    <2>3. CASE N!Issue
      <3>1. call.phase # "waiting"
        BY <2>3 DEF N!Issue
      <3>2. \/ call'.phase = "failed" /\ ran' = FALSE /\ misled' = FALSE
            \/ call'.phase = "waiting" /\ ran' = FALSE /\ misled' = FALSE
            \/ call'.phase = call.phase /\ ran' = ran /\ misled' = misled
        BY <2>1, <2>3 DEF N!Issue, NxtCallType
      <3>3. ASSUME call'.phase = "failed", ran' = FALSE, misled' = FALSE
            PROVE  HC!Refuse
        BY <3>1, <3>3 DEF HC!Refuse
      <3>4. ASSUME call'.phase = "waiting", ran' = FALSE, misled' = FALSE
            PROVE  HC!Issue
        BY <3>1, <3>4 DEF HC!Issue
      <3>5. ASSUME call'.phase = call.phase, ran' = ran, misled' = misled
            PROVE  UNCHANGED HC!vars
        BY <3>5 DEF HC!vars
      <3> QED
        BY <3>2, <3>3, <3>4, <3>5 DEF HC!Next
    <2>4. CASE N!TimeOut
      <3>1. call.phase = "waiting" /\ call'.phase = "failed" /\ ran' = ran /\ misled' = misled
        BY <2>1, <2>4 DEF N!TimeOut, NxtCallType
      <3>2. HC!Fail
        BY <3>1 DEF HC!Fail
      <3> QED
        BY <3>2 DEF HC!Next
    <2>5. CASE N!Tick
      <3>1. PICK own \in BOOLEAN, ok \in BOOLEAN : NxtAnswers(own, ok)
        BY <1>2, <2>5, NxtTickKeeps DEF NxtSlotStep
      <3>2. CASE own /\ call.phase = "waiting"
        <4>1. call'.phase = IF ok THEN "ok" ELSE "failed"
          BY <1>2, <3>1, <3>2, NxtAnswerIs DEF NxtAnswers, NxtInv
        <4>2. ASSUME ok
              PROVE  HC!Succeed
          <5>1. call'.phase = "ok" /\ (ran' \/ misled')
            BY <3>1, <3>2, <4>1, <4>2 DEF NxtAnswers
          <5> QED
            BY <3>2, <5>1 DEF HC!Succeed
        <4>3. ASSUME ~ok
              PROVE  HC!Fail
          <5>1. call'.phase = "failed" /\ ran' = ran /\ misled' = misled
            BY <3>1, <3>2, <4>1, <4>3 DEF NxtAnswers
          <5> QED
            BY <3>2, <5>1 DEF HC!Fail
        <4> QED
          BY <4>2, <4>3 DEF HC!Next
      <3>3. CASE ~(own /\ call.phase = "waiting")
        <4>1. call' = call
          BY <1>2, <3>1, <3>3, NxtUnmoved DEF NxtAnswers, NxtInv
        <4>2. CASE own /\ ok
          <5>1. call.phase = "failed" /\ (ran' \/ misled')
            BY <3>1, <3>3, <4>2 DEF NxtAnswers
          <5>2. ASSUME ~(ran \/ misled)
                PROVE  HC!Execute
            BY <4>1, <5>1, <5>2 DEF HC!Execute
          <5>3. ASSUME ran \/ misled
                PROVE  UNCHANGED HC!vars
            BY <4>1, <5>1, <5>3 DEF HC!vars
          <5> QED
            BY <5>2, <5>3 DEF HC!Next
        <4>3. CASE ~(own /\ ok)
          <5>1. ran' = ran /\ misled' = misled
            BY <3>1, <4>3 DEF NxtAnswers
          <5> QED
            BY <4>1, <5>1 DEF HC!vars
        <4> QED
          BY <4>2, <4>3
      <3> QED
        BY <3>2, <3>3
    <2>6. CASE N!Begin \/ N!Disconnect \/ N!LinkDrops \/ N!LinkReturns \/ UNCHANGED N!vars
      <3>1. call'.phase = call.phase /\ ran' = ran /\ misled' = misled
        BY <2>1, <2>6 DEF N!Begin, N!Disconnect, N!LinkDrops, N!LinkReturns, N!vars, NxtCallType
      <3> QED
        BY <3>1 DEF HC!vars
    <2> QED
      BY <1>2, <2>2, <2>3, <2>4, <2>5, <2>6 DEF N!Next
  <1> QED
    BY <1>1, <1>2, NxtInvariant, PTL DEF N!Spec, HC!Spec

----------------------------------------------------------------------------
(* The EV3.                                                                *)
(*                                                                         *)
(* The requests that the slot gave up on and the one it waits in bear      *)
(* counters that follow one another, and there are fewer of them than      *)
(* there are counters.  So a reply with the counter of the request is the  *)
(* last one there is, and what the brick said in it is still true.         *)

(* Every brick has so many motors; a run has a bound on its mishaps, and   *)
(* fewer requests are given up on than there are counters.  None is no     *)
(* request.                                                                *)
Ev3Bounded ==
  /\ IsFiniteSet(Ports) /\ MaxMishaps \in Nat /\ MaxRid \in Nat /\ MaxMishaps < MaxRid
  /\ None \notin E!Request

(* What a call is still to issue: nobody's; the type is asked for first,   *)
(* and only while it is not known.                                         *)
Ev3Todo ==
  \A i \in 1 .. Len(call.todo) :
    /\ ~call.todo[i].own
    /\ call.todo[i].op = "step" => call.todo[i].ports # {}
    /\ call.todo[i].op = "type" => i = 1 /\ cache = None /\ call.phase # "waiting"

(* No motor turns for the command issued last.                             *)
Ev3Still == \A p \in Ports : hw.job[p] # "own"

(* The command issued last, while it is queued, is the only one of its     *)
(* caller's, and while it is waited for the last; nothing of it is done.   *)
Ev3Queued ==
  \A i \in 1 .. Len(queue) :
    /\ queue[i].op = "step" => queue[i].ports # {}
    /\ queue[i].own =>
         /\ call.phase # "idle" /\ (call.phase = "waiting" => i = Len(queue))
         /\ \A j \in 1 .. Len(queue) : queue[j].own => j = i
         /\ Ev3Still
         /\ queue[i].op = "type" => cache = None

(* A request of it that the brick has not answered.                        *)
Ev3Unanswered ==
  \A i \in 1 .. Len(down) : down[i].own /\ down[i].op # "busy" =>
    call.phase # "idle" /\ (down[i].op = "type" => cache = None)

(* The caller's run of these ports: over, or some of them still turn, and  *)
(* no motor turns for it that is not one of them.                          *)
Ev3Ongoing(S) ==
  ran \/ ((\E p \in S : hw.job[p] = "own") /\ \A p \in Ports : hw.job[p] = "own" => p \in S)

(* While a caller waits for what the slot is at, nothing else is queued.   *)
Ev3AtWork ==
  open /\ call.phase = "waiting" =>
    /\ \A e \in slot.runs : e.own => queue = <<>> /\ Ev3Ongoing(e.ports)
    /\ slot.asking # None /\ slot.asking.own =>
         queue = <<>> /\ (slot.asking.op = "busy" => Ev3Ongoing(slot.asking.ports))

(* The requests the slot gave up on and the one it waits in, answered or   *)
(* not, oldest first, bear the counters up to the slot's own.              *)
Ev3Back(r, k) == IF r - k >= 1 THEN r - k ELSE r - k + MaxRid
Ev3Numbered(u, d, r) ==
  \A i \in 1 .. Len(u) + Len(d) :
    (IF i <= Len(u) THEN u[i].rid ELSE d[i - Len(u)].rid) = Ev3Back(r, (Len(u) + Len(d)) - i)
Ev3Counters ==
  open =>
    /\ Ev3Numbered(up, down, slot.rid)
    /\ Len(up) + Len(down) <= mishaps + (IF slot.asking = None THEN 0 ELSE 1)
    /\ slot.asking # None => slot.asking.rid = slot.rid

(* The last of them is the one it waits in; an answer to that one is true. *)
Ev3True(a) ==
  slot.asking.own /\ call.phase = "waiting" =>
    /\ ran \/ (slot.asking.op = "busy" /\ a = TRUE)
    /\ slot.asking.op = "type" => a \in Modes \cup {None} /\ (stale \/ a = hw.sensor)
Ev3Last ==
  open /\ slot.asking # None =>
    IF down # <<>> THEN down[Len(down)] = slot.asking
    ELSE up # <<>> => Ev3True(up[Len(up)].answer)

Ev3Phases == {"idle", "waiting", "ok", "failed"}
Ev3CallType == [phase : Ev3Phases, todo : Seq(E!Command), now : E!Command \cup {None}, closing : BOOLEAN]
Ev3Run == [ports : SUBSET Ports, own : BOOLEAN]
Ev3SlotType == [runs : SUBSET Ev3Run, asking : E!Request \cup {None}, rid : 0 .. MaxRid]
Ev3HubType == [job : [Ports -> E!Jobs], sensor : Modes \cup {None}]
Ev3Reply == [rid : 1 .. MaxRid, answer : E!Answers]

Ev3Closed ==
  /\ ~open => slot = None /\ cache = None /\ call.phase = "idle" /\ call.todo = <<>>
  /\ open => slot \in Ev3SlotType
  /\ ~open \/ ~link => up = <<>> /\ down = <<>>
  /\ call.closing => call.phase # "waiting" /\ call.todo = <<>>
  /\ call.phase = "idle" => Ev3Still
  /\ call.phase = "ok" => ran

Ev3Synced == cache # None /\ ~stale => cache = hw.sensor

Ev3Owners == Ev3Queued /\ Ev3Unanswered /\ Ev3AtWork
Ev3Inv == E!TypeOK /\ Ev3Todo /\ Ev3Owners /\ Ev3Counters /\ Ev3Last /\ Ev3Closed /\ Ev3Synced

----------------------------------------------------------------------------
LEMMA Ev3Types ==
  ASSUME E!TypeOK
  PROVE  /\ call \in Ev3CallType /\ queue \in Seq(E!Command) /\ hw \in Ev3HubType
         /\ open \in BOOLEAN /\ link \in BOOLEAN /\ ran \in BOOLEAN /\ stale \in BOOLEAN
         /\ slot # None => slot \in Ev3SlotType
         /\ cache \in Modes \cup {None} /\ mishaps \in 0 .. MaxMishaps
         /\ down \in Seq(E!Request) /\ up \in Seq(Ev3Reply)
         /\ call.todo \in Seq(E!Command)
  BY DEF E!TypeOK, Ev3CallType, Ev3SlotType, Ev3HubType, Ev3Phases, Ev3Run, Ev3Reply

(* The pieces of a type, put together again.                               *)
LEMMA Ev3TypesTogether ==
  ASSUME call' \in Ev3CallType, queue' \in Seq(E!Command), hw' \in Ev3HubType,
         open' \in BOOLEAN, link' \in BOOLEAN, ran' \in BOOLEAN, stale' \in BOOLEAN,
         slot' \in Ev3SlotType \/ slot' = None,
         cache' \in Modes \cup {None}, mishaps' \in 0 .. MaxMishaps,
         down' \in Seq(E!Request), up' \in Seq(Ev3Reply)
  PROVE  E!TypeOK'
  BY DEF E!TypeOK, Ev3CallType, Ev3SlotType, Ev3HubType, Ev3Phases, Ev3Run, Ev3Reply

----------------------------------------------------------------------------
(* Sequences.                                                              *)

(* What is left of a sequence without its head.                            *)
LEMMA TailIs ==
  ASSUME NEW S, NEW s \in Seq(S), s # <<>>
  PROVE  /\ Len(s) \in Nat \ {0} /\ Head(s) = s[1] /\ s[1] \in S
         /\ Tail(s) \in Seq(S) /\ Len(Tail(s)) = Len(s) - 1
         /\ \A i \in 1 .. Len(s) - 1 : i + 1 \in 1 .. Len(s) /\ Tail(s)[i] = s[i + 1]
  <1>1. /\ Len(s) \in Nat \ {0} /\ Tail(s) \in Seq(S) /\ Len(Tail(s)) = Len(s) - 1
        /\ \A i \in 1 .. Len(Tail(s)) : Tail(s)[i] = s[i + 1]
    BY HeadTailProperties, EmptySeq
  <1>2. Head(s) = s[1] /\ s[1] \in S
    BY <1>1, ElementOfSeq
  <1>3. \A i \in 1 .. Len(s) - 1 : i + 1 \in 1 .. Len(s)
    BY <1>1
  <1> QED
    BY <1>1, <1>2, <1>3

(* And of one with something more at the end.                              *)
LEMMA AppendIs ==
  ASSUME NEW S, NEW s \in Seq(S), NEW x \in S
  PROVE  /\ Append(s, x) \in Seq(S) /\ Len(Append(s, x)) = Len(s) + 1 /\ Len(s) \in Nat
         /\ \A i \in 1 .. Len(s) : Append(s, x)[i] = s[i]
         /\ Append(s, x)[Len(s) + 1] = x /\ Append(s, x) # <<>>
  <1>1. /\ Append(s, x) \in Seq(S) /\ Len(Append(s, x)) = Len(s) + 1
        /\ \A i \in 1 .. Len(s) : Append(s, x)[i] = s[i]
        /\ Append(s, x)[Len(s) + 1] = x
    BY AppendProperties
  <1>2. Len(s) \in Nat
    BY LenProperties
  <1> QED
    BY <1>1, <1>2, EmptySeq

----------------------------------------------------------------------------
(* Counters.                                                               *)

(* The counter that comes next.                                            *)
Ev3After(r, next) ==
  /\ next = Ev3Back(next, 0)
  /\ \A k \in 0 .. MaxRid - 1 : Ev3Back(next, k + 1) = Ev3Back(r, k)

LEMMA Ev3NextCounter ==
  ASSUME Ev3Bounded, NEW r \in 0 .. MaxRid
  PROVE  (r % MaxRid) + 1 \in 1 .. MaxRid /\ Ev3After(r, (r % MaxRid) + 1)
  <1> DEFINE next == (r % MaxRid) + 1
  <1>1. MaxRid \in Nat /\ MaxRid > 0
    BY DEF Ev3Bounded
  <1>2. next = IF r = MaxRid THEN 1 ELSE r + 1
    BY <1>1
  <1> HIDE DEF next
  <1>3. next \in 1 .. MaxRid
    BY <1>1, <1>2
  <1>4. Ev3After(r, next)
    BY <1>1, <1>2 DEF Ev3Back, Ev3After
  <1> QED
    BY <1>3, <1>4 DEF next

LEMMA Ev3NumbersSent ==
  ASSUME Ev3Bounded, NEW u \in Seq(Ev3Reply), NEW d \in Seq(E!Request), NEW r \in 0 .. MaxRid,
         NEW q \in E!Request, Ev3After(r, q.rid),
         Ev3Numbered(u, d, r), Len(u) + Len(d) <= MaxMishaps
  PROVE  Ev3Numbered(u, Append(d, q), q.rid)
  <1> DEFINE e == Append(d, q)
             m == Len(u)
             n == Len(d)
  <1>1. /\ m \in Nat /\ n \in Nat /\ Len(e) = n + 1
        /\ \A i \in 1 .. n : e[i] = d[i]
        /\ e[n + 1] = q
    BY AppendIs, LenProperties
  <1>2. MaxRid \in Nat /\ MaxRid > 0 /\ m + n < MaxRid
    BY <1>1 DEF Ev3Bounded
  <1>3. /\ q.rid = Ev3Back(q.rid, 0)
        /\ \A k \in 0 .. MaxRid - 1 : Ev3Back(q.rid, k + 1) = Ev3Back(r, k)
    BY DEF Ev3After
  <1>4. ASSUME NEW i \in 1 .. m + n
        PROVE  (IF i <= m THEN u[i].rid ELSE e[i - m].rid) = Ev3Back(q.rid, (m + (n + 1)) - i)
    <2>1. (m + n) - i \in 0 .. MaxRid - 1 /\ (m + (n + 1)) - i = ((m + n) - i) + 1
      BY <1>1, <1>2
    <2>2. (IF i <= m THEN u[i].rid ELSE d[i - m].rid) = Ev3Back(r, (m + n) - i)
      BY DEF Ev3Numbered
    <2>3. ~(i <= m) => i - m \in 1 .. n
      BY <1>1
    <2> HIDE DEF e, m, n
    <2> QED
      BY <1>1, <1>3, <2>1, <2>2, <2>3
  <1>5. LET i == m + (n + 1)
        IN  (IF i <= m THEN u[i].rid ELSE e[i - m].rid) = Ev3Back(q.rid, (m + (n + 1)) - i)
    <2>1. ~(m + (n + 1) <= m) /\ (m + (n + 1)) - m = n + 1 /\ (m + (n + 1)) - (m + (n + 1)) = 0
      BY <1>1
    <2> QED
      BY <1>1, <1>3, <2>1
  <1> HIDE DEF e, m, n
  <1>6. \A i \in 1 .. m + (n + 1) : i \in 1 .. m + n \/ i = m + (n + 1)
    BY <1>1
  <1>7. \A i \in 1 .. m + (n + 1) :
           (IF i <= m THEN u[i].rid ELSE e[i - m].rid) = Ev3Back(q.rid, (m + (n + 1)) - i)
    BY <1>4, <1>5, <1>6
  <1> QED
    BY <1>1, <1>7 DEF Ev3Numbered, e, m, n

LEMMA Ev3NumbersAnswered ==
  ASSUME NEW u \in Seq(Ev3Reply), NEW d \in Seq(E!Request), NEW r \in 0 .. MaxRid, d # <<>>,
         NEW f \in Ev3Reply, f.rid = Head(d).rid, Ev3Numbered(u, d, r)
  PROVE  /\ Ev3Numbered(Append(u, f), Tail(d), r)
         /\ Len(Append(u, f)) + Len(Tail(d)) = Len(u) + Len(d)
  <1> DEFINE v == Append(u, f)
             e == Tail(d)
             m == Len(u)
             n == Len(d)
  <1>1. /\ m \in Nat /\ Len(v) = m + 1
        /\ \A i \in 1 .. m : v[i] = u[i]
        /\ v[m + 1] = f
    BY AppendIs
  <1>2. /\ n \in Nat \ {0} /\ Head(d) = d[1] /\ Len(e) = n - 1
        /\ \A i \in 1 .. n - 1 : e[i] = d[i + 1]
    BY TailIs
  <1>3. \A i \in 1 .. m + n : (IF i <= m THEN u[i].rid ELSE d[i - m].rid) = Ev3Back(r, (m + n) - i)
    BY DEF Ev3Numbered
  <1>4. f.rid = d[1].rid
    BY <1>2
  <1> HIDE DEF v, e, m, n
  <1>5. (m + 1) + (n - 1) = m + n
    BY <1>1, <1>2
  <1>6. ASSUME NEW i \in 1 .. m + n
        PROVE  (IF i <= m + 1 THEN v[i].rid ELSE e[i - (m + 1)].rid) = Ev3Back(r, (m + n) - i)
    <2>1. CASE i <= m
      BY <1>1, <1>3, <2>1
    <2>2. CASE i = m + 1
      <3>1. ~(i <= m) /\ i - m = 1 /\ i <= m + 1
        BY <1>1, <2>2
      <3> QED
        BY <1>1, <1>3, <1>4, <2>2, <3>1
    <2>3. CASE i > m + 1
      <3>1. /\ ~(i <= m) /\ ~(i <= m + 1) /\ i - (m + 1) \in 1 .. n - 1
            /\ (i - (m + 1)) + 1 = i - m
        BY <1>1, <1>2, <2>3
      <3>2. e[i - (m + 1)] = d[i - m]
        BY <1>2, <3>1
      <3> QED
        BY <1>3, <3>1, <3>2
    <2> QED
      BY <1>1, <2>1, <2>2, <2>3
  <1> QED
    BY <1>1, <1>2, <1>5, <1>6 DEF Ev3Numbered, v, e, m, n

LEMMA Ev3NumbersTaken ==
  ASSUME NEW u \in Seq(Ev3Reply), NEW d \in Seq(E!Request), NEW r \in 0 .. MaxRid, u # <<>>,
         Ev3Numbered(u, d, r)
  PROVE  /\ Ev3Numbered(Tail(u), d, r)
         /\ Len(Tail(u)) + Len(d) = (Len(u) + Len(d)) - 1
  <1> DEFINE v == Tail(u)
             m == Len(u)
             n == Len(d)
  <1>1. /\ m \in Nat \ {0} /\ Len(v) = m - 1 /\ n \in Nat
        /\ \A i \in 1 .. m - 1 : v[i] = u[i + 1]
    BY TailIs, LenProperties
  <1>2. \A i \in 1 .. m + n : (IF i <= m THEN u[i].rid ELSE d[i - m].rid) = Ev3Back(r, (m + n) - i)
    BY DEF Ev3Numbered
  <1> HIDE DEF v, m, n
  <1>3. ASSUME NEW i \in 1 .. (m - 1) + n
        PROVE  (IF i <= m - 1 THEN v[i].rid ELSE d[i - (m - 1)].rid)
                 = Ev3Back(r, ((m - 1) + n) - i)
    <2>1. /\ i + 1 \in 1 .. m + n /\ ((m - 1) + n) - i = (m + n) - (i + 1)
          /\ i - (m - 1) = (i + 1) - m /\ (i <= m - 1 <=> i + 1 <= m)
          /\ i <= m - 1 => i \in 1 .. m - 1
      BY <1>1
    <2> QED
      BY <1>1, <1>2, <2>1
  <1>4. (m - 1) + n = (m + n) - 1
    BY <1>1
  <1> QED
    BY <1>1, <1>3, <1>4 DEF Ev3Numbered, v, m, n

(* A reply with the slot's own counter is the last there is.               *)
LEMMA Ev3NumbersMine ==
  ASSUME Ev3Bounded, NEW u \in Seq(Ev3Reply), NEW d \in Seq(E!Request), NEW r \in 0 .. MaxRid,
         u # <<>>, Ev3Numbered(u, d, r), Len(u) + Len(d) <= MaxMishaps + 1, Head(u).rid = r
  PROVE  Len(u) = 1 /\ d = <<>>
  <1> DEFINE m == Len(u)
             n == Len(d)
  <1>1. m \in Nat \ {0} /\ Head(u) = u[1] /\ n \in Nat
    BY TailIs, LenProperties
  <1>2. u[1].rid = Ev3Back(r, (m + n) - 1)
    <2>1. 1 \in 1 .. m + n /\ 1 <= m
      BY <1>1
    <2>2. (IF 1 <= m THEN u[1].rid ELSE d[1 - m].rid) = Ev3Back(r, (m + n) - 1)
      BY <2>1 DEF Ev3Numbered
    <2> QED
      BY <2>1, <2>2
  <1>3. MaxRid \in Nat /\ MaxMishaps \in Nat /\ MaxMishaps < MaxRid /\ m + n <= MaxMishaps + 1
    BY DEF Ev3Bounded
  <1>4. r = Ev3Back(r, (m + n) - 1)
    BY <1>1, <1>2
  <1> HIDE DEF m, n
  <1>5. m + n = 1
    BY <1>1, <1>3, <1>4 DEF Ev3Back
  <1>6. m = 1 /\ n = 0
    BY <1>1, <1>5
  <1> QED
    BY <1>6, EmptySeq DEF m, n

(* To disown the requests changes neither their order nor their counters.  *)
LEMMA Ev3DisownedDown ==
  ASSUME NEW d \in Seq(E!Request)
  PROVE  LET e == [i \in DOMAIN d |-> E!Disown(d[i])]
         IN  /\ e \in Seq(E!Request) /\ Len(e) = Len(d) /\ Len(d) \in Nat
             /\ e = <<>> <=> d = <<>>
             /\ \A i \in 1 .. Len(d) : e[i] = E!Disown(d[i]) /\ ~e[i].own /\ e[i].rid = d[i].rid
  <1> DEFINE e == [i \in 1 .. Len(d) |-> E!Disown(d[i])]
  <1>1. Len(d) \in Nat /\ DOMAIN d = 1 .. Len(d) /\ \A i \in 1 .. Len(d) : d[i] \in E!Request
    BY LenProperties, ElementOfSeq
  <1>2. \A q \in E!Request : E!Disown(q) \in E!Request /\ ~E!Disown(q).own /\ E!Disown(q).rid = q.rid
    BY DEF E!Disown, E!Request
  <1>3. /\ e \in Seq(E!Request) /\ Len(e) = Len(d)
        /\ \A i \in 1 .. Len(d) : e[i] = E!Disown(d[i]) /\ ~e[i].own /\ e[i].rid = d[i].rid
    <2>1. e \in [1 .. Len(d) -> E!Request]
      BY <1>1, <1>2, Zenon
    <2>2. e \in Seq(E!Request) /\ Len(e) = Len(d)
      BY <1>1, <2>1, FunctionIsSeq
    <2>3. \A i \in 1 .. Len(d) : e[i] = E!Disown(d[i])
      BY Zenon
    <2> HIDE DEF e
    <2> QED
      BY <1>1, <1>2, <2>2, <2>3
  <1>4. e = <<>> <=> d = <<>>
    <2> HIDE DEF e
    <2> QED
      BY <1>3, EmptySeq
  <1> QED
    BY <1>1, <1>3, <1>4

----------------------------------------------------------------------------
(* What the calls queue.                                                   *)

LEMMA Ev3SetToSeq ==
  ASSUME NEW S, IsFiniteSet(S)
  PROVE  /\ E!SetToSeq(S) \in Seq(S) /\ Len(E!SetToSeq(S)) \in Nat
         /\ DOMAIN E!SetToSeq(S) = 1 .. Len(E!SetToSeq(S))
         /\ \A i \in 1 .. Len(E!SetToSeq(S)) : E!SetToSeq(S)[i] \in S
  <1> DEFINE n == Cardinality(S)
  <1>1. n \in Nat /\ \E f : f \in Bijection(1 .. n, S)
    BY FS_CardinalityType DEF ExistsBijection
  <1>2. PICK f : f \in Bijection(1 .. n, S)
    BY <1>1
  <1>3. f \in [1 .. n -> S] /\ E!IsInjective(f)
    BY <1>2 DEF Bijection, Injection, IsInjective, E!IsInjective
  <1>4. E!Cardinality(S) = n
    BY Zenon DEF E!Cardinality, Cardinality
  <1>5. E!SetToSeq(S) \in [1 .. n -> S]
    BY <1>3, <1>4 DEF E!SetToSeq
  <1>6. E!SetToSeq(S) \in Seq(S)
    BY <1>1, <1>5
  <1> QED
    BY <1>6, LenProperties, ElementOfSeq

(* What Ev3Todo says of a call's commands before the first is issued.      *)
Ev3Fresh(t) ==
  /\ t \in Seq(E!Command)
  /\ \A i \in 1 .. Len(t) :
       /\ ~t[i].own
       /\ t[i].op = "step" => t[i].ports # {}
       /\ t[i].op = "type" => i = 1 /\ cache = None

LEMMA Ev3CmdIs ==
  ASSUME NEW o \in E!Ops, NEW X \in SUBSET Ports
  PROVE  /\ E!Cmd(o, X) \in Seq(E!Command) /\ Len(E!Cmd(o, X)) = 1
         /\ E!Cmd(o, X)[1] \in E!Command /\ ~E!Cmd(o, X)[1].own
         /\ E!Cmd(o, X)[1].op = o
         /\ E!Cmd(o, X)[1].ports = X
  <1> DEFINE c == [op |-> o, ports |-> X, own |-> FALSE]
  <1>1. c \in E!Command /\ ~c.own /\ c.op = o /\ c.ports = X
    BY DEF E!Command
  <1>2. E!Cmd(o, X) = <<c>>
    BY DEF E!Cmd
  <1> HIDE DEF c
  <1> QED
    BY <1>1, <1>2

LEMMA Ev3EachIs ==
  ASSUME NEW o \in E!Ops, NEW X \in SUBSET Ports, IsFiniteSet(X)
  PROVE  /\ E!Each(o, X) \in Seq(E!Command) /\ Len(E!Each(o, X)) \in Nat
         /\ \A i \in 1 .. Len(E!Each(o, X)) :
              /\ ~E!Each(o, X)[i].own
              /\ E!Each(o, X)[i].op = o
  <1> DEFINE s == E!SetToSeq(X)
             F(i) == [op |-> o, ports |-> {s[i]}, own |-> FALSE]
  <1>1. /\ Len(s) \in Nat /\ DOMAIN s = 1 .. Len(s)
        /\ \A i \in 1 .. Len(s) : s[i] \in X
    BY Ev3SetToSeq
  <1>2. E!Each(o, X) = [i \in 1 .. Len(s) |-> F(i)]
    BY <1>1 DEF E!Each
  <1> HIDE DEF s
  <1>3. \A i \in 1 .. Len(s) : F(i) \in E!Command /\ ~F(i).own /\ F(i).op = o
    BY <1>1 DEF E!Command
  <1> HIDE DEF F
  <1>4. E!Each(o, X) \in [1 .. Len(s) -> E!Command]
    BY <1>2, <1>3, Zenon
  <1>5. E!Each(o, X) \in Seq(E!Command) /\ Len(E!Each(o, X)) = Len(s)
    BY <1>1, <1>4, FunctionIsSeq
  <1> QED
    BY <1>1, <1>2, <1>3, <1>5

(* One command after others that are not requests for the type.            *)
LEMMA Ev3FreshOne ==
  ASSUME NEW op \in E!Ops, NEW S \in SUBSET Ports,
         op = "step" => S # {}, op = "type" => cache = None
  PROVE  Ev3Fresh(E!Cmd(op, S))
  <1> DEFINE u == E!Cmd(op, S)
  <1>1. /\ u \in Seq(E!Command) /\ Len(u) = 1 /\ ~u[1].own
        /\ u[1].op = op
        /\ u[1].ports = S
    BY Ev3CmdIs, Zenon
  <1> HIDE DEF u
  <1>2. \A i \in 1 .. Len(u) : i = 1
    BY <1>1
  <1>3. Ev3Fresh(u)
    BY <1>1, <1>2, Zenon DEF Ev3Fresh
  <1> QED
    BY <1>3 DEF u

LEMMA Ev3FreshEach ==
  ASSUME NEW op \in E!Ops, NEW S \in SUBSET Ports, IsFiniteSet(S), op \notin {"step", "type"}
  PROVE  Ev3Fresh(E!Each(op, S))
  <1>1. op # "step" /\ op # "type"
    OBVIOUS
  <1> DEFINE u == E!Each(op, S)
  <1>2. u \in Seq(E!Command) /\ \A i \in 1 .. Len(u) : ~u[i].own /\ u[i].op = op
    BY Ev3EachIs
  <1> HIDE DEF u
  <1>3. Ev3Fresh(u)
    BY <1>1, <1>2 DEF Ev3Fresh
  <1> QED
    BY <1>3 DEF u

LEMMA Ev3FreshThen ==
  ASSUME NEW t, Ev3Fresh(t),
         NEW op \in E!Ops, NEW S \in SUBSET Ports, op = "step" => S # {}, op # "type"
  PROVE  Ev3Fresh(t \o E!Cmd(op, S))
  <1> DEFINE u == E!Cmd(op, S)
  <1>1. /\ u \in Seq(E!Command) /\ Len(u) = 1 /\ ~u[1].own
        /\ u[1].op = op
        /\ u[1].ports = S
    BY Ev3CmdIs, Zenon
  <1> HIDE DEF u
  <1>2. t \in Seq(E!Command) /\ Len(t) \in Nat
    BY LenProperties DEF Ev3Fresh
  <1>3. /\ t \o u \in Seq(E!Command) /\ Len(t \o u) = Len(t) + 1
        /\ \A i \in 1 .. Len(t) + Len(u) :
             (t \o u)[i] = IF i <= Len(t) THEN t[i] ELSE u[i - Len(t)]
    <2> DEFINE v == t \o u
    <2>1. /\ v \in Seq(E!Command) /\ Len(v) = Len(t) + Len(u)
          /\ \A i \in 1 .. Len(t) + Len(u) :
               v[i] = IF i <= Len(t) THEN t[i] ELSE u[i - Len(t)]
      BY <1>1, <1>2, ConcatProperties, Zenon
    <2> QED
      BY <1>1, <2>1, Zenon
  <1>4. ASSUME NEW i \in 1 .. Len(t \o u)
        PROVE  /\ ~(t \o u)[i].own
               /\ (t \o u)[i].op = "step" => (t \o u)[i].ports # {}
               /\ (t \o u)[i].op = "type" => i = 1 /\ cache = None
    <2>1. CASE i <= Len(t)
      <3>1. i \in 1 .. Len(t) /\ (t \o u)[i] = t[i]
        BY <1>1, <1>2, <1>3, <2>1
      <3> QED
        BY <3>1, Zenon DEF Ev3Fresh
    <2>2. CASE i > Len(t)
      <3>1. i - Len(t) = 1 /\ (t \o u)[i] = u[1]
        BY <1>1, <1>2, <1>3, <2>2
      <3> QED
        BY <1>1, <3>1
    <2>3. i <= Len(t) \/ i > Len(t)
      BY <1>2, <1>3
    <2> QED
      BY <2>1, <2>2, <2>3, Zenon
  <1> QED
    BY <1>3, <1>4, Zenon DEF Ev3Fresh, u

LEMMA Ev3ProgramsFresh ==
  ASSUME Ev3Bounded, NEW S \in (SUBSET Ports) \ {{}}, NEW t \in E!Programs(S)
  PROVE  Ev3Fresh(t)
  <1>1. IsFiniteSet(S) /\ S \in SUBSET Ports /\ {} \in SUBSET Ports
    BY FS_Subset DEF Ev3Bounded
  <1> USE DEF E!Ops, E!Asks
  <1>2. ASSUME t \in E!RotateTo(S)
        PROVE  Ev3Fresh(t)
    <2>1. PICK D \in SUBSET S : t = E!Each("count", S) \o (IF D = {} THEN <<>> ELSE E!Cmd("step", D))
      BY <1>2 DEF E!RotateTo
    <2>2. Ev3Fresh(E!Each("count", S))
      BY <1>1, Ev3FreshEach
    <2>3. CASE D = {}
      <3>1. t = E!Each("count", S)
        <4>1. E!Each("count", S) \in Seq(E!Command)
          BY <2>2 DEF Ev3Fresh
        <4> QED
          BY <2>1, <2>3, <4>1, ConcatEmptySeq
      <3> QED
        BY <2>2, <3>1
    <2>4. CASE D # {}
      <3>1. D \in SUBSET Ports /\ t = E!Each("count", S) \o E!Cmd("step", D)
        BY <2>1, <2>4
      <3> QED
        BY <2>2, <2>4, <3>1, Ev3FreshThen
    <2> QED
      BY <2>3, <2>4
  <1>3. Ev3Fresh(E!ReadSensor)
    <2>1. CASE cache = None
      <3>1. E!ReadSensor = E!Cmd("type", {}) \o E!Cmd("read", {})
        BY <2>1 DEF E!ReadSensor
      <3> QED
        BY <1>1, <2>1, <3>1, Ev3FreshOne, Ev3FreshThen
    <2>2. CASE cache # None
      <3>1. E!ReadSensor = E!Cmd("read", {})
        <4>1. E!Cmd("read", {}) \in Seq(E!Command)
          BY <1>1, Ev3CmdIs
        <4> QED
          BY <2>2, <4>1, ConcatEmptySeq DEF E!ReadSensor
      <3> QED
        BY <1>1, <3>1, Ev3FreshOne
    <2> QED
      BY <2>1, <2>2
  <1>4. /\ Ev3Fresh(E!Cmd("on", S)) /\ Ev3Fresh(E!Cmd("off", S)) /\ Ev3Fresh(E!Cmd("step", S))
        /\ Ev3Fresh(E!Each("on", S)) /\ Ev3Fresh(E!Each("zero", S)) /\ Ev3Fresh(E!Each("count", S))
    BY <1>1, Ev3FreshOne, Ev3FreshEach
  <1> QED
    BY <1>2, <1>3, <1>4 DEF E!Programs

(* Nobody's commands in the queue.                                         *)
LEMMA Ev3DisownedQueue ==
  ASSUME E!TypeOK
  PROVE  LET q == [i \in DOMAIN queue |-> E!Disown(queue[i])]
         IN  /\ q \in Seq(E!Command) /\ Len(q) = Len(queue) /\ Len(queue) \in Nat
             /\ \A i \in 1 .. Len(queue) :
                  ~q[i].own /\ q[i].op = queue[i].op /\ q[i].ports = queue[i].ports
  <1> DEFINE q == [i \in 1 .. Len(queue) |-> E!Disown(queue[i])]
  <1>1. Len(queue) \in Nat /\ DOMAIN queue = 1 .. Len(queue) /\ \A i \in 1 .. Len(queue) : queue[i] \in E!Command
    BY Ev3Types, LenProperties, ElementOfSeq
  <1>2. \A c \in E!Command : /\ E!Disown(c) \in E!Command /\ ~E!Disown(c).own
                             /\ E!Disown(c).op = c.op /\ E!Disown(c).ports = c.ports
    BY DEF E!Disown, E!Command
  <1>3. /\ q \in Seq(E!Command) /\ Len(q) = Len(queue)
        /\ \A i \in 1 .. Len(queue) : q[i] = E!Disown(queue[i])
    <2>1. q \in [1 .. Len(queue) -> E!Command]
      BY <1>1, <1>2, Zenon
    <2> QED
      BY <1>1, <2>1, FunctionIsSeq
  <1> HIDE DEF q
  <1>4. \A i \in 1 .. Len(queue) :
           ~q[i].own /\ q[i].op = queue[i].op /\ q[i].ports = queue[i].ports
    BY <1>1, <1>2, <1>3
  <1> QED
    BY <1>1, <1>3, <1>4 DEF q


----------------------------------------------------------------------------
(* What a caller is told, and what the rest of the invariant needs of it.  *)

(* The caller is told, or is not the one who waits: the phase moves, and a *)
(* type that came with an answer may be kept.                              *)
Ev3Told(own, ok, t) ==
  \/ call' = call /\ cache' = cache /\ ~(own /\ call.phase = "waiting")
  \/ /\ own /\ call.phase = "waiting" /\ call'.phase \in {"ok", "failed"}
     /\ call'.phase = "ok" => ok
     /\ cache' = cache \/ (ok /\ cache' = t /\ t # None)

LEMMA Ev3AnswerIs ==
  ASSUME E!TypeOK, NEW own \in BOOLEAN, NEW ok \in BOOLEAN, NEW t, E!Answer(own, ok, t)
  PROVE  /\ call' \in Ev3CallType /\ call'.closing = call.closing
         /\ call'.todo = call.todo \/ call'.todo = <<>>
         /\ Ev3Told(own, ok, t)
  <1>1. call \in Ev3CallType
    BY Ev3Types
  <1>2. CASE ~(own /\ call.phase = "waiting")
    <2>1. call' = call /\ cache' = cache
      BY <1>2, Zenon DEF E!Answer
    <2> QED
      BY <1>1, <1>2, <2>1 DEF Ev3Told
  <1>3. CASE own /\ call.phase = "waiting"
    <2> DEFINE good == ok /\ ~(call.now.op = "type" /\ t = None)
    <2>1. /\ good => call' = [call EXCEPT !.phase = "ok", !.now = None]
          /\ ~good => call' = [call EXCEPT !.phase = "failed", !.now = None, !.todo = <<>>]
          /\ good /\ call.now.op = "type" => cache' = t
          /\ ~(good /\ call.now.op = "type") => cache' = cache
      BY <1>3, Zenon DEF E!Answer
    <2>2. cache' = cache \/ (ok /\ cache' = t /\ t # None)
      BY <2>1
    <2>3. good => ok
      OBVIOUS
    <2> HIDE DEF good
    <2>4. CASE good
      <3>1. call' = [call EXCEPT !.phase = "ok", !.now = None]
        BY <2>1, <2>4
      <3>2. /\ call' \in Ev3CallType /\ call'.closing = call.closing /\ call'.todo = call.todo
            /\ call'.phase = "ok"
        BY <1>1, <3>1 DEF Ev3CallType, Ev3Phases
      <3> QED
        BY <1>3, <2>2, <2>3, <2>4, <3>2, Zenon DEF Ev3Told
    <2>5. CASE ~good
      <3>1. call' = [call EXCEPT !.phase = "failed", !.now = None, !.todo = <<>>]
        BY <2>1, <2>5
      <3>2. <<>> \in Seq(E!Command)
        OBVIOUS
      <3>3. /\ call' \in Ev3CallType /\ call'.closing = call.closing /\ call'.todo = <<>>
            /\ call'.phase = "failed"
        BY <1>1, <3>1, <3>2 DEF Ev3CallType, Ev3Phases
      <3>4. call'.phase \in {"ok", "failed"} /\ ~(call'.phase = "ok")
        BY <3>3
      <3> QED
        BY <1>3, <2>2, <3>3, <3>4, Zenon DEF Ev3Told
    <2> QED
      BY <2>4, <2>5
  <1> QED
    BY <1>2, <1>3

(* How the phase moves but when a command is issued or a device forgotten. *)
Ev3Moves ==
  \/ call'.phase = call.phase
  \/ call.phase = "waiting" /\ call'.phase \in {"ok", "failed"}

LEMMA Ev3TodoKept ==
  ASSUME Ev3Todo, call'.todo = call.todo \/ call'.todo = <<>>,
         call.phase = "waiting" \/ (cache' = cache /\ call'.phase = call.phase)
  PROVE  Ev3Todo'
  <1>1. CASE call'.todo = <<>>
    BY <1>1 DEF Ev3Todo
  <1>2. CASE call'.todo = call.todo
    BY <1>2 DEF Ev3Todo
  <1> QED
    BY <1>1, <1>2

LEMMA Ev3QueuedKept ==
  ASSUME Ev3Queued, queue' = queue, Ev3Moves, Ev3Still => Ev3Still',
         queue # <<>> => cache' = cache
  PROVE  Ev3Queued'
  <1>1. ASSUME NEW i \in 1 .. Len(queue) PROVE cache' = cache
    BY <1>1
  <1> QED
    BY <1>1 DEF Ev3Queued, Ev3Moves

LEMMA Ev3HeadIs ==
  ASSUME E!TypeOK, Ev3Queued, queue # <<>>
  PROVE  /\ Head(queue) \in E!Command
         /\ Head(queue).op = "step" => Head(queue).ports # {}
         /\ Head(queue).own => /\ call.phase # "idle" /\ Ev3Still
                               /\ Head(queue).op = "type" => cache = None
                               /\ call.phase = "waiting" => Tail(queue) = <<>>
  <1>1. /\ Len(queue) \in Nat \ {0} /\ Head(queue) = queue[1] /\ queue[1] \in E!Command
        /\ Tail(queue) \in Seq(E!Command) /\ Len(Tail(queue)) = Len(queue) - 1
    BY Ev3Types, TailIs
  <1>2. 1 \in 1 .. Len(queue)
    BY <1>1
  <1>3. queue[1].own /\ call.phase = "waiting" => Len(queue) = 1
    BY <1>2 DEF Ev3Queued
  <1>4. ASSUME Len(queue) = 1 PROVE Tail(queue) = <<>>
    <2>1. Len(Tail(queue)) = 0
      BY <1>1, <1>4
    <2> QED
      BY <1>1, <2>1, EmptySeq, Zenon
  <1> QED
    BY <1>1, <1>2, <1>3, <1>4 DEF Ev3Queued

LEMMA Ev3QueuedTail ==
  ASSUME E!TypeOK, Ev3Queued, queue # <<>>, queue' = Tail(queue), Ev3Moves,
         ~Head(queue).own => (Ev3Still => Ev3Still'), cache' = cache
  PROVE  Ev3Queued'
  <1>1. /\ Len(queue) \in Nat \ {0} /\ Head(queue) = queue[1]
        /\ Len(queue') = Len(queue) - 1
        /\ \A i \in 1 .. Len(queue) - 1 : i + 1 \in 1 .. Len(queue) /\ queue'[i] = queue[i + 1]
    BY Ev3Types, TailIs
  <1>2. SUFFICES ASSUME NEW i \in 1 .. Len(queue')
        PROVE  /\ queue'[i].op = "step" => queue'[i].ports # {}
               /\ queue'[i].own =>
                    /\ call'.phase # "idle" /\ (call'.phase = "waiting" => i = Len(queue'))
                    /\ \A j \in 1 .. Len(queue') : queue'[j].own => j = i
                    /\ Ev3Still'
                    /\ queue'[i].op = "type" => cache' = None
    BY DEF Ev3Queued
  <1>3. i \in 1 .. Len(queue) - 1 /\ i + 1 \in 1 .. Len(queue) /\ 1 \in 1 .. Len(queue) /\ i + 1 # 1
    BY <1>1
  <1>4. queue'[i] = queue[i + 1]
    BY <1>1, <1>3
  <1>5. queue'[i].op = "step" => queue'[i].ports # {}
    BY <1>3, <1>4 DEF Ev3Queued
  <1>6. ASSUME queue'[i].own
        PROVE  /\ call'.phase # "idle" /\ (call'.phase = "waiting" => i = Len(queue'))
               /\ \A j \in 1 .. Len(queue') : queue'[j].own => j = i
               /\ Ev3Still'
               /\ queue'[i].op = "type" => cache' = None
    <2>1. /\ call.phase # "idle" /\ (call.phase = "waiting" => i + 1 = Len(queue))
          /\ \A j \in 1 .. Len(queue) : queue[j].own => j = i + 1
          /\ Ev3Still
          /\ queue[i + 1].op = "type" => cache = None
      BY <1>3, <1>4, <1>6 DEF Ev3Queued
    <2>2. ~Head(queue).own
      BY <1>1, <1>3, <2>1
    <2>3. \A j \in 1 .. Len(queue') : queue'[j].own => j = i
      <3>1. ASSUME NEW j \in 1 .. Len(queue'), queue'[j].own PROVE j = i
        <4>1. j + 1 \in 1 .. Len(queue) /\ queue'[j] = queue[j + 1]
          BY <1>1
        <4>2. j + 1 = i + 1
          BY <2>1, <3>1, <4>1
        <4> QED
          BY <1>1, <4>2
      <3> QED
        BY <3>1
    <2>4. call'.phase # "idle" /\ (call'.phase = "waiting" => i = Len(queue'))
      <3>1. i + 1 = Len(queue) => i = Len(queue')
        <4>1. Len(queue) \in Nat /\ i \in Int /\ Len(queue') = Len(queue) - 1
          BY <1>1, <1>3
        <4>2. \A m \in Nat, n, k \in Int : n = m - 1 /\ k + 1 = m => k = n
          OBVIOUS
        <4>3. Len(queue) - 1 \in Int
          BY <4>1
        <4> QED
          BY <4>1, <4>2, <4>3, Zenon
      <3>2. call.phase # "idle" /\ (call.phase = "waiting" => i = Len(queue'))
        BY <2>1, <3>1
      <3>3. CASE call'.phase = call.phase
        BY <3>2, <3>3
      <3>4. CASE call'.phase \in {"ok", "failed"}
        BY <3>4
      <3> QED
        BY <3>3, <3>4 DEF Ev3Moves
    <2> QED
      BY <1>4, <2>1, <2>2, <2>3, <2>4
  <1> QED
    BY <1>5, <1>6

LEMMA Ev3UnansweredKept ==
  ASSUME Ev3Unanswered, down' = down, Ev3Moves, down # <<>> => cache' = cache
  PROVE  Ev3Unanswered'
  <1>1. ASSUME NEW i \in 1 .. Len(down) PROVE cache' = cache
    BY <1>1
  <1> QED
    BY <1>1 DEF Ev3Unanswered, Ev3Moves

LEMMA Ev3NoneAtWork ==
  ASSUME Ev3AtWork, open, call.phase = "waiting", queue # <<>>
  PROVE  (\A e \in slot.runs : ~e.own) /\ (slot.asking # None => ~slot.asking.own)
  BY DEF Ev3AtWork

(* Slots.                                                                  *)
LEMMA Ev3SlotRuns ==
  ASSUME NEW s \in Ev3SlotType, NEW R \in SUBSET Ev3Run, NEW t, t = [s EXCEPT !.runs = R]
  PROVE  t \in Ev3SlotType /\ t.runs = R /\ t.asking = s.asking /\ t.rid = s.rid
  BY DEF Ev3SlotType

LEMMA Ev3SlotReturns ==
  ASSUME NEW s \in Ev3SlotType, NEW R \in SUBSET Ev3Run, NEW x \in E!Request \cup {None},
         NEW t, t = [s EXCEPT !.asking = x, !.runs = R]
  PROVE  t \in Ev3SlotType /\ t.runs = R /\ t.asking = x /\ t.rid = s.rid
  BY DEF Ev3SlotType

(* The steps of a call's phase are HubCall's.                              *)
Ev3Steps ==
  \/ call'.phase = call.phase /\ ((ran' <=> ran) \/ (ran' /\ call.phase # "idle"))
  \/ call.phase = "waiting" /\ call'.phase = "ok" /\ ran'
  \/ call.phase = "waiting" /\ call'.phase = "failed" /\ (ran => ran')

Ev3Promised == HE!Next \/ UNCHANGED HE!vars

LEMMA Ev3StepsAre ==
  ASSUME E!TypeOK, E!TypeOK', Ev3Closed, Ev3Steps
  PROVE  Ev3Promised
  <1>1. ran \in BOOLEAN /\ ran' \in BOOLEAN /\ call.phase \in Ev3Phases
    BY DEF E!TypeOK, Ev3Phases
  <1>2. CASE call'.phase = call.phase /\ (ran' <=> ran)
    <2>1. ran' = ran
      BY <1>1, <1>2
    <2> QED
      BY <1>2, <2>1 DEF Ev3Promised, HE!vars
  <1>3. CASE call'.phase = call.phase /\ ran' /\ call.phase # "idle" /\ ~ran
    <2>1. call.phase \in {"waiting", "failed"}
      BY <1>1, <1>3 DEF Ev3Closed, Ev3Phases
    <2>2. HE!Execute
      BY <1>1, <1>3, <2>1 DEF HE!Execute
    <2> QED
      BY <2>2 DEF Ev3Promised, HE!Next
  <1>4. CASE call.phase = "waiting" /\ call'.phase = "ok" /\ ran'
    <2>1. HE!Succeed
      BY <1>1, <1>4 DEF HE!Succeed
    <2> QED
      BY <2>1 DEF Ev3Promised, HE!Next
  <1>5. CASE call.phase = "waiting" /\ call'.phase = "failed" /\ (ran => ran')
    <2>1. ran' \in {ran, TRUE}
      BY <1>1, <1>5
    <2>2. HE!Fail
      BY <1>5, <2>1 DEF HE!Fail
    <2> QED
      BY <2>2 DEF Ev3Promised, HE!Next
  <1> QED
    BY <1>2, <1>3, <1>4, <1>5 DEF Ev3Steps

----------------------------------------------------------------------------
(* The calls.                                                              *)

Ev3Keeps == Ev3Inv' /\ Ev3Promised

LEMMA Ev3ConnectKeeps ==
  ASSUME Ev3Bounded, Ev3Inv, E!Connect
  PROVE  Ev3Keeps
  <1>1. /\ ~open /\ open' = TRUE /\ link /\ link' = link /\ queue' = <<>> /\ cache' = cache
        /\ slot' = [runs |-> {}, asking |-> None, rid |-> 0]
        /\ call' = [phase |-> "idle", todo |-> <<>>, now |-> None, closing |-> FALSE]
        /\ down' = down /\ up' = up /\ hw' = hw /\ stale' = stale /\ mishaps' = mishaps
        /\ ran' = FALSE /\ call.phase # "waiting"
    BY Zenon DEF E!Connect, E!NoCall, E!brick, E!Over
  <1>2. /\ E!TypeOK /\ call.phase = "idle" /\ cache = None /\ up = <<>> /\ down = <<>> /\ Ev3Still
    BY <1>1 DEF Ev3Inv, Ev3Closed
  <1>3. slot' \in Ev3SlotType /\ slot'.runs = {} /\ slot'.asking = None /\ slot'.rid = 0
    BY <1>1 DEF Ev3SlotType, Ev3Bounded
  <1>4. /\ call' \in Ev3CallType /\ call'.phase = "idle" /\ call'.todo = <<>> /\ ~call'.closing
    <2>1. <<>> \in Seq(E!Command)
      OBVIOUS
    <2> QED
      BY <1>1, <2>1 DEF Ev3CallType, Ev3Phases
  <1>5. <<>> \in Seq(E!Command)
    OBVIOUS
  <1>6. E!TypeOK'
    BY <1>1, <1>2, <1>3, <1>4, <1>5, Ev3Types, Ev3TypesTogether
  <1>7. Ev3Todo'
    BY <1>4 DEF Ev3Todo
  <1>8. Ev3Owners'
    <2>1. Ev3Queued'
      BY <1>1 DEF Ev3Queued
    <2>2. Ev3Unanswered'
      BY <1>1, <1>2 DEF Ev3Unanswered
    <2>3. Ev3AtWork'
      BY <1>4 DEF Ev3AtWork
    <2> QED
      BY <2>1, <2>2, <2>3 DEF Ev3Owners
  <1>9. Ev3Counters'
    <2>1. Ev3Numbered(<<>>, <<>>, 0)
      BY DEF Ev3Numbered
    <2>2. mishaps \in Nat
      BY <1>2, Ev3Types DEF Ev3Bounded
    <2>3. Len(up') + Len(down') = 0
      BY <1>1, <1>2
    <2> QED
      BY <1>1, <1>2, <1>3, <2>1, <2>2, <2>3 DEF Ev3Counters
  <1>10. Ev3Last' /\ Ev3Synced'
    BY <1>1, <1>2, <1>3 DEF Ev3Last, Ev3Synced
  <1>11. Ev3Closed'
    <2>1. Ev3Still'
      BY <1>1, <1>2 DEF Ev3Still
    <2> QED
      BY <1>1, <1>2, <1>3, <1>4, <2>1 DEF Ev3Closed
  <1>12. Ev3Promised
    <2>1. HE!Forget
      BY <1>1, <1>4 DEF HE!Forget
    <2> QED
      BY <2>1 DEF Ev3Promised, HE!Next
  <1> QED
    BY <1>6, <1>7, <1>8, <1>9, <1>10, <1>11, <1>12 DEF Ev3Keeps, Ev3Inv

(* The motors that turn for the command issued last turn for an older one. *)
LEMMA Ev3OlderIs ==
  ASSUME hw \in Ev3HubType, hw' = E!Older
  PROVE  hw' \in Ev3HubType /\ hw'.sensor = hw.sensor /\ Ev3Still'
  <1> DEFINE f == [p \in Ports |-> IF hw.job[p] = "own" THEN "old" ELSE hw.job[p]]
  <1>1. hw' = [hw EXCEPT !.job = f]
    BY Zenon DEF E!Older
  <1>2. hw.job \in [Ports -> E!Jobs] /\ hw.sensor \in Modes \cup {None}
    BY DEF Ev3HubType
  <1>3. f \in [Ports -> E!Jobs]
    BY <1>2 DEF E!Jobs
  <1>4. \A p \in Ports : f[p] # "own"
    OBVIOUS
  <1> HIDE DEF f
  <1>5. hw' \in Ev3HubType /\ hw'.sensor = hw.sensor /\ hw'.job = f
    BY <1>1, <1>3 DEF Ev3HubType
  <1> QED
    BY <1>4, <1>5 DEF Ev3Still

LEMMA Ev3CloseKeeps ==
  ASSUME Ev3Bounded, Ev3Inv, E!Close
  PROVE  Ev3Keeps
  <1>1. /\ call.closing /\ open' = FALSE /\ link' = link /\ queue' = <<>> /\ cache' = None
        /\ slot' = None /\ hw' = E!Older
        /\ call' = [phase |-> "idle", todo |-> <<>>, now |-> None, closing |-> FALSE]
        /\ down' = <<>> /\ up' = <<>> /\ stale' = stale /\ mishaps' = mishaps
        /\ ran' = FALSE
    BY Zenon DEF E!Close, E!NoCall
  <1>2. /\ E!TypeOK /\ call.phase # "waiting"
    BY <1>1 DEF Ev3Inv, Ev3Closed
  <1>3. hw' \in Ev3HubType /\ Ev3Still'
    BY <1>1, <1>2, Ev3Types, Ev3OlderIs
  <1>4. /\ call' \in Ev3CallType /\ call'.phase = "idle" /\ call'.todo = <<>> /\ ~call'.closing
    <2>1. <<>> \in Seq(E!Command)
      OBVIOUS
    <2> QED
      BY <1>1, <2>1 DEF Ev3CallType, Ev3Phases
  <1>5. /\ queue' \in Seq(E!Command) /\ down' \in Seq(E!Request) /\ up' \in Seq(Ev3Reply)
        /\ cache' \in Modes \cup {None}
    BY <1>1
  <1>6. E!TypeOK'
    BY <1>1, <1>2, <1>3, <1>4, <1>5, Ev3Types, Ev3TypesTogether
  <1>7. Ev3Todo'
    BY <1>4 DEF Ev3Todo
  <1>8. Ev3Owners'
    BY <1>1 DEF Ev3Owners, Ev3Queued, Ev3Unanswered, Ev3AtWork
  <1>9. Ev3Counters' /\ Ev3Last' /\ Ev3Synced'
    BY <1>1 DEF Ev3Counters, Ev3Last, Ev3Synced
  <1>10. Ev3Closed'
    BY <1>1, <1>3, <1>4 DEF Ev3Closed
  <1>11. Ev3Promised
    <2>1. HE!Forget
      BY <1>1, <1>2, <1>4 DEF HE!Forget
    <2> QED
      BY <2>1 DEF Ev3Promised, HE!Next
  <1> QED
    BY <1>6, <1>7, <1>8, <1>9, <1>10, <1>11 DEF Ev3Keeps, Ev3Inv

(* The stop that disconnect queues is nobody's.                            *)
LEMMA Ev3DisconnectKeeps ==
  ASSUME Ev3Bounded, Ev3Inv, E!Disconnect
  PROVE  Ev3Keeps
  <1> DEFINE c == [op |-> "off", ports |-> Ports, own |-> FALSE]
  <1>1. /\ call.phase # "waiting" /\ call.todo = <<>> /\ ~call.closing /\ open
        /\ queue' = queue \o <<c>>
        /\ call' = [call EXCEPT !.closing = TRUE]
        /\ open' = open /\ link' = link /\ slot' = slot /\ cache' = cache
        /\ down' = down /\ up' = up /\ hw' = hw /\ stale' = stale /\ mishaps' = mishaps
        /\ ran' = ran
    BY Zenon DEF E!Disconnect, E!Cmd, E!brick, E!Over
  <1>2. c \in E!Command /\ ~c.own /\ c.op = "off"
    BY DEF E!Command, E!Ops
  <1> HIDE DEF c
  <1>3. E!TypeOK /\ call \in Ev3CallType /\ queue \in Seq(E!Command)
    BY Ev3Types DEF Ev3Inv
  <1>4. /\ call' \in Ev3CallType /\ call'.phase = call.phase /\ call'.todo = call.todo /\ call'.closing
    BY <1>1, <1>3 DEF Ev3CallType, Ev3Phases
  <1>5. /\ queue' \in Seq(E!Command) /\ Len(queue) \in Nat /\ Len(queue') = Len(queue) + 1
        /\ \A i \in 1 .. Len(queue) : queue'[i] = queue[i]
        /\ queue'[Len(queue) + 1] = c
    <2>1. queue \o <<c>> = Append(queue, c)
      BY <1>2, <1>3, AppendIsConcat
    <2> QED
      BY <1>1, <1>2, <1>3, <2>1, AppendIs
  <1>6. E!TypeOK'
    BY <1>1, <1>3, <1>4, <1>5, Ev3Types, Ev3TypesTogether
  <1>7. Ev3Todo'
    BY <1>1, <1>4, Ev3TodoKept DEF Ev3Inv
  <1>8. Ev3Queued'
    <2>1. SUFFICES ASSUME NEW i \in 1 .. Len(queue')
          PROVE  /\ queue'[i].op = "step" => queue'[i].ports # {}
                 /\ queue'[i].own =>
                      /\ call'.phase # "idle" /\ call'.phase # "waiting"
                      /\ \A j \in 1 .. Len(queue') : queue'[j].own => j = i
                      /\ Ev3Still'
                      /\ queue'[i].op = "type" => cache' = None
      BY DEF Ev3Queued
    <2>2. \A j \in 1 .. Len(queue') : j \in 1 .. Len(queue) \/ j = Len(queue) + 1
      BY <1>5
    <2>3. \A j \in 1 .. Len(queue') : queue'[j].own => j \in 1 .. Len(queue) /\ queue[j].own
      BY <1>2, <1>5, <2>2
    <2>4. Ev3Still => Ev3Still'
      BY <1>1 DEF Ev3Still
    <2>5. CASE i = Len(queue) + 1
      BY <1>2, <1>5, <2>5
    <2>6. CASE i \in 1 .. Len(queue)
      <3>1. queue'[i] = queue[i]
        BY <1>5, <2>6
      <3>2. /\ queue[i].op = "step" => queue[i].ports # {}
            /\ queue[i].own =>
                 /\ call.phase # "idle"
                 /\ \A j \in 1 .. Len(queue) : queue[j].own => j = i
                 /\ Ev3Still
                 /\ queue[i].op = "type" => cache = None
        BY <2>6 DEF Ev3Inv, Ev3Owners, Ev3Queued
      <3> QED
        BY <1>1, <1>4, <2>3, <2>4, <3>1, <3>2
    <2> QED
      BY <2>2, <2>5, <2>6
  <1>9. Ev3Unanswered'
    BY <1>1, <1>4, Ev3UnansweredKept DEF Ev3Inv, Ev3Owners, Ev3Moves
  <1>10. Ev3AtWork'
    BY <1>1, <1>4 DEF Ev3AtWork
  <1>11. Ev3Counters' /\ Ev3Synced'
    BY <1>1 DEF Ev3Inv, Ev3Counters, Ev3Synced
  <1>12. Ev3Last'
    BY <1>1, <1>4 DEF Ev3Inv, Ev3Last, Ev3True
  <1>13. Ev3Closed'
    BY <1>1, <1>4 DEF Ev3Inv, Ev3Closed, Ev3Still
  <1>14. Ev3Promised
    BY <1>1, <1>3, <1>4, <1>6, Ev3StepsAre DEF Ev3Inv, Ev3Steps
  <1> QED
    BY <1>6, <1>7, <1>8, <1>9, <1>10, <1>11, <1>12, <1>13, <1>14 DEF Ev3Keeps, Ev3Inv, Ev3Owners

LEMMA Ev3BeginKeeps ==
  ASSUME Ev3Bounded, Ev3Inv, E!Begin
  PROVE  Ev3Keeps
  <1>1. /\ call.phase # "waiting" /\ ~call.closing /\ open
        /\ open' = open /\ link' = link /\ slot' = slot /\ queue' = queue /\ cache' = cache
        /\ down' = down /\ up' = up /\ hw' = hw /\ stale' = stale /\ mishaps' = mishaps
        /\ ran' = ran
    BY Zenon DEF E!Begin, E!brick, E!Over
  <1>2. PICK t : Ev3Fresh(t) /\ call' = [call EXCEPT !.todo = t]
    BY Ev3ProgramsFresh DEF E!Begin
  <1>3. E!TypeOK /\ call \in Ev3CallType /\ t \in Seq(E!Command)
    BY <1>2, Ev3Types DEF Ev3Inv, Ev3Fresh
  <1>4. /\ call' \in Ev3CallType /\ call'.phase = call.phase /\ call'.todo = t /\ call'.closing = call.closing
    BY <1>2, <1>3 DEF Ev3CallType, Ev3Phases
  <1>5. E!TypeOK'
    BY <1>1, <1>3, <1>4, Ev3Types, Ev3TypesTogether
  <1>6. Ev3Todo'
    BY <1>1, <1>2, <1>4 DEF Ev3Todo, Ev3Fresh
  <1>7. Ev3Owners'
    <2>1. Ev3Moves /\ (Ev3Still => Ev3Still')
      BY <1>1, <1>4 DEF Ev3Moves, Ev3Still
    <2>2. Ev3Queued' /\ Ev3Unanswered'
      BY <1>1, <2>1, Ev3QueuedKept, Ev3UnansweredKept DEF Ev3Inv, Ev3Owners
    <2>3. Ev3AtWork'
      BY <1>1, <1>4 DEF Ev3AtWork
    <2> QED
      BY <2>2, <2>3 DEF Ev3Owners
  <1>8. Ev3Counters' /\ Ev3Synced'
    BY <1>1 DEF Ev3Inv, Ev3Counters, Ev3Synced
  <1>9. Ev3Last'
    BY <1>1, <1>4 DEF Ev3Inv, Ev3Last, Ev3True
  <1>10. Ev3Closed'
    BY <1>1, <1>4 DEF Ev3Inv, Ev3Closed, Ev3Still
  <1>11. Ev3Promised
    BY <1>1, <1>3, <1>4, <1>5, Ev3StepsAre DEF Ev3Inv, Ev3Steps
  <1> QED
    BY <1>5, <1>6, <1>7, <1>8, <1>9, <1>10, <1>11 DEF Ev3Keeps, Ev3Inv

(* What was queued, asked and started before is nobody's from now on.      *)
LEMMA Ev3IssueKeeps ==
  ASSUME Ev3Bounded, Ev3Inv, E!Issue
  PROVE  Ev3Keeps
  <1> DEFINE q == [i \in DOMAIN queue |-> E!Disown(queue[i])]
             c == [Head(call.todo) EXCEPT !.own = TRUE]
             d == [i \in DOMAIN down |-> E!Disown(down[i])]
             R == {E!Disown(e) : e \in slot.runs}
             x == IF slot.asking = None THEN None ELSE E!Disown(slot.asking)
  <1>1. /\ call.phase # "waiting" /\ call.todo # <<>>
        /\ call' = [call EXCEPT !.phase = "waiting", !.todo = Tail(call.todo), !.now = Head(call.todo)]
        /\ queue' = Append(q, c) /\ down' = d
        /\ hw' = E!Older /\ ran' = FALSE
        /\ open' = open /\ link' = link /\ cache' = cache /\ up' = up
        /\ stale' = stale /\ mishaps' = mishaps
    BY Zenon DEF E!Issue
  <1>2. slot' = [slot EXCEPT !.runs = R, !.asking = x]
    BY Zenon DEF E!Issue
  <1>3. /\ E!TypeOK /\ call \in Ev3CallType /\ call.todo \in Seq(E!Command)
        /\ open /\ slot \in Ev3SlotType /\ ~call.closing
    BY <1>1, Ev3Types DEF Ev3Inv, Ev3Closed
  <1>4. /\ Len(call.todo) \in Nat \ {0} /\ Head(call.todo) = call.todo[1] /\ call.todo[1] \in E!Command
        /\ Tail(call.todo) \in Seq(E!Command) /\ Len(Tail(call.todo)) = Len(call.todo) - 1
        /\ \A i \in 1 .. Len(call.todo) - 1 :
             i + 1 \in 1 .. Len(call.todo) /\ Tail(call.todo)[i] = call.todo[i + 1]
    BY <1>1, <1>3, TailIs
  <1>5. /\ call' \in Ev3CallType /\ call'.phase = "waiting" /\ call'.todo = Tail(call.todo)
        /\ call'.closing = call.closing
    BY <1>1, <1>3, <1>4 DEF Ev3CallType, Ev3Phases
  <1>6. /\ c \in E!Command /\ c.own /\ c.op = call.todo[1].op /\ c.ports = call.todo[1].ports
    BY <1>4 DEF E!Command
  <1>7. /\ q \in Seq(E!Command) /\ Len(q) = Len(queue) /\ Len(queue) \in Nat
        /\ \A i \in 1 .. Len(queue) :
             ~q[i].own /\ q[i].op = queue[i].op /\ q[i].ports = queue[i].ports
    BY <1>3, Ev3DisownedQueue
  <1>8. /\ d \in Seq(E!Request) /\ Len(d) = Len(down) /\ Len(down) \in Nat
        /\ d = <<>> <=> down = <<>>
        /\ \A i \in 1 .. Len(down) : d[i] = E!Disown(down[i]) /\ ~d[i].own /\ d[i].rid = down[i].rid
    BY <1>3, Ev3Types, Ev3DisownedDown
  <1>9. R \in SUBSET Ev3Run /\ \A e \in R : ~e.own
    <2>1. \A e \in Ev3Run : E!Disown(e) \in Ev3Run /\ ~E!Disown(e).own
      BY DEF E!Disown, Ev3Run
    <2>2. \A e \in slot.runs : e \in Ev3Run
      BY <1>3 DEF Ev3SlotType
    <2> QED
      BY <2>1, <2>2
  <1>10. /\ x \in E!Request \cup {None} /\ (x = None <=> slot.asking = None)
         /\ x # None => ~x.own /\ x = E!Disown(slot.asking) /\ x.rid = slot.asking.rid
    <2>1. slot.asking \in E!Request \cup {None}
      BY <1>3 DEF Ev3SlotType
    <2>2. CASE slot.asking = None
      BY <2>2
    <2>3. CASE slot.asking # None
      <3>1. x = E!Disown(slot.asking) /\ slot.asking \in E!Request
        BY <2>1, <2>3
      <3>2. \A r \in E!Request : E!Disown(r) \in E!Request /\ ~E!Disown(r).own /\ E!Disown(r).rid = r.rid
        BY DEF E!Disown, E!Request
      <3> HIDE DEF x
      <3>3. x \in E!Request /\ ~x.own /\ x.rid = slot.asking.rid
        BY <3>1, <3>2
      <3>4. x # None
        BY <3>3 DEF Ev3Bounded
      <3> QED
        BY <2>3, <3>1, <3>3, <3>4
    <2> QED
      BY <2>2, <2>3
  <1> HIDE DEF q, c, d, R, x
  <1>11. slot' \in Ev3SlotType /\ slot'.runs = R /\ slot'.asking = x /\ slot'.rid = slot.rid
    BY <1>2, <1>3, <1>9, <1>10 DEF Ev3SlotType
  <1>12. hw' \in Ev3HubType /\ hw'.sensor = hw.sensor /\ Ev3Still'
    BY <1>1, <1>3, Ev3Types, Ev3OlderIs
  <1>13. /\ queue' \in Seq(E!Command) /\ Len(queue') = Len(queue) + 1
         /\ \A i \in 1 .. Len(queue) : queue'[i] = q[i]
         /\ queue'[Len(queue) + 1] = c
    BY <1>1, <1>6, <1>7, AppendIs
  <1>14. E!TypeOK'
    BY <1>1, <1>3, <1>5, <1>8, <1>11, <1>12, <1>13, Ev3Types, Ev3TypesTogether
  <1>15. Ev3Todo'
    <2>1. \A i \in 1 .. Len(call'.todo) : i + 1 \in 1 .. Len(call.todo) /\ call'.todo[i] = call.todo[i + 1]
                                          /\ i + 1 # 1
      BY <1>4, <1>5
    <2>2. ASSUME NEW i \in 1 .. Len(call'.todo)
          PROVE  /\ ~call'.todo[i].own
                 /\ call'.todo[i].op = "step" => call'.todo[i].ports # {}
                 /\ call'.todo[i].op # "type"
      BY <2>1 DEF Ev3Inv, Ev3Todo
    <2> QED
      BY <2>2 DEF Ev3Todo
  <1>16. Ev3Queued'
    <2>1. /\ c.op = "step" => c.ports # {}
          /\ c.op = "type" => cache = None
      <3>1. 1 \in 1 .. Len(call.todo)
        BY <1>4
      <3> QED
        BY <1>6, <3>1 DEF Ev3Inv, Ev3Todo
    <2>2. \A j \in 1 .. Len(queue') : j \in 1 .. Len(queue) \/ j = Len(queue) + 1
      BY <1>7, <1>13
    <2>3. \A j \in 1 .. Len(queue') : queue'[j].own => j = Len(queue')
      BY <1>7, <1>13, <2>2
    <2>4. ASSUME NEW i \in 1 .. Len(queue')
          PROVE  /\ queue'[i].op = "step" => queue'[i].ports # {}
                 /\ queue'[i].own => (queue'[i].op = "type" => cache' = None)
      <3>1. CASE i = Len(queue) + 1
        BY <1>1, <1>13, <2>1, <3>1
      <3>2. CASE i \in 1 .. Len(queue)
        <4>1. queue'[i] = q[i] /\ ~q[i].own /\ q[i].op = queue[i].op /\ q[i].ports = queue[i].ports
          BY <1>7, <1>13, <3>2
        <4>2. queue[i].op = "step" => queue[i].ports # {}
          BY <3>2 DEF Ev3Inv, Ev3Owners, Ev3Queued
        <4> QED
          BY <4>1, <4>2
      <3> QED
        BY <2>2, <3>1, <3>2
    <2>5. call'.phase # "idle"
      BY <1>5
    <2> QED
      BY <1>12, <2>3, <2>4, <2>5 DEF Ev3Queued
  <1>17. Ev3Unanswered'
    BY <1>1, <1>8 DEF Ev3Unanswered
  <1>18. Ev3AtWork'
    BY <1>9, <1>10, <1>11 DEF Ev3AtWork
  <1>19. Ev3Counters'
    <2>1. /\ Ev3Numbered(up, down, slot.rid)
          /\ Len(up) + Len(down) <= mishaps + (IF slot.asking = None THEN 0 ELSE 1)
          /\ slot.asking # None => slot.asking.rid = slot.rid
      BY <1>3 DEF Ev3Inv, Ev3Counters
    <2>2. Ev3Numbered(up, d, slot.rid)
      <3>1. Len(up) \in Nat
        BY <1>3, Ev3Types, LenProperties
      <3>2. ASSUME NEW i \in 1 .. Len(up) + Len(down), ~(i <= Len(up))
            PROVE  d[i - Len(up)].rid = down[i - Len(up)].rid
        <4>1. i - Len(up) \in 1 .. Len(down)
          BY <1>8, <3>1, <3>2
        <4> QED
          BY <1>8, <4>1
      <3> QED
        BY <1>8, <2>1, <3>2 DEF Ev3Numbered
    <2> QED
      BY <1>1, <1>8, <1>10, <1>11, <2>1, <2>2 DEF Ev3Counters
  <1>20. Ev3Last'
    <2>1. ASSUME x # None, d # <<>> PROVE d[Len(d)] = x
      <3>1. Len(down) \in 1 .. Len(down)
        BY <1>3, <1>8, <2>1, Ev3Types, EmptySeq
      <3>2. down[Len(down)] = slot.asking
        BY <1>3, <1>8, <1>10, <2>1 DEF Ev3Inv, Ev3Last
      <3> QED
        BY <1>8, <1>10, <2>1, <3>1, <3>2
    <2>2. ASSUME x # None PROVE Ev3True(up[Len(up)].answer)'
      BY <1>10, <1>11, <2>2 DEF Ev3True
    <2> QED
      BY <1>1, <1>10, <1>11, <2>1, <2>2 DEF Ev3Last
  <1>21. Ev3Closed'
    BY <1>1, <1>3, <1>5, <1>8, <1>11 DEF Ev3Inv, Ev3Closed
  <1>22. Ev3Synced'
    BY <1>1, <1>12 DEF Ev3Inv, Ev3Synced
  <1>23. Ev3Promised
    <2>1. HE!Issue
      BY <1>1, <1>5 DEF HE!Issue
    <2> QED
      BY <2>1 DEF Ev3Promised, HE!Next
  <1> QED
    BY <1>14, <1>15, <1>16, <1>17, <1>18, <1>19, <1>20, <1>21, <1>22, <1>23
       DEF Ev3Keeps, Ev3Inv, Ev3Owners

LEMMA Ev3TimeOutKeeps ==
  ASSUME Ev3Bounded, Ev3Inv, E!TimeOut
  PROVE  Ev3Keeps
  <1>1. /\ call.phase = "waiting" /\ mishaps < MaxMishaps /\ mishaps' = mishaps + 1
        /\ call' = [call EXCEPT !.phase = "failed", !.now = None, !.todo = <<>>]
        /\ open' = open /\ link' = link /\ slot' = slot /\ queue' = queue /\ cache' = cache
        /\ down' = down /\ up' = up /\ hw' = hw /\ stale' = stale /\ ran' = ran
    BY Zenon DEF E!TimeOut, E!Mishap, E!brick
  <1>2. E!TypeOK /\ call \in Ev3CallType /\ <<>> \in Seq(E!Command) /\ mishaps \in 0 .. MaxMishaps
    BY Ev3Types DEF Ev3Inv
  <1>3. /\ call' \in Ev3CallType /\ call'.phase = "failed" /\ call'.todo = <<>>
        /\ call'.closing = call.closing
    BY <1>1, <1>2 DEF Ev3CallType, Ev3Phases
  <1>4. mishaps' \in 0 .. MaxMishaps
    BY <1>1, <1>2 DEF Ev3Bounded
  <1>5. E!TypeOK'
    BY <1>1, <1>2, <1>3, <1>4, Ev3Types, Ev3TypesTogether
  <1>6. Ev3Todo'
    BY <1>3 DEF Ev3Todo
  <1>7. Ev3Owners'
    <2>1. Ev3Moves /\ (Ev3Still => Ev3Still')
      BY <1>1, <1>3 DEF Ev3Moves, Ev3Still
    <2>2. Ev3Queued' /\ Ev3Unanswered'
      BY <1>1, <2>1, Ev3QueuedKept, Ev3UnansweredKept DEF Ev3Inv, Ev3Owners
    <2>3. Ev3AtWork'
      BY <1>3 DEF Ev3AtWork
    <2> QED
      BY <2>2, <2>3 DEF Ev3Owners
  <1>8. Ev3Counters'
    <2>1. Len(up) + Len(down) \in Nat
      BY <1>2, Ev3Types, LenProperties
    <2> QED
      BY <1>1, <1>2, <2>1 DEF Ev3Inv, Ev3Counters
  <1>9. Ev3Synced'
    BY <1>1 DEF Ev3Inv, Ev3Synced
  <1>10. Ev3Last'
    BY <1>1, <1>3 DEF Ev3Inv, Ev3Last, Ev3True
  <1>11. Ev3Closed'
    BY <1>1, <1>3 DEF Ev3Inv, Ev3Closed, Ev3Still
  <1>12. Ev3Promised
    BY <1>1, <1>2, <1>3, <1>5, Ev3StepsAre DEF Ev3Inv, Ev3Steps
  <1> QED
    BY <1>5, <1>6, <1>7, <1>8, <1>9, <1>10, <1>11, <1>12 DEF Ev3Keeps, Ev3Inv

----------------------------------------------------------------------------
(* The slot.                                                               *)

(* A slot that exists is the adapter's.                                    *)
LEMMA Ev3SlotOpen ==
  ASSUME Ev3Inv, slot # None
  PROVE  E!TypeOK /\ open /\ slot \in Ev3SlotType
  BY DEF Ev3Inv, Ev3Closed

(* What the answer to a command leaves as it is.                           *)
LEMMA Ev3ToldKeeps ==
  ASSUME Ev3Inv, NEW own, NEW ok, NEW t, Ev3Told(own, ok, t)
  PROVE  /\ Ev3Moves
         /\ call'.phase = "waiting" => call.phase = "waiting" /\ call' = call /\ ~own
         /\ call'.phase = "idle" => call.phase = "idle"
         /\ call'.phase = "ok" => (call.phase = "waiting" /\ own /\ ok) \/ (call.phase = "ok" /\ ran)
         /\ ~ok => cache' = cache
         /\ call.phase = "waiting" \/ (cache' = cache /\ call'.phase = call.phase)
  <1>1. CASE call' = call /\ cache' = cache /\ ~(own /\ call.phase = "waiting")
    BY <1>1 DEF Ev3Inv, Ev3Closed, Ev3Moves
  <1>2. CASE /\ own /\ call.phase = "waiting" /\ call'.phase \in {"ok", "failed"}
             /\ call'.phase = "ok" => ok
             /\ cache' = cache \/ (ok /\ cache' = t /\ t # None)
    BY <1>2 DEF Ev3Moves
  <1> QED
    BY <1>1, <1>2 DEF Ev3Told

Ev3Sent(op, S, own) ==
  /\ slot' \in Ev3SlotType /\ slot'.runs = slot.runs
  /\ slot'.asking \in E!Request /\ slot'.asking # None
  /\ slot'.asking.op = op /\ slot'.asking.ports = S /\ (slot'.asking.own <=> own)
  /\ down' \in Seq(E!Request) /\ down' = Append(down, slot'.asking)

(* A request is sent: it bears the next counter, and is the last.          *)
LEMMA Ev3SendIs ==
  ASSUME Ev3Bounded, Ev3Inv, slot # None, slot.asking = None,
         NEW op \in E!Asks \cup {"busy"}, NEW S \in SUBSET Ports, NEW own \in BOOLEAN,
         E!Send(E!Ask(op, S, own)), open' = open, up' = up, mishaps' = mishaps
  PROVE  Ev3Sent(op, S, own) /\ Ev3Counters' /\ Ev3Last'
  <1> DEFINE r == E!Ask(op, S, own)
  <1>1. E!TypeOK /\ open /\ slot \in Ev3SlotType
    BY Ev3SlotOpen
  <1>2. slot.rid \in 0 .. MaxRid
    BY <1>1 DEF Ev3SlotType
  <1> DEFINE next == (slot.rid % MaxRid) + 1
  <1>3. next \in 1 .. MaxRid /\ Ev3After(slot.rid, next)
    BY <1>2, Ev3NextCounter
  <1>4. r = [op |-> op, ports |-> S, own |-> own, rid |-> next]
    BY DEF E!Ask, E!NextCounter
  <1>0. slot' = [slot EXCEPT !.asking = r, !.rid = r.rid] /\ down' = Append(down, r)
    BY Zenon DEF E!Send
  <1> HIDE DEF next, r
  <1>5. r \in E!Request /\ r.op = op /\ r.ports = S /\ (r.own <=> own) /\ r.rid = next
    BY <1>3, <1>4 DEF E!Request
  <1>6. r # None
    BY <1>5 DEF Ev3Bounded
  <1>7. slot' = [slot EXCEPT !.asking = r, !.rid = r.rid] /\ down' = Append(down, r)
    BY <1>0
  <1>8. slot' \in Ev3SlotType /\ slot'.runs = slot.runs /\ slot'.asking = r /\ slot'.rid = r.rid
    <2>1. r.rid \in 0 .. MaxRid
      BY <1>5 DEF Ev3Bounded, E!Request
    <2> QED
      BY <1>1, <1>5, <1>7, <2>1 DEF Ev3SlotType
  <1>9. /\ down \in Seq(E!Request) /\ up \in Seq(Ev3Reply) /\ mishaps \in 0 .. MaxMishaps
        /\ Len(up) \in Nat /\ Len(down) \in Nat
    BY <1>1, Ev3Types, LenProperties
  <1>10. /\ down' \in Seq(E!Request) /\ Len(down') = Len(down) + 1
         /\ down'[Len(down) + 1] = r /\ down' # <<>>
    BY <1>5, <1>7, <1>9, AppendIs
  <1>11. Ev3Counters'
    <2>1. Ev3Numbered(up, down, slot.rid) /\ Len(up) + Len(down) <= mishaps
      BY <1>1, <1>9 DEF Ev3Inv, Ev3Counters
    <2>2. Len(up) + Len(down) <= MaxMishaps
      BY <1>9, <2>1 DEF Ev3Bounded
    <2>3. Ev3Numbered(up, Append(down, r), r.rid)
      BY <1>2, <1>3, <1>5, <1>9, <2>1, <2>2, Ev3NumbersSent
    <2>4. Len(up) + Len(down') <= mishaps + 1
      BY <1>9, <1>10, <2>1
    <2> QED
      BY <1>6, <1>7, <1>8, <2>3, <2>4 DEF Ev3Counters
  <1>12. Ev3Last'
    BY <1>8, <1>10 DEF Ev3Last
  <1> QED
    BY <1>5, <1>6, <1>7, <1>8, <1>10, <1>11, <1>12 DEF Ev3Sent

(* A request that the brick has yet to answer, one more.                   *)
LEMMA Ev3UnansweredMore ==
  ASSUME E!TypeOK, Ev3Unanswered, NEW r \in E!Request, down' = Append(down, r),
         call' = call, cache' = cache,
         r.own /\ r.op # "busy" => call.phase # "idle" /\ (r.op = "type" => cache = None)
  PROVE  Ev3Unanswered'
  <1>1. /\ Len(down') = Len(down) + 1 /\ Len(down) \in Nat
        /\ \A i \in 1 .. Len(down) : down'[i] = down[i]
        /\ down'[Len(down) + 1] = r
    BY Ev3Types, AppendIs
  <1>2. SUFFICES ASSUME NEW i \in 1 .. Len(down'), down'[i].own, down'[i].op # "busy"
        PROVE  call'.phase # "idle" /\ (down'[i].op = "type" => cache' = None)
    BY DEF Ev3Unanswered
  <1>3. i \in 1 .. Len(down) \/ i = Len(down) + 1
    BY <1>1
  <1>4. CASE i \in 1 .. Len(down)
    BY <1>1, <1>2, <1>4 DEF Ev3Unanswered
  <1>5. CASE i = Len(down) + 1
    BY <1>1, <1>2, <1>5
  <1> QED
    BY <1>3, <1>4, <1>5

(* A command is not written, for there is no transport.                    *)
LEMMA Ev3RefusedKeeps ==
  ASSUME Ev3Bounded, Ev3Inv, slot # None, slot.asking = None, queue # <<>>,
         queue' = Tail(queue), ~link, E!Answer(Head(queue).own, FALSE, None),
         slot' = slot, down' = down, up' = up, hw' = hw, stale' = stale, ran' = ran,
         open' = open, link' = link, mishaps' = mishaps
  PROVE  Ev3Keeps
  <1>1. E!TypeOK /\ open /\ slot \in Ev3SlotType
    BY Ev3SlotOpen
  <1>2. /\ Head(queue) \in E!Command /\ Tail(queue) \in Seq(E!Command)
        /\ Head(queue).own \in BOOLEAN
    <2>1. Head(queue) \in E!Command
      BY <1>1, Ev3HeadIs DEF Ev3Inv, Ev3Owners
    <2> QED
      BY <1>1, <2>1, Ev3Types, TailIs DEF E!Command
  <1>3. /\ call' \in Ev3CallType /\ call'.closing = call.closing
        /\ call'.todo = call.todo \/ call'.todo = <<>>
        /\ Ev3Told(Head(queue).own, FALSE, None)
    BY <1>1, <1>2, Ev3AnswerIs
  <1>4. /\ Ev3Moves /\ cache' = cache
        /\ call'.phase = "waiting" => call.phase = "waiting" /\ call' = call
        /\ call'.phase = "idle" => call.phase = "idle"
        /\ call'.phase = "ok" => ran
        /\ call.phase = "waiting" \/ call'.phase = call.phase
    BY <1>3, Ev3ToldKeeps
  <1>5. E!TypeOK'
    BY <1>1, <1>2, <1>3, <1>4, Ev3Types, Ev3TypesTogether
  <1>6. Ev3Todo'
    BY <1>3, <1>4, Ev3TodoKept DEF Ev3Inv
  <1>7. Ev3Owners'
    <2>1. Ev3Still => Ev3Still'
      BY DEF Ev3Still
    <2>2. Ev3Queued' /\ Ev3Unanswered'
      BY <1>1, <1>4, <2>1, Ev3QueuedTail, Ev3UnansweredKept DEF Ev3Inv, Ev3Owners
    <2>3. Ev3AtWork'
      <3>1. call'.phase = "waiting" => \A e \in slot.runs : ~e.own
        BY <1>1, <1>4, Ev3NoneAtWork DEF Ev3Inv, Ev3Owners
      <3> QED
        BY <3>1 DEF Ev3AtWork
    <2> QED
      BY <2>2, <2>3 DEF Ev3Owners
  <1>8. Ev3Counters' /\ Ev3Last' /\ Ev3Synced'
    BY <1>4 DEF Ev3Inv, Ev3Counters, Ev3Last, Ev3Synced
  <1>9. Ev3Closed'
    BY <1>1, <1>3, <1>4 DEF Ev3Inv, Ev3Closed, Ev3Still
  <1>10. Ev3Promised
    <2>1. Ev3Steps
      BY <1>4 DEF Ev3Moves, Ev3Steps, Ev3Inv, Ev3Closed
    <2> QED
      BY <1>1, <1>5, <2>1, Ev3StepsAre DEF Ev3Inv
  <1> QED
    BY <1>5, <1>6, <1>7, <1>8, <1>9, <1>10 DEF Ev3Keeps, Ev3Inv

(* A command that asks is sent.                                            *)
LEMMA Ev3AskKeeps ==
  ASSUME Ev3Bounded, Ev3Inv, slot # None, slot.asking = None, queue # <<>>,
         queue' = Tail(queue), link, Head(queue).op \in E!Asks,
         E!Send(E!Ask(Head(queue).op, Head(queue).ports, Head(queue).own)),
         call' = call, cache' = cache, up' = up, hw' = hw, stale' = stale, ran' = ran,
         open' = open, link' = link, mishaps' = mishaps
  PROVE  Ev3Keeps
  <1> DEFINE c == Head(queue)
             r == slot'.asking
  <1>1. E!TypeOK /\ open /\ slot \in Ev3SlotType
    BY Ev3SlotOpen
  <1>2. /\ c \in E!Command
        /\ c.own => /\ call.phase # "idle"
                    /\ c.op = "type" => cache = None
                    /\ call.phase = "waiting" => Tail(queue) = <<>>
    BY <1>1, Ev3HeadIs DEF Ev3Inv, Ev3Owners
  <1>3. Tail(queue) \in Seq(E!Command) /\ c.own \in BOOLEAN /\ c.ports \in SUBSET Ports
    BY <1>1, <1>2, Ev3Types, TailIs DEF E!Command
  <1>4. /\ r \in E!Request /\ r # None /\ r.op = c.op /\ r.ports = c.ports /\ (r.own <=> c.own)
        /\ slot' \in Ev3SlotType /\ slot'.runs = slot.runs /\ slot'.asking = r
        /\ down' \in Seq(E!Request) /\ down' = Append(down, r)
        /\ Ev3Counters' /\ Ev3Last'
    <2>1. c.op \in E!Asks \cup {"busy"}
      OBVIOUS
    <2>2. E!Send(E!Ask(c.op, c.ports, c.own))
      OBVIOUS
    <2>3. Ev3Sent(c.op, c.ports, c.own) /\ Ev3Counters' /\ Ev3Last'
      BY <1>3, <2>1, <2>2, Ev3SendIs
    <2> QED
      BY <2>3 DEF Ev3Sent
  <1>5. c.op # "busy"
    BY DEF E!Asks
  <1> HIDE DEF c, r
  <1>6. E!TypeOK'
    BY <1>1, <1>3, <1>4, Ev3Types, Ev3TypesTogether
  <1>7. Ev3Todo'
    BY Ev3TodoKept DEF Ev3Inv
  <1>8. Ev3Owners'
    <2>1. Ev3Still => Ev3Still'
      BY DEF Ev3Still
    <2>2. Ev3Queued'
      BY <1>1, <2>1, Ev3QueuedTail DEF Ev3Inv, Ev3Owners, Ev3Moves
    <2>3. Ev3Unanswered'
      BY <1>1, <1>2, <1>4, Ev3UnansweredMore DEF Ev3Inv, Ev3Owners
    <2>4. Ev3AtWork'
      <3>1. call.phase = "waiting" => \A e \in slot.runs : ~e.own
        BY <1>1, Ev3NoneAtWork DEF Ev3Inv, Ev3Owners
      <3> QED
        BY <1>2, <1>4, <1>5, <3>1 DEF Ev3AtWork
    <2> QED
      BY <2>2, <2>3, <2>4 DEF Ev3Owners
  <1>9. Ev3Synced'
    BY DEF Ev3Inv, Ev3Synced
  <1>10. Ev3Closed'
    BY <1>1, <1>4 DEF Ev3Inv, Ev3Closed, Ev3Still
  <1>11. Ev3Promised
    BY <1>1, <1>6, Ev3StepsAre DEF Ev3Inv, Ev3Steps
  <1> QED
    BY <1>4, <1>6, <1>7, <1>8, <1>9, <1>10, <1>11 DEF Ev3Keeps, Ev3Inv

(* A rotation or a timed run is started.                                   *)
LEMMA Ev3StartKeeps ==
  ASSUME Ev3Bounded, Ev3Inv, slot # None, slot.asking = None, queue # <<>>,
         queue' = Tail(queue), link, Head(queue).op = "step",
         slot' = [slot EXCEPT !.runs = slot.runs \cup {[ports |-> Head(queue).ports, own |-> Head(queue).own]}],
         hw' = [hw EXCEPT !.job = [p \in Ports |-> IF p \notin Head(queue).ports THEN hw.job[p]
                                                   ELSE IF Head(queue).own THEN "own" ELSE "old"]],
         call' = call, cache' = cache, down' = down, up' = up, ran' = ran, stale' = stale,
         open' = open, link' = link, mishaps' = mishaps
  PROVE  Ev3Keeps
  <1> DEFINE c == Head(queue)
             e == [ports |-> c.ports, own |-> c.own]
             f == [p \in Ports |-> IF p \notin c.ports THEN hw.job[p]
                                   ELSE IF c.own THEN "own" ELSE "old"]
  <1>1. E!TypeOK /\ open /\ slot \in Ev3SlotType
    BY Ev3SlotOpen
  <1>2. /\ c \in E!Command /\ c.ports # {}
        /\ c.own => /\ call.phase # "idle" /\ Ev3Still
                    /\ call.phase = "waiting" => Tail(queue) = <<>>
    BY <1>1, Ev3HeadIs DEF Ev3Inv, Ev3Owners
  <1>3. Tail(queue) \in Seq(E!Command) /\ c.own \in BOOLEAN /\ c.ports \in SUBSET Ports
    BY <1>1, <1>2, Ev3Types, TailIs DEF E!Command
  <1>4. e \in Ev3Run /\ e.ports = c.ports /\ (e.own <=> c.own)
    BY <1>3 DEF Ev3Run
  <1>5. hw \in Ev3HubType /\ hw.job \in [Ports -> E!Jobs]
    BY <1>1, Ev3Types DEF Ev3HubType
  <1>6. /\ f \in [Ports -> E!Jobs]
        /\ \A p \in Ports : f[p] = "own" => (c.own /\ p \in c.ports) \/ hw.job[p] = "own"
        /\ c.own => \A p \in c.ports : f[p] = "own"
    BY <1>3, <1>5 DEF E!Jobs
  <1>7. slot' = [slot EXCEPT !.runs = slot.runs \cup {e}] /\ hw' = [hw EXCEPT !.job = f]
    OBVIOUS
  <1> HIDE DEF c, e, f
  <1>8. hw' \in Ev3HubType /\ hw'.job = f /\ hw'.sensor = hw.sensor
    BY <1>5, <1>6, <1>7 DEF Ev3HubType
  <1>9. /\ slot' \in Ev3SlotType /\ slot'.runs = slot.runs \cup {e} /\ slot'.asking = None
        /\ slot'.rid = slot.rid
    BY <1>1, <1>4, <1>7 DEF Ev3SlotType
  <1>10. E!TypeOK'
    BY <1>1, <1>3, <1>8, <1>9, Ev3Types, Ev3TypesTogether
  <1>11. Ev3Todo'
    BY Ev3TodoKept DEF Ev3Inv
  <1>12. ~c.own => (Ev3Still => Ev3Still')
    BY <1>6, <1>8 DEF Ev3Still
  <1>13. Ev3Owners'
    <2>1. Ev3Queued'
      BY <1>1, <1>12, Ev3QueuedTail DEF Ev3Inv, Ev3Owners, Ev3Moves, c
    <2>2. Ev3Unanswered'
      BY Ev3UnansweredKept DEF Ev3Inv, Ev3Owners, Ev3Moves
    <2>3. Ev3AtWork'
      <3>1. SUFFICES ASSUME call.phase = "waiting", NEW x \in slot'.runs, x.own
            PROVE  queue' = <<>> /\ Ev3Ongoing(x.ports)'
        BY <1>9 DEF Ev3AtWork
      <3>2. \A y \in slot.runs : ~y.own
        BY <1>1, <3>1, Ev3NoneAtWork DEF Ev3Inv, Ev3Owners
      <3>3. x = e
        BY <1>9, <3>1, <3>2
      <3>4. c.own /\ x.ports = c.ports
        BY <1>4, <3>1, <3>3
      <3>5. queue' = <<>> /\ Ev3Still
        BY <1>2, <3>1, <3>4
      <3>6. \A p \in Ports : hw'.job[p] = "own" => p \in c.ports
        BY <1>6, <1>8, <3>5 DEF Ev3Still
      <3>7. \E p \in c.ports : hw'.job[p] = "own"
        BY <1>2, <1>6, <1>8, <3>4
      <3> QED
        BY <3>4, <3>5, <3>6, <3>7 DEF Ev3Ongoing
    <2> QED
      BY <2>1, <2>2, <2>3 DEF Ev3Owners
  <1>14. Ev3Counters'
    BY <1>9 DEF Ev3Inv, Ev3Counters
  <1>15. Ev3Last' /\ Ev3Synced'
    BY <1>8, <1>9 DEF Ev3Inv, Ev3Last, Ev3Synced
  <1>16. Ev3Closed'
    BY <1>1, <1>2, <1>9, <1>12 DEF Ev3Inv, Ev3Closed
  <1>17. Ev3Promised
    BY <1>1, <1>10, Ev3StepsAre DEF Ev3Inv, Ev3Steps
  <1> QED
    BY <1>10, <1>11, <1>13, <1>14, <1>15, <1>16, <1>17 DEF Ev3Keeps, Ev3Inv

(* A motor is switched on or off, or its counter cleared.                  *)
LEMMA Ev3SwitchKeeps ==
  ASSUME Ev3Bounded, Ev3Inv, slot # None, slot.asking = None, queue # <<>>,
         queue' = Tail(queue), link,
         hw' = [hw EXCEPT !.job = [p \in Ports |->
                  IF p \in Head(queue).ports /\ Head(queue).op = "on" THEN "on"
                  ELSE IF p \in Head(queue).ports /\ Head(queue).op = "off" THEN "idle" ELSE hw.job[p]]],
         ran' = (ran \/ Head(queue).own), E!Answer(Head(queue).own, TRUE, None),
         slot' = slot, down' = down, up' = up, stale' = stale,
         open' = open, link' = link, mishaps' = mishaps
  PROVE  Ev3Keeps
  <1> DEFINE c == Head(queue)
             f == [p \in Ports |-> IF p \in c.ports /\ c.op = "on" THEN "on"
                                   ELSE IF p \in c.ports /\ c.op = "off" THEN "idle" ELSE hw.job[p]]
  <1>1. E!TypeOK /\ open /\ slot \in Ev3SlotType
    BY Ev3SlotOpen
  <1>2. c \in E!Command /\ (c.own => call.phase # "idle")
    BY <1>1, Ev3HeadIs DEF Ev3Inv, Ev3Owners
  <1>3. Tail(queue) \in Seq(E!Command) /\ c.own \in BOOLEAN
    BY <1>1, <1>2, Ev3Types, TailIs DEF E!Command
  <1>4. ran \in BOOLEAN /\ ran' \in BOOLEAN /\ (ran' <=> ran \/ c.own)
    <2>1. ran \in BOOLEAN
      BY <1>1, Ev3Types
    <2> QED
      BY <1>3, <2>1, Zenon
  <1>5. hw \in Ev3HubType /\ hw.job \in [Ports -> E!Jobs]
    BY <1>1, Ev3Types DEF Ev3HubType
  <1>6. f \in [Ports -> E!Jobs] /\ \A p \in Ports : f[p] = "own" => hw.job[p] = "own"
    BY <1>5 DEF E!Jobs
  <1>7. hw' = [hw EXCEPT !.job = f]
    OBVIOUS
  <1>8. /\ call' \in Ev3CallType /\ call'.closing = call.closing
        /\ call'.todo = call.todo \/ call'.todo = <<>>
        /\ Ev3Told(c.own, TRUE, None)
    BY <1>1, <1>3, Ev3AnswerIs
  <1> HIDE DEF c, f
  <1>9. hw' \in Ev3HubType /\ hw'.job = f /\ hw'.sensor = hw.sensor
    BY <1>5, <1>6, <1>7 DEF Ev3HubType
  <1>10. /\ Ev3Moves
         /\ call'.phase = "waiting" => call.phase = "waiting" /\ call' = call
         /\ call'.phase = "idle" => call.phase = "idle"
         /\ call'.phase = "ok" => (call.phase = "waiting" /\ c.own) \/ (call.phase = "ok" /\ ran)
         /\ call.phase = "waiting" \/ call'.phase = call.phase
    <2>1. Ev3Told(c.own, TRUE, None)
      BY <1>8
    <2> QED
      BY <2>1 DEF Ev3Told, Ev3Moves, Ev3Inv, Ev3Closed
  <1>11. cache' = cache
    BY <1>8 DEF Ev3Told
  <1>12. E!TypeOK'
    BY <1>1, <1>3, <1>4, <1>8, <1>9, <1>11, Ev3Types, Ev3TypesTogether
  <1>13. Ev3Todo'
    BY <1>8, <1>10, <1>11, Ev3TodoKept DEF Ev3Inv
  <1>14. Ev3Still => Ev3Still'
    BY <1>6, <1>9 DEF Ev3Still
  <1>15. Ev3Owners'
    <2>1. Ev3Queued' /\ Ev3Unanswered'
      BY <1>1, <1>10, <1>11, <1>14, Ev3QueuedTail, Ev3UnansweredKept DEF Ev3Inv, Ev3Owners
    <2>2. Ev3AtWork'
      <3>1. call'.phase = "waiting" => \A e \in slot.runs : ~e.own
        BY <1>1, <1>10, Ev3NoneAtWork DEF Ev3Inv, Ev3Owners
      <3> QED
        BY <3>1 DEF Ev3AtWork
    <2> QED
      BY <2>1, <2>2 DEF Ev3Owners
  <1>16. Ev3Counters' /\ Ev3Last' /\ Ev3Synced'
    BY <1>9, <1>11 DEF Ev3Inv, Ev3Counters, Ev3Last, Ev3Synced
  <1>17. Ev3Closed'
    <2>1. call'.phase = "ok" => ran'
      BY <1>4, <1>10
    <2>2. /\ ~(~open) /\ ~(~open \/ ~link)
          /\ call'.closing => call'.phase # "waiting" /\ call'.todo = <<>>
      BY <1>1, <1>8, <1>10 DEF Ev3Inv, Ev3Closed
    <2>3. call'.phase = "idle" => Ev3Still'
      BY <1>10, <1>14 DEF Ev3Inv, Ev3Closed
    <2> QED
      BY <1>1, <2>1, <2>2, <2>3 DEF Ev3Closed
  <1>18. Ev3Promised
    <2>1. Ev3Steps
      BY <1>2, <1>4, <1>10 DEF Ev3Moves, Ev3Steps
    <2> QED
      BY <1>1, <1>12, <2>1, Ev3StepsAre DEF Ev3Inv
  <1> QED
    BY <1>12, <1>13, <1>15, <1>16, <1>17, <1>18 DEF Ev3Keeps, Ev3Inv

LEMMA Ev3ExecuteKeeps ==
  ASSUME Ev3Bounded, Ev3Inv, E!Execute
  PROVE  Ev3Keeps
  <1>1. /\ slot # None /\ slot.asking = None /\ queue # <<>> /\ queue' = Tail(queue)
        /\ open' = open /\ link' = link /\ mishaps' = mishaps
    BY Zenon DEF E!Execute
  <1>2. CASE /\ ~link /\ E!Answer(Head(queue).own, FALSE, None)
             /\ slot' = slot /\ down' = down /\ up' = up /\ hw' = hw /\ stale' = stale /\ ran' = ran
    BY <1>1, <1>2, Ev3RefusedKeeps
  <1>3. CASE /\ link /\ Head(queue).op \in E!Asks
             /\ E!Send(E!Ask(Head(queue).op, Head(queue).ports, Head(queue).own))
             /\ call' = call /\ cache' = cache /\ up' = up /\ hw' = hw /\ ran' = ran /\ stale' = stale
    BY <1>1, <1>3, Ev3AskKeeps
  <1>4. CASE /\ link /\ Head(queue).op = "step"
             /\ slot' = [slot EXCEPT !.runs = slot.runs \cup {[ports |-> Head(queue).ports, own |-> Head(queue).own]}]
             /\ hw' = [hw EXCEPT !.job = [p \in Ports |-> IF p \notin Head(queue).ports THEN hw.job[p]
                                                          ELSE IF Head(queue).own THEN "own" ELSE "old"]]
             /\ call' = call /\ cache' = cache /\ down' = down /\ up' = up /\ ran' = ran /\ stale' = stale
    BY <1>1, <1>4, Ev3StartKeeps
  <1>5. CASE /\ link
             /\ hw' = [hw EXCEPT !.job = [p \in Ports |->
                         IF p \in Head(queue).ports /\ Head(queue).op = "on" THEN "on"
                         ELSE IF p \in Head(queue).ports /\ Head(queue).op = "off" THEN "idle" ELSE hw.job[p]]]
             /\ ran' = (ran \/ Head(queue).own) /\ E!Answer(Head(queue).own, TRUE, None)
             /\ slot' = slot /\ down' = down /\ up' = up /\ stale' = stale
    BY <1>1, <1>5, Ev3SwitchKeeps
  <1> QED
    BY <1>2, <1>3, <1>4, <1>5, Zenon DEF E!Execute, E!brick

(* The brick is asked whether a run is over.                               *)
LEMMA Ev3AskBusyKeeps ==
  ASSUME Ev3Bounded, Ev3Inv, E!AskBusy
  PROVE  Ev3Keeps
  <1>1. /\ slot # None /\ slot.asking = None /\ queue' = queue
        /\ open' = open /\ link' = link /\ up' = up /\ hw' = hw /\ mishaps' = mishaps
        /\ ran' = ran /\ stale' = stale
    BY Zenon DEF E!AskBusy
  <1>2. PICK e \in slot.runs :
           IF link THEN E!Send(E!Ask("busy", e.ports, e.own)) /\ UNCHANGED <<call, cache>>
           ELSE /\ slot' = [slot EXCEPT !.runs = slot.runs \ {e}] /\ E!Answer(e.own, FALSE, None)
                /\ UNCHANGED down
    BY Zenon DEF E!AskBusy
  <1>3. E!TypeOK /\ open /\ slot \in Ev3SlotType
    BY <1>1, Ev3SlotOpen
  <1>4. e \in Ev3Run /\ e.own \in BOOLEAN /\ e.ports \in SUBSET Ports
    <2>1. e \in Ev3Run
      BY <1>3 DEF Ev3SlotType
    <2> QED
      BY <2>1 DEF Ev3Run
  <1>5. Ev3Still => Ev3Still'
    BY <1>1 DEF Ev3Still
  <1>6. CASE link
    <2>1. call' = call /\ cache' = cache /\ E!Send(E!Ask("busy", e.ports, e.own))
      BY <1>2, <1>6, Zenon
    <2>2. Ev3Sent("busy", e.ports, e.own) /\ Ev3Counters' /\ Ev3Last'
      BY <1>1, <1>4, <2>1, Ev3SendIs
    <2> DEFINE r == slot'.asking
    <2>3. /\ r \in E!Request /\ r # None /\ r.op = "busy" /\ r.ports = e.ports /\ (r.own <=> e.own)
          /\ slot' \in Ev3SlotType /\ slot'.runs = slot.runs /\ slot'.asking = r
          /\ down' \in Seq(E!Request) /\ down' = Append(down, r)
      BY <2>2 DEF Ev3Sent
    <2> HIDE DEF r
    <2>4. E!TypeOK'
      BY <1>1, <1>3, <2>1, <2>3, Ev3Types, Ev3TypesTogether
    <2>5. Ev3Todo'
      BY <2>1, Ev3TodoKept DEF Ev3Inv
    <2>6. Ev3Owners'
      <3>1. Ev3Queued'
        BY <1>1, <1>5, <2>1, Ev3QueuedKept DEF Ev3Inv, Ev3Owners, Ev3Moves
      <3>2. Ev3Unanswered'
        BY <1>3, <2>1, <2>3, Ev3UnansweredMore DEF Ev3Inv, Ev3Owners
      <3>3. Ev3AtWork'
        <4>1. ASSUME call.phase = "waiting", NEW x \in slot.runs, x.own
              PROVE  queue' = <<>> /\ Ev3Ongoing(x.ports)'
          <5>1. queue = <<>> /\ Ev3Ongoing(x.ports)
            BY <1>3, <4>1 DEF Ev3Inv, Ev3Owners, Ev3AtWork
          <5> QED
            BY <1>1, <5>1 DEF Ev3Ongoing
        <4>2. ASSUME call.phase = "waiting", r.own
              PROVE  queue' = <<>> /\ Ev3Ongoing(e.ports)'
          BY <2>3, <4>1, <4>2
        <4> QED
          BY <2>1, <2>3, <4>1, <4>2 DEF Ev3AtWork, Ev3Ongoing
      <3> QED
        BY <3>1, <3>2, <3>3 DEF Ev3Owners
    <2>7. Ev3Synced'
      BY <1>1, <2>1 DEF Ev3Inv, Ev3Synced
    <2>8. Ev3Closed'
      BY <1>1, <1>3, <1>5, <1>6, <2>1, <2>3 DEF Ev3Inv, Ev3Closed
    <2>9. Ev3Promised
      BY <1>1, <1>3, <2>1, <2>4, Ev3StepsAre DEF Ev3Inv, Ev3Steps
    <2> QED
      BY <2>2, <2>4, <2>5, <2>6, <2>7, <2>8, <2>9 DEF Ev3Keeps, Ev3Inv
  <1>7. CASE ~link
    <2> DEFINE R == slot.runs \ {e}
    <2>1. slot' = [slot EXCEPT !.runs = R] /\ E!Answer(e.own, FALSE, None) /\ down' = down
      BY <1>2, <1>7, Zenon
    <2>2. R \in SUBSET Ev3Run /\ R \in SUBSET slot.runs
      BY <1>3 DEF Ev3SlotType
    <2> HIDE DEF R
    <2>3. /\ slot' \in Ev3SlotType /\ slot'.runs = R /\ slot'.asking = None /\ slot'.rid = slot.rid
      BY <1>1, <1>3, <2>1, <2>2 DEF Ev3SlotType
    <2>4. /\ call' \in Ev3CallType /\ call'.closing = call.closing
          /\ call'.todo = call.todo \/ call'.todo = <<>>
          /\ Ev3Told(e.own, FALSE, None)
      BY <1>3, <1>4, <2>1, Ev3AnswerIs
    <2>5. /\ Ev3Moves /\ cache' = cache
          /\ call'.phase = "waiting" => call.phase = "waiting" /\ call' = call
          /\ call'.phase = "idle" => call.phase = "idle"
          /\ call'.phase = "ok" => ran
          /\ call.phase = "waiting" \/ call'.phase = call.phase
      BY <2>4, Ev3ToldKeeps
    <2>6. E!TypeOK'
      BY <1>1, <1>3, <2>1, <2>3, <2>4, <2>5, Ev3Types, Ev3TypesTogether
    <2>7. Ev3Todo'
      BY <2>4, <2>5, Ev3TodoKept DEF Ev3Inv
    <2>8. Ev3Owners'
      <3>1. Ev3Queued' /\ Ev3Unanswered'
        BY <1>1, <1>5, <2>1, <2>5, Ev3QueuedKept, Ev3UnansweredKept DEF Ev3Inv, Ev3Owners
      <3>2. Ev3AtWork'
        <4>1. ASSUME call.phase = "waiting", NEW x \in R, x.own
              PROVE  queue' = <<>> /\ Ev3Ongoing(x.ports)'
          <5>1. queue = <<>> /\ Ev3Ongoing(x.ports)
            BY <1>3, <2>2, <4>1 DEF Ev3Inv, Ev3Owners, Ev3AtWork
          <5> QED
            BY <1>1, <5>1 DEF Ev3Ongoing
        <4> QED
          BY <2>3, <2>5, <4>1 DEF Ev3AtWork
      <3> QED
        BY <3>1, <3>2 DEF Ev3Owners
    <2>9. Ev3Counters' /\ Ev3Last' /\ Ev3Synced'
      BY <1>1, <2>1, <2>3, <2>5 DEF Ev3Inv, Ev3Counters, Ev3Last, Ev3Synced
    <2>10. Ev3Closed'
      BY <1>1, <1>3, <1>5, <2>1, <2>3, <2>4, <2>5 DEF Ev3Inv, Ev3Closed
    <2>11. Ev3Promised
      <3>1. Ev3Steps
        BY <1>1, <2>5 DEF Ev3Moves, Ev3Steps, Ev3Inv, Ev3Closed
      <3> QED
        BY <1>3, <2>6, <3>1, Ev3StepsAre DEF Ev3Inv
    <2> QED
      BY <2>6, <2>7, <2>8, <2>9, <2>10, <2>11 DEF Ev3Keeps, Ev3Inv
  <1> QED
    BY <1>6, <1>7

(* The request that the slot waits in is over, with an answer or without;  *)
(* if with one, it is true, and the brick has no other to give.            *)
LEMMA Ev3ReturnKeeps ==
  ASSUME Ev3Bounded, Ev3Inv, slot # None, slot.asking # None,
         NEW ok \in BOOLEAN, NEW a, E!Return(slot.asking, ok, a),
         ok => Ev3True(a) /\ down = <<>>,
         up' \in Seq(Ev3Reply), ~link => up' = <<>>,
         Ev3Numbered(up', down, slot.rid), Len(up') + Len(down) <= mishaps',
         mishaps' \in 0 .. MaxMishaps,
         open' = open, link' = link, queue' = queue, down' = down, hw' = hw,
         ran' = ran, stale' = stale
  PROVE  Ev3Keeps
  <1> DEFINE r  == slot.asking
             e  == [ports |-> r.ports, own |-> r.own]
             on == r.op = "busy" /\ ok /\ a = TRUE
             o  == r.own /\ ~on
             t  == IF r.op = "type" THEN a ELSE None
             R  == IF r.op = "busy" /\ ~on THEN slot.runs \ {e} ELSE slot.runs
  <1>1. slot' = [slot EXCEPT !.asking = None, !.runs = R] /\ E!Answer(o, ok, t)
    BY Zenon DEF E!Return
  <1>2. E!TypeOK /\ open /\ slot \in Ev3SlotType
    BY Ev3SlotOpen
  <1>3. r \in E!Request /\ r.own \in BOOLEAN
    BY <1>2 DEF Ev3SlotType, E!Request
  <1>4. R \in SUBSET Ev3Run /\ R \in SUBSET slot.runs
    <2>1. slot.runs \in SUBSET Ev3Run
      BY <1>2 DEF Ev3SlotType
    <2>2. R = slot.runs \/ R = slot.runs \ {e}
      BY Zenon
    <2> HIDE DEF R
    <2> QED
      BY <2>1, <2>2
  <1>5. o \in BOOLEAN /\ (o => r.own)
    BY <1>3, Zenon
  <1>6. o /\ ok /\ call.phase = "waiting" => ran
    BY Zenon DEF Ev3True
  <1>7. r.own /\ ok /\ call.phase = "waiting" /\ t # None =>
          t \in Modes \cup {None} /\ (stale \/ t = hw.sensor)
    BY Zenon DEF Ev3True
  <1> HIDE DEF o, t, R, on, e
  <1>8. /\ slot' \in Ev3SlotType /\ slot'.runs = R /\ slot'.asking = None /\ slot'.rid = slot.rid
    BY <1>1, <1>2, <1>4 DEF Ev3SlotType
  <1>9. /\ call' \in Ev3CallType /\ call'.closing = call.closing
        /\ call'.todo = call.todo \/ call'.todo = <<>>
        /\ Ev3Told(o, ok, t)
    BY <1>1, <1>2, <1>5, Ev3AnswerIs
  <1>10. /\ Ev3Moves
         /\ call'.phase = "waiting" => call.phase = "waiting" /\ call' = call
         /\ call'.phase = "idle" => call.phase = "idle"
         /\ call'.phase = "ok" => (call.phase = "waiting" /\ o /\ ok) \/ (call.phase = "ok" /\ ran)
         /\ call.phase = "waiting" \/ (cache' = cache /\ call'.phase = call.phase)
    BY <1>9, Ev3ToldKeeps
  <1>11. \/ cache' = cache
         \/ /\ o /\ ok /\ call.phase = "waiting" /\ cache' = t /\ t # None
    BY <1>9 DEF Ev3Told
  <1>12. \/ cache' = cache
         \/ /\ queue = <<>> /\ down = <<>> /\ cache' \in Modes \cup {None}
            /\ stale \/ cache' = hw.sensor
    <2>1. ASSUME o, ok, call.phase = "waiting", cache' = t, t # None
          PROVE  /\ queue = <<>> /\ down = <<>> /\ cache' \in Modes \cup {None}
                 /\ stale \/ cache' = hw.sensor
      <3>1. queue = <<>>
        BY <1>2, <1>5, <2>1 DEF Ev3Inv, Ev3Owners, Ev3AtWork
      <3>2. t \in Modes \cup {None} /\ (stale \/ t = hw.sensor)
        BY <1>5, <1>7, <2>1, Zenon
      <3> QED
        BY <2>1, <3>1, <3>2
    <2> QED
      BY <1>11, <2>1
  <1>13. E!TypeOK'
    <2>1. cache' \in Modes \cup {None}
      BY <1>2, <1>12, Ev3Types
    <2> QED
      BY <1>2, <1>8, <1>9, <2>1, Ev3Types, Ev3TypesTogether
  <1>14. Ev3Todo'
    BY <1>9, <1>10, Ev3TodoKept DEF Ev3Inv
  <1>15. Ev3Still => Ev3Still'
    BY DEF Ev3Still
  <1>16. Ev3Owners'
    <2>1. Ev3Queued' /\ Ev3Unanswered'
      BY <1>10, <1>12, <1>15, Ev3QueuedKept, Ev3UnansweredKept DEF Ev3Inv, Ev3Owners
    <2>2. Ev3AtWork'
      <3>1. ASSUME call.phase = "waiting", NEW x \in R, x.own
            PROVE  queue' = <<>> /\ Ev3Ongoing(x.ports)'
        <4>1. queue = <<>> /\ Ev3Ongoing(x.ports)
          BY <1>2, <1>4, <3>1 DEF Ev3Inv, Ev3Owners, Ev3AtWork
        <4> QED
          BY <4>1 DEF Ev3Ongoing
      <3> QED
        BY <1>8, <1>10, <3>1 DEF Ev3AtWork
    <2> QED
      BY <2>1, <2>2 DEF Ev3Owners
  <1>17. Ev3Counters'
    <2>1. mishaps' + 0 = mishaps'
      BY DEF Ev3Bounded
    <2> QED
      BY <1>8, <2>1 DEF Ev3Counters
  <1>18. Ev3Last'
    BY <1>8 DEF Ev3Last
  <1>19. Ev3Synced'
    BY <1>12 DEF Ev3Inv, Ev3Synced
  <1>20. Ev3Closed'
    <2>1. call'.phase = "ok" => ran'
      BY <1>6, <1>10
    <2>2. call'.closing => call'.phase # "waiting" /\ call'.todo = <<>>
      BY <1>9, <1>10 DEF Ev3Inv, Ev3Closed
    <2>3. call'.phase = "idle" => Ev3Still'
      BY <1>10, <1>15 DEF Ev3Inv, Ev3Closed
    <2>4. ~open' \/ ~link' => up' = <<>> /\ down' = <<>>
      BY <1>2 DEF Ev3Inv, Ev3Closed
    <2> QED
      BY <1>2, <1>8, <2>1, <2>2, <2>3, <2>4 DEF Ev3Closed
  <1>21. Ev3Promised
    <2>1. Ev3Steps
      BY <1>6, <1>10 DEF Ev3Moves, Ev3Steps
    <2> QED
      BY <1>2, <1>13, <2>1, Ev3StepsAre DEF Ev3Inv
  <1> QED
    BY <1>13, <1>14, <1>16, <1>17, <1>18, <1>19, <1>20, <1>21 DEF Ev3Keeps, Ev3Inv

LEMMA Ev3ReceiveKeeps ==
  ASSUME Ev3Bounded, Ev3Inv, E!Receive
  PROVE  Ev3Keeps
  <1>1. /\ slot # None /\ slot.asking # None /\ up # <<>> /\ up' = Tail(up)
        /\ open' = open /\ link' = link /\ queue' = queue /\ down' = down /\ hw' = hw
        /\ mishaps' = mishaps /\ ran' = ran /\ stale' = stale
    BY Zenon DEF E!Receive
  <1>2. E!TypeOK /\ open /\ slot \in Ev3SlotType
    BY <1>1, Ev3SlotOpen
  <1>3. /\ Len(up) \in Nat \ {0} /\ Head(up) = up[1] /\ up[1] \in Ev3Reply
        /\ Tail(up) \in Seq(Ev3Reply) /\ Len(Tail(up)) = Len(up) - 1
        /\ \A i \in 1 .. Len(up) - 1 : i + 1 \in 1 .. Len(up) /\ Tail(up)[i] = up[i + 1]
    BY <1>1, <1>2, Ev3Types, TailIs
  <1>4. slot.rid \in 0 .. MaxRid /\ down \in Seq(E!Request) /\ Len(down) \in Nat
        /\ up \in Seq(Ev3Reply) /\ mishaps \in 0 .. MaxMishaps
    BY <1>2, Ev3Types, LenProperties DEF Ev3SlotType
  <1>5. /\ Ev3Numbered(up, down, slot.rid) /\ Len(up) + Len(down) <= mishaps + 1
        /\ slot.asking.rid = slot.rid
    BY <1>1, <1>2 DEF Ev3Inv, Ev3Counters
  <1>6. Ev3Numbered(up', down, slot.rid) /\ Len(up') + Len(down) = (Len(up) + Len(down)) - 1
    BY <1>1, <1>4, <1>5, Ev3NumbersTaken
  <1>7. Len(up') + Len(down) <= mishaps'
    <2> DEFINE n == Len(up) + Len(down)
    <2>1. n \in Nat /\ n <= mishaps + 1 /\ mishaps \in Int
      BY <1>3, <1>4, <1>5 DEF Ev3Bounded
    <2> HIDE DEF n
    <2>2. n - 1 <= mishaps
      BY <2>1
    <2> QED
      BY <1>1, <1>6, <2>2 DEF n
  <1>8. link
    BY <1>1, <1>2 DEF Ev3Inv, Ev3Closed
  <1>9. CASE E!Mine(Head(up))
    <2>1. E!Return(slot.asking, TRUE, Head(up).answer)
      BY <1>9, Zenon DEF E!Receive
    <2>2. Len(up) = 1 /\ down = <<>>
      <3>1. Head(up).rid = slot.rid
        BY <1>5, <1>9 DEF E!Mine
      <3>2. Len(up) + Len(down) <= MaxMishaps + 1
        BY <1>3, <1>4, <1>5 DEF Ev3Bounded
      <3> QED
        BY <1>1, <1>4, <1>5, <3>1, <3>2, Ev3NumbersMine
    <2>3. Ev3True(Head(up).answer)
      <3>1. Ev3True(up[Len(up)].answer)
        BY <1>1, <1>2, <2>2 DEF Ev3Inv, Ev3Last
      <3>2. up[Len(up)] = Head(up)
        BY <1>3, <2>2
      <3> QED
        BY <3>1, <3>2
    <2>4. up' \in Seq(Ev3Reply) /\ mishaps' \in 0 .. MaxMishaps
      BY <1>1, <1>3, <1>4
    <2> DEFINE a == Head(up).answer
    <2>5. E!Return(slot.asking, TRUE, a) /\ Ev3True(a)
      BY <2>1, <2>3
    <2> HIDE DEF a
    <2> QED
      BY <1>1, <1>6, <1>7, <1>8, <2>2, <2>4, <2>5, Ev3ReturnKeeps
  <1>10. CASE ~E!Mine(Head(up))
    <2>1. slot' = slot /\ call' = call /\ cache' = cache
      BY <1>10, Zenon DEF E!Receive
    <2>2. E!TypeOK'
      BY <1>1, <1>2, <1>3, <2>1, Ev3Types, Ev3TypesTogether
    <2>3. Ev3Todo'
      BY <2>1, Ev3TodoKept DEF Ev3Inv
    <2>4. Ev3Owners'
      <3>1. Ev3Moves /\ (Ev3Still => Ev3Still')
        BY <1>1, <2>1 DEF Ev3Moves, Ev3Still
      <3>2. Ev3Queued' /\ Ev3Unanswered'
        BY <1>1, <2>1, <3>1, Ev3QueuedKept, Ev3UnansweredKept DEF Ev3Inv, Ev3Owners
      <3>3. Ev3AtWork'
        BY <1>1, <2>1 DEF Ev3Inv, Ev3Owners, Ev3AtWork, Ev3Ongoing
      <3> QED
        BY <3>2, <3>3 DEF Ev3Owners
    <2>5. Ev3Counters'
      <3>1. Len(up') + Len(down) <= mishaps + 1
        BY <1>1, <1>4, <1>6, <1>3, <1>5
      <3> QED
        BY <1>1, <1>5, <1>6, <2>1, <3>1 DEF Ev3Counters
    <2>6. Ev3Last'
      <3>1. ASSUME down = <<>>, up' # <<>>
            PROVE  Ev3True(up[Len(up)].answer)'
        <4>1. Len(up') \in Nat \ {0} /\ Len(up') = Len(up) - 1
          BY <1>1, <1>3, <3>1, EmptySeq
        <4>2. up'[Len(up')] = up[Len(up)]
          <5>1. Len(up) - 1 \in 1 .. Len(up) - 1 /\ (Len(up) - 1) + 1 = Len(up)
            BY <1>3, <4>1
          <5>2. Tail(up)[Len(up) - 1] = up[Len(up)]
            BY <1>3, <5>1
          <5> QED
            BY <1>1, <4>1, <5>2
        <4>3. Ev3True(up[Len(up)].answer)
          BY <1>1, <1>2, <3>1 DEF Ev3Inv, Ev3Last
        <4> QED
          BY <1>1, <2>1, <4>2, <4>3, Zenon DEF Ev3True
      <3>2. ASSUME down # <<>>
            PROVE  down[Len(down)] = slot.asking
        BY <1>1, <1>2, <3>2 DEF Ev3Inv, Ev3Last
      <3> QED
        BY <1>1, <2>1, <3>1, <3>2 DEF Ev3Last
    <2>7. Ev3Closed' /\ Ev3Synced'
      BY <1>1, <1>2, <1>8, <2>1 DEF Ev3Inv, Ev3Closed, Ev3Synced, Ev3Still
    <2>8. Ev3Promised
      BY <1>1, <1>2, <2>1, <2>2, Ev3StepsAre DEF Ev3Inv, Ev3Steps
    <2> QED
      BY <2>2, <2>3, <2>4, <2>5, <2>6, <2>7, <2>8 DEF Ev3Keeps, Ev3Inv
  <1> QED
    BY <1>9, <1>10

LEMMA Ev3NoReplyKeeps ==
  ASSUME Ev3Bounded, Ev3Inv, E!NoReply
  PROVE  Ev3Keeps
  <1>1. /\ slot # None /\ slot.asking # None /\ E!Return(slot.asking, FALSE, None)
        /\ open' = open /\ link' = link /\ queue' = queue /\ down' = down /\ up' = up /\ hw' = hw
        /\ ran' = ran /\ stale' = stale
    BY Zenon DEF E!NoReply, E!brick
  <1>2. \/ ~link /\ mishaps' = mishaps
        \/ link /\ mishaps < MaxMishaps /\ mishaps' = mishaps + 1
    BY Zenon DEF E!NoReply, E!Mishap
  <1>3. E!TypeOK /\ open /\ slot \in Ev3SlotType
    BY <1>1, Ev3SlotOpen
  <1>4. /\ down \in Seq(E!Request) /\ Len(down) \in Nat
        /\ up \in Seq(Ev3Reply) /\ Len(up) \in Nat /\ mishaps \in 0 .. MaxMishaps
    BY <1>3, Ev3Types, LenProperties
  <1>5. /\ Ev3Numbered(up, down, slot.rid) /\ Len(up) + Len(down) <= mishaps + 1
    BY <1>1, <1>3 DEF Ev3Inv, Ev3Counters
  <1>6. ~link => up = <<>> /\ down = <<>>
    BY DEF Ev3Inv, Ev3Closed
  <1>7. mishaps' \in 0 .. MaxMishaps /\ Len(up) + Len(down) <= mishaps'
    <2>1. CASE ~link
      <3>1. Len(up) + Len(down) = 0
        BY <1>6, <2>1
      <3> QED
        BY <1>2, <1>4, <2>1, <3>1 DEF Ev3Bounded
    <2>2. CASE link
      BY <1>2, <1>4, <1>5, <2>2 DEF Ev3Bounded
    <2> QED
      BY <2>1, <2>2
  <1>8. FALSE \in BOOLEAN
    OBVIOUS
  <1> QED
    BY <1>1, <1>4, <1>5, <1>6, <1>7, <1>8, Ev3ReturnKeeps

----------------------------------------------------------------------------
(* The brick.                                                              *)

LEMMA Ev3ReplyKeeps ==
  ASSUME Ev3Bounded, Ev3Inv, E!Reply
  PROVE  Ev3Keeps
  <1> DEFINE r == Head(down)
             busy == \E p \in r.ports : hw.job[p] \in {"own", "old"}
             a == CASE r.op = "busy" -> busy
                    [] r.op = "type" -> hw.sensor
                    [] OTHER -> None
             f == [rid |-> r.rid, answer |-> a]
  <1>1. /\ link /\ down # <<>> /\ down' = Tail(down) /\ up' = Append(up, f)
        /\ ran' = (ran \/ (r.own /\ r.op \in E!Asks))
        /\ stale' = IF r.op = "type" /\ r.own THEN FALSE ELSE stale
        /\ call' = call /\ open' = open /\ link' = link /\ slot' = slot /\ queue' = queue
        /\ cache' = cache /\ hw' = hw /\ mishaps' = mishaps
    BY Zenon DEF E!Reply
  <1>2. E!TypeOK /\ open /\ slot \in Ev3SlotType
    BY <1>1 DEF Ev3Inv, Ev3Closed
  <1>3. /\ Len(down) \in Nat \ {0} /\ r = down[1] /\ r \in E!Request
        /\ Tail(down) \in Seq(E!Request) /\ Len(Tail(down)) = Len(down) - 1
        /\ \A i \in 1 .. Len(down) - 1 : i + 1 \in 1 .. Len(down) /\ Tail(down)[i] = down[i + 1]
    BY <1>1, <1>2, Ev3Types, TailIs
  <1>4. /\ r.own \in BOOLEAN /\ ran \in BOOLEAN /\ stale \in BOOLEAN /\ hw \in Ev3HubType
        /\ r.op \in E!Asks \cup {"busy"} /\ r.rid \in 1 .. MaxRid
    BY <1>2, <1>3, Ev3Types DEF E!Request
  <1>5. ran' \in BOOLEAN /\ (ran' <=> ran \/ (r.own /\ r.op \in E!Asks))
    BY <1>1, <1>4, Zenon
  <1>6. stale' \in BOOLEAN /\ (~(r.op = "type" /\ r.own) => (stale' <=> stale))
    BY <1>1, <1>4, Zenon
  <1>7. a \in E!Answers
    <2>1. r.op = "busy" => a = busy
      BY Zenon
    <2>2. r.op = "type" => a = hw.sensor
      <3>1. r.op = "type" => r.op # "busy"
        OBVIOUS
      <3> QED
        BY <3>1, Zenon
    <2>3. r.op # "busy" /\ r.op # "type" => a = None
      BY Zenon
    <2>4. busy \in BOOLEAN
      BY Zenon
    <2>5. hw.sensor \in Modes \cup {None}
      BY <1>4 DEF Ev3HubType
    <2> HIDE DEF a, busy
    <2>6. r.op = "busy" => a \in BOOLEAN
      BY <2>1, <2>4, Zenon
    <2>7. r.op # "busy" => a \in Modes \cup {None}
      BY <2>2, <2>3, <2>5, Zenon
    <2> QED
      BY <2>6, <2>7, Zenon DEF E!Answers
  <1>8. r.op = "type" => a = hw.sensor
    <2>1. r.op = "type" => r.op # "busy"
      OBVIOUS
    <2> QED
      BY <2>1, Zenon
  <1>9. r.op = "busy" /\ (\E p \in r.ports : hw.job[p] = "own") => a = TRUE
    <2>1. (\E p \in r.ports : hw.job[p] = "own") => busy
      OBVIOUS
    <2>2. r.op = "busy" => a = busy
      BY Zenon
    <2>3. busy \in BOOLEAN
      BY Zenon
    <2> HIDE DEF a, busy
    <2> QED
      BY <2>1, <2>2, <2>3, Zenon
  <1>10. f.rid = r.rid /\ f.answer = a
    OBVIOUS
  <1>11. f \in Ev3Reply
    BY <1>4, <1>7, <1>10 DEF Ev3Reply
  <1> HIDE DEF a, busy, f, r
  <1>12. /\ up \in Seq(Ev3Reply) /\ up' \in Seq(Ev3Reply) /\ Len(up') = Len(up) + 1 /\ Len(up) \in Nat
         /\ up'[Len(up) + 1] = f /\ up' # <<>>
    BY <1>1, <1>2, <1>11, Ev3Types, AppendIs
  <1>13. E!TypeOK'
    BY <1>1, <1>2, <1>3, <1>5, <1>6, <1>12, Ev3Types, Ev3TypesTogether
  <1>14. Ev3Todo'
    BY <1>1, Ev3TodoKept DEF Ev3Inv
  <1>15. r.own /\ r.op # "busy" => call.phase # "idle" /\ (r.op = "type" => cache = None)
    <2>1. 1 \in 1 .. Len(down)
      BY <1>3
    <2> QED
      BY <1>3, <2>1 DEF Ev3Inv, Ev3Owners, Ev3Unanswered
  <1>16. Ev3Owners'
    <2>1. Ev3Queued'
      <3>1. Ev3Moves /\ (Ev3Still => Ev3Still')
        BY <1>1 DEF Ev3Moves, Ev3Still
      <3> QED
        BY <1>1, <3>1, Ev3QueuedKept DEF Ev3Inv, Ev3Owners
    <2>2. Ev3Unanswered'
      BY <1>1, <1>3 DEF Ev3Inv, Ev3Owners, Ev3Unanswered
    <2>3. Ev3AtWork'
      <3>1. ASSUME NEW S, Ev3Ongoing(S) PROVE Ev3Ongoing(S)'
        BY <1>1, <1>5, <3>1 DEF Ev3Ongoing
      <3> QED
        BY <1>1, <3>1 DEF Ev3Inv, Ev3Owners, Ev3AtWork
    <2> QED
      BY <2>1, <2>2, <2>3 DEF Ev3Owners
  <1>17. Ev3Counters'
    <2>1. Ev3Numbered(up, down, slot.rid) /\ slot.rid \in 0 .. MaxRid /\ down \in Seq(E!Request)
      BY <1>2, Ev3Types DEF Ev3Inv, Ev3Counters, Ev3SlotType
    <2>2. f.rid = Head(down).rid
      BY <1>10 DEF r
    <2>3. Ev3Numbered(up', down', slot.rid) /\ Len(up') + Len(down') = Len(up) + Len(down)
      BY <1>1, <1>11, <1>12, <2>1, <2>2, Ev3NumbersAnswered
    <2> QED
      BY <1>1, <1>2, <2>3 DEF Ev3Inv, Ev3Counters
  <1>18. Ev3Last'
    <2>1. SUFFICES ASSUME slot.asking # None
          PROVE  IF down' # <<>> THEN down'[Len(down')] = slot.asking
                 ELSE up' # <<>> => Ev3True(up[Len(up)].answer)'
      BY <1>1 DEF Ev3Last
    <2>2. down[Len(down)] = slot.asking
      BY <1>1, <1>2, <2>1 DEF Ev3Inv, Ev3Last
    <2>3. CASE down' # <<>>
      <3>1. Len(down') \in Nat \ {0} /\ Len(down') = Len(down) - 1
        BY <1>1, <1>3, <2>3, EmptySeq
      <3>2. Len(down) - 1 \in 1 .. Len(down) - 1 /\ (Len(down) - 1) + 1 = Len(down)
        BY <1>3, <3>1
      <3>3. Tail(down)[Len(down) - 1] = down[Len(down)]
        BY <1>3, <3>2
      <3>4. down'[Len(down')] = slot.asking
        BY <1>1, <2>2, <3>1, <3>3
      <3> QED
        BY <2>3, <3>4
    <2>4. CASE down' = <<>>
      <3>1. Len(down) = 1
        BY <1>1, <1>3, <2>4
      <3>2. r = slot.asking
        BY <1>3, <2>2, <3>1
      <3>3. up'[Len(up')].answer = a
        BY <1>10, <1>12
      <3>4. ASSUME r.own, call.phase = "waiting"
            PROVE  ran' \/ (r.op = "busy" /\ a = TRUE)
        <4>1. CASE r.op = "busy"
          <5>1. ran \/ \E p \in r.ports : hw.job[p] = "own"
            BY <1>2, <2>1, <3>2, <3>4, <4>1 DEF Ev3Inv, Ev3Owners, Ev3AtWork, Ev3Ongoing
          <5> QED
            BY <1>5, <1>9, <4>1, <5>1, Zenon
        <4>2. CASE r.op # "busy"
          <5>1. r.op \in E!Asks
            BY <1>4, <4>2
          <5> QED
            BY <1>5, <3>4, <5>1
        <4> QED
          BY <4>1, <4>2
      <3>5. r.op = "type" => a \in Modes \cup {None} /\ a = hw.sensor
        BY <1>4, <1>8 DEF Ev3HubType
      <3>6. Ev3True(up[Len(up)].answer)'
        BY <1>1, <3>2, <3>3, <3>4, <3>5, Zenon DEF Ev3True
      <3> QED
        BY <2>4, <3>6
    <2> QED
      BY <2>3, <2>4
  <1>19. Ev3Synced'
    <2>1. cache # None => (stale' <=> stale)
      BY <1>6, <1>15
    <2> QED
      BY <1>1, <2>1 DEF Ev3Inv, Ev3Synced
  <1>20. Ev3Closed'
    BY <1>1, <1>2, <1>5 DEF Ev3Inv, Ev3Closed, Ev3Still
  <1>21. Ev3Promised
    <2>1. r.op \in E!Asks => r.op # "busy"
      BY DEF E!Asks
    <2>2. Ev3Steps
      BY <1>1, <1>5, <1>15, <2>1 DEF Ev3Steps
    <2> QED
      BY <1>2, <1>13, <2>2, Ev3StepsAre DEF Ev3Inv
  <1> QED
    BY <1>13, <1>14, <1>16, <1>17, <1>18, <1>19, <1>20, <1>21 DEF Ev3Keeps, Ev3Inv

LEMMA Ev3JobEndsKeeps ==
  ASSUME Ev3Bounded, Ev3Inv, E!JobEnds
  PROVE  Ev3Keeps
  <1>1. /\ call' = call /\ open' = open /\ link' = link /\ slot' = slot /\ queue' = queue
        /\ cache' = cache /\ down' = down /\ up' = up /\ mishaps' = mishaps /\ stale' = stale
    BY Zenon DEF E!JobEnds
  <1>2. PICK p \in Ports :
           /\ hw.job[p] \in {"own", "old"} /\ hw' = [hw EXCEPT !.job[p] = "idle"]
           /\ ran' = (ran \/ (hw.job[p] = "own" /\ \A q \in Ports : hw'.job[q] # "own"))
    BY Zenon DEF E!JobEnds
  <1>3. E!TypeOK /\ hw \in Ev3HubType /\ hw.job \in [Ports -> E!Jobs] /\ ran \in BOOLEAN
    BY Ev3Types DEF Ev3Inv, Ev3HubType
  <1>4. /\ hw' \in Ev3HubType /\ hw'.sensor = hw.sensor /\ hw'.job[p] = "idle"
        /\ \A q \in Ports : q # p => hw'.job[q] = hw.job[q]
    BY <1>2, <1>3 DEF Ev3HubType, E!Jobs
  <1>5. ran' \in BOOLEAN /\ (ran' <=> ran \/ (hw.job[p] = "own" /\ \A q \in Ports : hw'.job[q] # "own"))
    BY <1>2, <1>3, Zenon
  <1>6. Ev3Still => Ev3Still'
    BY <1>4 DEF Ev3Still
  <1>7. E!TypeOK'
    BY <1>1, <1>3, <1>4, <1>5, Ev3Types, Ev3TypesTogether
  <1>8. Ev3Todo'
    BY <1>1, Ev3TodoKept DEF Ev3Inv
  <1>9. Ev3Owners'
    <2>1. Ev3Queued' /\ Ev3Unanswered'
      BY <1>1, <1>6, Ev3QueuedKept, Ev3UnansweredKept DEF Ev3Inv, Ev3Owners, Ev3Moves
    <2>2. ASSUME NEW S \in SUBSET Ports, Ev3Ongoing(S)
          PROVE  Ev3Ongoing(S)'
      <3>1. CASE ran
        BY <1>5, <3>1 DEF Ev3Ongoing
      <3>2. CASE ~ran /\ \A q \in Ports : hw'.job[q] # "own"
        <4>1. PICK q \in S : hw.job[q] = "own"
          BY <2>2, <3>2 DEF Ev3Ongoing
        <4>2. q = p
          BY <1>4, <3>2, <4>1
        <4> QED
          BY <1>5, <3>2, <4>1, <4>2 DEF Ev3Ongoing
      <3>3. CASE ~ran /\ \E q \in Ports : hw'.job[q] = "own"
        <4>1. \A q \in Ports : hw'.job[q] = "own" => hw.job[q] = "own"
          BY <1>4
        <4>2. \A q \in Ports : hw.job[q] = "own" => q \in S
          BY <2>2, <3>3 DEF Ev3Ongoing
        <4> QED
          BY <3>3, <4>1, <4>2 DEF Ev3Ongoing
      <3> QED
        BY <3>1, <3>2, <3>3
    <2>3. /\ \A e \in slot.runs : open => e.ports \in SUBSET Ports
          /\ open /\ slot.asking # None => slot.asking.ports \in SUBSET Ports
      <3>1. open => slot \in Ev3SlotType
        BY DEF Ev3Inv, Ev3Closed
      <3>2. open => slot.runs \in SUBSET Ev3Run /\ slot.asking \in E!Request \cup {None}
        BY <3>1 DEF Ev3SlotType
      <3> QED
        BY <3>2 DEF Ev3Run, E!Request
    <2>4. Ev3AtWork'
      BY <1>1, <2>2, <2>3 DEF Ev3Inv, Ev3Owners, Ev3AtWork
    <2> QED
      BY <2>1, <2>4 DEF Ev3Owners
  <1>10. Ev3Counters' /\ Ev3Synced'
    BY <1>1, <1>4 DEF Ev3Inv, Ev3Counters, Ev3Synced
  <1>11. Ev3Last'
    <2>1. Ev3True(up[Len(up)].answer) => Ev3True(up[Len(up)].answer)'
      BY <1>1, <1>4, <1>5, Zenon DEF Ev3True
    <2> QED
      BY <1>1, <2>1 DEF Ev3Inv, Ev3Last
  <1>12. Ev3Closed'
    BY <1>1, <1>5, <1>6 DEF Ev3Inv, Ev3Closed
  <1>13. Ev3Promised
    <2>1. hw.job[p] = "own" => call.phase # "idle"
      BY DEF Ev3Inv, Ev3Closed, Ev3Still
    <2>2. Ev3Steps
      BY <1>1, <1>5, <2>1 DEF Ev3Steps
    <2> QED
      BY <1>3, <1>7, <2>2, Ev3StepsAre DEF Ev3Inv
  <1> QED
    BY <1>7, <1>8, <1>9, <1>10, <1>11, <1>12, <1>13 DEF Ev3Keeps, Ev3Inv

(* What happens around the calls: sensors are exchanged, the transport     *)
(* goes, with what was under way, and comes back.                          *)
LEMMA Ev3AroundKeeps ==
  ASSUME Ev3Bounded, Ev3Inv,
         E!Plug \/ E!LinkDrops \/ E!LinkReturns \/ UNCHANGED E!vars
  PROVE  Ev3Keeps
  <1>1. /\ call' = call /\ open' = open /\ slot' = slot /\ queue' = queue /\ cache' = cache /\ ran' = ran
        /\ mishaps' = mishaps \/ (mishaps < MaxMishaps /\ mishaps' = mishaps + 1)
    BY Zenon DEF E!Plug, E!LinkDrops, E!LinkReturns, E!vars, E!brick, E!Mishap
  <1>2. \/ down' = down /\ up' = up /\ (link' = link \/ ~open)
        \/ down' = <<>> /\ up' = <<>>
    BY Zenon DEF E!Plug, E!LinkDrops, E!LinkReturns, E!vars, E!brick
  <1>3. E!TypeOK /\ hw \in Ev3HubType /\ mishaps \in 0 .. MaxMishaps
    BY Ev3Types DEF Ev3Inv
  <1>4. /\ hw' \in Ev3HubType /\ hw'.job = hw.job /\ (stale' = TRUE \/ (stale' = stale /\ hw' = hw))
    <2>1. CASE E!Plug
      <3>1. PICK t \in Modes \cup {None} : hw' = [hw EXCEPT !.sensor = t]
        BY <2>1, Zenon DEF E!Plug
      <3>2. stale' = TRUE
        BY <2>1 DEF E!Plug
      <3> QED
        BY <1>3, <3>1, <3>2 DEF Ev3HubType
    <2>2. CASE E!LinkDrops \/ E!LinkReturns \/ UNCHANGED E!vars
      <3>1. hw' = hw /\ stale' = stale
        BY <2>2, Zenon DEF E!LinkDrops, E!LinkReturns, E!vars, E!brick
      <3> QED
        BY <1>3, <3>1
    <2> QED
      BY <2>1, <2>2
  <1>5. mishaps' \in 0 .. MaxMishaps /\ mishaps' \in Int /\ mishaps \in Int /\ mishaps <= mishaps'
    BY <1>1, <1>3 DEF Ev3Bounded
  <1>6. /\ link' \in BOOLEAN /\ stale' \in BOOLEAN
        /\ down' \in Seq(E!Request) /\ up' \in Seq(Ev3Reply)
    <2>1. link' \in BOOLEAN
      <3>1. link' = link \/ link' = TRUE \/ link' = FALSE
        BY Zenon DEF E!Plug, E!LinkDrops, E!LinkReturns, E!vars, E!brick
      <3> QED
        BY <1>3, <3>1, Ev3Types
    <2>2. stale \in BOOLEAN /\ down \in Seq(E!Request) /\ up \in Seq(Ev3Reply)
      BY <1>3, Ev3Types
    <2>3. <<>> \in Seq(E!Request) /\ <<>> \in Seq(Ev3Reply)
      OBVIOUS
    <2>4. stale' \in BOOLEAN
      BY <1>4, <2>2
    <2>5. down' \in Seq(E!Request) /\ up' \in Seq(Ev3Reply)
      BY <1>2, <2>2, <2>3, Zenon
    <2> QED
      BY <2>1, <2>4, <2>5
  <1>7. E!TypeOK'
    BY <1>1, <1>3, <1>4, <1>5, <1>6, Ev3Types, Ev3TypesTogether
  <1>8. Ev3Todo'
    BY <1>1, Ev3TodoKept DEF Ev3Inv
  <1>9. Ev3Still => Ev3Still'
    BY <1>4 DEF Ev3Still
  <1>10. Ev3Owners'
    <2>1. Ev3Queued'
      BY <1>1, <1>9, Ev3QueuedKept DEF Ev3Inv, Ev3Owners, Ev3Moves
    <2>2. Ev3Unanswered'
      <3>1. CASE down' = down
        BY <1>1, <3>1, Ev3UnansweredKept DEF Ev3Inv, Ev3Owners, Ev3Moves
      <3>2. CASE down' = <<>>
        BY <3>2 DEF Ev3Unanswered
      <3> QED
        BY <1>2, <3>1, <3>2
    <2>3. Ev3AtWork'
      <3>1. ASSUME NEW S, Ev3Ongoing(S) PROVE Ev3Ongoing(S)'
        BY <1>1, <1>4, <3>1 DEF Ev3Ongoing
      <3> QED
        BY <1>1, <3>1 DEF Ev3Inv, Ev3Owners, Ev3AtWork
    <2> QED
      BY <2>1, <2>2, <2>3 DEF Ev3Owners
  <1>11. Ev3Counters'
    <2>1. CASE down' = down /\ up' = up
      <3>1. Len(up) \in Nat /\ Len(down) \in Nat
        BY <1>3, Ev3Types, LenProperties
      <3> QED
        BY <1>1, <1>5, <2>1, <3>1 DEF Ev3Inv, Ev3Counters
    <2>2. CASE down' = <<>> /\ up' = <<>>
      <3>1. Ev3Numbered(<<>>, <<>>, slot.rid)
        BY DEF Ev3Numbered
      <3>2. Len(up') + Len(down') = 0
        BY <2>2
      <3>3. Len(up') + Len(down') <= mishaps' + (IF slot.asking = None THEN 0 ELSE 1)
        <4>1. 0 <= mishaps' + (IF slot.asking = None THEN 0 ELSE 1)
          <5>1. mishaps' \in Int /\ 0 <= mishaps'
            BY <1>5 DEF Ev3Bounded
          <5> DEFINE k == IF slot.asking = None THEN 0 ELSE 1
          <5>2. k \in Nat
            OBVIOUS
          <5> HIDE DEF k
          <5>3. \A m \in Int, n \in Nat : 0 <= m => 0 <= m + n
            OBVIOUS
          <5>4. 0 <= mishaps' + k
            BY <5>1, <5>2, <5>3, Zenon
          <5> QED
            BY <5>4 DEF k
        <4> QED
          BY <3>2, <4>1
      <3>4. Ev3Numbered(up', down', slot.rid)
        BY <2>2, <3>1
      <3> QED
        BY <1>1, <3>3, <3>4 DEF Ev3Inv, Ev3Counters
    <2> QED
      BY <1>2, <2>1, <2>2
  <1>12. Ev3Last'
    <2>1. CASE down' = <<>> /\ up' = <<>>
      BY <2>1 DEF Ev3Last
    <2>2. CASE down' = down /\ up' = up
      <3>1. Ev3True(up[Len(up)].answer) => Ev3True(up[Len(up)].answer)'
        BY <1>1, <1>4, <2>2, Zenon DEF Ev3True
      <3> QED
        BY <1>1, <2>2, <3>1 DEF Ev3Inv, Ev3Last
    <2> QED
      BY <1>2, <2>1, <2>2
  <1>13. Ev3Synced'
    BY <1>1, <1>4 DEF Ev3Inv, Ev3Synced
  <1>14. Ev3Closed'
    <2>1. ~open' \/ ~link' => up' = <<>> /\ down' = <<>>
      BY <1>1, <1>2 DEF Ev3Inv, Ev3Closed
    <2> QED
      BY <1>1, <1>9, <2>1 DEF Ev3Inv, Ev3Closed
  <1>15. Ev3Promised
    BY <1>1, <1>3, <1>7, Ev3StepsAre DEF Ev3Inv, Ev3Steps
  <1> QED
    BY <1>7, <1>8, <1>10, <1>11, <1>12, <1>13, <1>14, <1>15 DEF Ev3Keeps, Ev3Inv

LEMMA Ev3Begins ==
  ASSUME Ev3Bounded, E!Init
  PROVE  Ev3Inv
  <1>1. /\ call = [phase |-> "idle", todo |-> <<>>, now |-> None, closing |-> FALSE]
        /\ open = FALSE /\ link = TRUE /\ slot = None /\ queue = <<>>
        /\ cache = None /\ down = <<>> /\ up = <<>> /\ mishaps = 0 /\ ran = FALSE /\ stale = FALSE
    BY DEF E!Init, E!NoCall
  <1>2. PICK t \in Modes \cup {None} : hw = [job |-> [p \in Ports |-> "idle"], sensor |-> t]
    BY DEF E!Init
  <1>3. call \in Ev3CallType /\ call.phase = "idle" /\ call.todo = <<>> /\ ~call.closing
    <2>1. <<>> \in Seq(E!Command)
      OBVIOUS
    <2> QED
      BY <1>1, <2>1 DEF Ev3CallType, Ev3Phases
  <1>4. hw \in Ev3HubType /\ Ev3Still
    BY <1>2 DEF Ev3HubType, E!Jobs, Ev3Still
  <1>5. E!TypeOK
    <2>1. queue \in Seq(E!Command) /\ down \in Seq(E!Request) /\ up \in Seq(Ev3Reply)
      BY <1>1
    <2>2. mishaps \in 0 .. MaxMishaps
      BY <1>1 DEF Ev3Bounded
    <2> QED
      BY <1>1, <1>3, <1>4, <2>1, <2>2
         DEF E!TypeOK, Ev3CallType, Ev3HubType, Ev3Phases, Ev3Reply
  <1>6. Ev3Todo /\ Ev3Owners
    BY <1>1, <1>3 DEF Ev3Todo, Ev3Owners, Ev3Queued, Ev3Unanswered, Ev3AtWork
  <1>7. Ev3Counters /\ Ev3Last /\ Ev3Synced
    BY <1>1 DEF Ev3Counters, Ev3Last, Ev3Synced
  <1>8. Ev3Closed
    BY <1>1, <1>3, <1>4 DEF Ev3Closed
  <1> QED
    BY <1>5, <1>6, <1>7, <1>8 DEF Ev3Inv

LEMMA Ev3StepKeeps ==
  ASSUME Ev3Bounded, Ev3Inv, [E!Next]_E!vars
  PROVE  Ev3Keeps
  BY Ev3ConnectKeeps, Ev3DisconnectKeeps, Ev3CloseKeeps, Ev3BeginKeeps, Ev3IssueKeeps,
     Ev3TimeOutKeeps, Ev3ExecuteKeeps, Ev3AskBusyKeeps, Ev3ReceiveKeeps, Ev3NoReplyKeeps,
     Ev3ReplyKeeps, Ev3JobEndsKeeps, Ev3AroundKeeps, Zenon DEF E!Next, E!Tick

LEMMA Ev3Invariant ==
  ASSUME Ev3Bounded
  PROVE  E!Spec => []Ev3Inv
  <1>1. E!Init => Ev3Inv
    BY Ev3Begins
  <1>2. ASSUME Ev3Inv, [E!Next]_E!vars
        PROVE  Ev3Inv'
    BY <1>2, Ev3StepKeeps DEF Ev3Keeps
  <1> QED
    BY <1>1, <1>2, PTL DEF E!Spec

(* The EV3's state is well-formed, in particular the counters that it and  *)
(* the brick use (ev3.rs:57-64).                                           *)
THEOREM Ev3TypeCorrect ==
  ASSUME Ev3Bounded
  PROVE  E!Spec => []E!TypeOK
  <1>1. Ev3Inv => E!TypeOK
    BY DEF Ev3Inv
  <1> QED
    BY <1>1, Ev3Invariant, PTL

THEOREM Ev3CacheIsHub ==
  ASSUME Ev3Bounded
  PROVE  E!Spec => []E!CacheFollowsHub
  <1>1. Ev3Inv => E!CacheFollowsHub
    BY DEF Ev3Inv, Ev3Synced, E!CacheFollowsHub
  <1> QED
    BY <1>1, Ev3Invariant, PTL

THEOREM Ev3Implements ==
  ASSUME Ev3Bounded
  PROVE  E!Spec => HE!Spec
  <1>1. E!Init => HE!Init
    BY DEF E!Init, E!NoCall, HE!Init
  <1>2. ASSUME Ev3Inv, [E!Next]_E!vars
        PROVE  [HE!Next]_HE!vars
    BY <1>2, Ev3StepKeeps DEF Ev3Keeps, Ev3Promised
  <1> QED
    BY <1>1, <1>2, Ev3Invariant, PTL DEF E!Spec, HE!Spec

----------------------------------------------------------------------------
(* TC Logo Connect.                                                        *)
(*                                                                         *)
(* What the calls asked of an output is in the last queued command that    *)
(* names it or, when none does, in the slot; and a press is in the count   *)
(* or in a report nobody has read.                                         *)

(* A run has a bound on its mishaps.                                       *)
TcBounded == MaxMishaps \in Nat

(* The command issued last, while it is queued.                            *)
TcOwnPending ==
  \A i \in 1 .. Len(queue) : queue[i].own =>
    call.phase \in {"waiting", "failed"} /\ ~ran /\ ~misled

(* A caller that waits has its command in the queue.                       *)
TcWaitersQueue == call.phase = "waiting" => \E i \in 1 .. Len(queue) : queue[i].own

(* Where the duty that was asked of each output is.                        *)
TcNames(commands, i, p) == p \in DOMAIN commands[i].entries
TcLastFor(commands, i, p) ==
  TcNames(commands, i, p) /\ \A j \in 1 .. Len(commands) : TcNames(commands, j, p) => j <= i
TcAsked ==
  open => \A p \in Ports :
    IF \E i \in 1 .. Len(queue) : TcNames(queue, i, p)
    THEN \E i \in 1 .. Len(queue) : TcLastFor(queue, i, p) /\ hw.asked[p] = queue[i].entries[p]
    ELSE hw.asked[p] = slot[p]

(* The device has the duties of the tick that fed it last.                 *)
TcFed == open /\ link /\ hw.fed => hw.out = slot

(* The inputs as the device told them last; of an input that was not       *)
(* pressed when the device was opened also before it told anything.        *)
TcTold == IF up = <<>> THEN cache.input ELSE up[Len(up)]
TcKnown ==
  open /\ link =>
    /\ hw.told => TcTold = hw.pressed
    /\ \A p \in Ports \ raced : p \in TcTold <=> p \in hw.pressed

(* Every press is counted or will be.                                      *)
TcCounted ==
  open /\ link => \A p \in Ports \ raced : cache.counts[p] + TC!Counted(p) = hw.presses[p]

TcClosed == IF open THEN slot \in TC!Duties ELSE slot = None

TcInv ==
  TC!TypeOK /\ TcOwnPending /\ TcWaitersQueue /\ TcAsked /\ TcFed /\ TcKnown /\ TcCounted /\ TcClosed

TcEntries  == UNION {[S -> 0 .. 1] : S \in SUBSET Ports}
TcPhases   == {"idle", "waiting", "ok", "failed"}
TcCallType == [phase : TcPhases, todo : Seq(TcEntries), closing : BOOLEAN]
TcCacheType == [input : SUBSET Ports, counts : [Ports -> Nat]]
TcHubType  == [out : TC!Duties, fed : BOOLEAN, pressed : SUBSET Ports, told : BOOLEAN, asked : TC!Duties,
               presses : [Ports -> Nat]]

LEMMA TcCommands ==
  /\ {c.entries : c \in TC!Command} = TcEntries
  /\ \A c \in TC!Command : c.entries \in TcEntries /\ c.own \in BOOLEAN
  /\ \A e \in TcEntries, own \in BOOLEAN : [entries |-> e, own |-> own] \in TC!Command
  <1>1. TC!Command = [entries : TcEntries, own : BOOLEAN]
    BY DEF TC!Command, TcEntries
  <1>2. ASSUME NEW e \in TcEntries PROVE \E c \in TC!Command : c.entries = e
    <2>1. [entries |-> e, own |-> TRUE] \in TC!Command
      BY <1>1
    <2> QED
      BY <2>1
  <1> QED
    BY <1>1, <1>2

LEMMA TcTypes ==
  ASSUME TC!TypeOK
  PROVE  /\ call \in TcCallType /\ cache \in TcCacheType /\ hw \in TcHubType
         /\ queue \in Seq(TC!Command) /\ up \in Seq(SUBSET Ports)
         /\ open \in BOOLEAN /\ link \in BOOLEAN /\ ran \in BOOLEAN /\ misled \in BOOLEAN
         /\ slot \in TC!Duties \cup {None} /\ mishaps \in 0 .. MaxMishaps /\ raced \in SUBSET Ports
         /\ \A i \in 1 .. Len(queue) : queue[i] \in TC!Command
  BY TcCommands DEF TC!TypeOK, TC!Inputs, TcCallType, TcCacheType, TcHubType, TcPhases

LEMMA TcTypesTogether ==
  ASSUME call' \in TcCallType, cache' \in TcCacheType, hw' \in TcHubType,
         queue' \in Seq(TC!Command), up' \in Seq(SUBSET Ports),
         open' \in BOOLEAN, link' \in BOOLEAN, ran' \in BOOLEAN, misled' \in BOOLEAN,
         slot' \in TC!Duties \cup {None}, mishaps' \in 0 .. MaxMishaps, raced' \in SUBSET Ports
  PROVE  TC!TypeOK'
  BY TcCommands DEF TC!TypeOK, TC!Inputs, TcCallType, TcCacheType, TcHubType, TcPhases

(* What an output is asked for.                                            *)
LEMMA TcEntryType ==
  ASSUME NEW e \in TcEntries, NEW p \in DOMAIN e
  PROVE  e[p] \in 0 .. 1 /\ p \in Ports
  BY DEF TcEntries

LEMMA TcApplyType ==
  ASSUME NEW d \in TC!Duties, NEW e \in TcEntries
  PROVE  TC!Apply(d, e) \in TC!Duties
  BY TcEntryType DEF TC!Apply, TC!Duties

LEMMA TcOffType == TC!Off \in TC!Duties /\ TC!Off \in TcEntries /\ TC!Off \in [Ports -> Nat]
  BY DEF TC!Off, TC!Duties, TcEntries

LEMMA TcNoCall == TC!NoCall \in TcCallType /\ TC!NoCall.phase = "idle"
  BY DEF TC!NoCall, TcCallType, TcPhases

----------------------------------------------------------------------------
(* Presses in reports.                                                     *)

LEMMA TcCardinality ==
  ASSUME NEW S
  PROVE  TC!Cardinality(S) = Cardinality(S)
  BY Zenon DEF TC!Cardinality, Cardinality

LEMMA TcPressesType ==
  ASSUME NEW from, NEW masks \in Seq(SUBSET Ports), NEW p
  PROVE  TC!Presses(from, masks, p) \in Nat
  <1> DEFINE P == {i \in DOMAIN masks : p \in masks[i] /\ p \notin (IF i = 1 THEN from ELSE masks[i - 1])}
  <1>1. IsFiniteSet(1 .. Len(masks)) /\ P \subseteq 1 .. Len(masks)
    BY FS_Interval
  <1>2. Cardinality(P) \in Nat
    BY <1>1, FS_Subset, FS_CardinalityType
  <1> QED
    BY <1>2, TcCardinality DEF TC!Presses

LEMMA TcNoPresses ==
  ASSUME NEW from, NEW p
  PROVE  TC!Presses(from, <<>>, p) = 0
  <1>1. {i \in DOMAIN <<>> : p \in <<>>[i] /\ p \notin (IF i = 1 THEN from ELSE <<>>[i - 1])} = {}
    OBVIOUS
  <1> QED
    BY <1>1, TcCardinality, FS_EmptySet DEF TC!Presses

(* One more report tells of one more press, if the input was up before.    *)
LEMMA TcOneMorePress ==
  ASSUME NEW from, NEW masks \in Seq(SUBSET Ports), NEW now \in SUBSET Ports, NEW p
  PROVE  TC!Presses(from, Append(masks, now), p)
           = TC!Presses(from, masks, p)
             + (IF p \in now /\ p \notin (IF masks = <<>> THEN from ELSE masks[Len(masks)]) THEN 1 ELSE 0)
  <1> DEFINE n == Len(masks)
             more == Append(masks, now)
             P == {i \in DOMAIN masks : p \in masks[i] /\ p \notin (IF i = 1 THEN from ELSE masks[i - 1])}
             Q == {i \in DOMAIN more : p \in more[i] /\ p \notin (IF i = 1 THEN from ELSE more[i - 1])}
             new == p \in now /\ p \notin (IF masks = <<>> THEN from ELSE masks[n])
  <1>1. /\ n \in Nat /\ DOMAIN masks = 1 .. n /\ DOMAIN more = 1 .. n + 1
        /\ more[n + 1] = now /\ \A i \in 1 .. n : more[i] = masks[i]
        /\ masks = <<>> <=> n = 0
    OBVIOUS
  <1> HIDE DEF more, n
  <1>2. P \subseteq 1 .. n /\ Q \subseteq 1 .. n + 1
    BY <1>1
  <1>3. \A i \in 1 .. n : i \in Q <=> i \in P
    <2> TAKE i \in 1 .. n
    <2>1. more[i] = masks[i] /\ (i # 1 => more[i - 1] = masks[i - 1])
      BY <1>1
    <2> QED
      BY <1>1, <2>1
  <1>4. n + 1 \in Q <=> new
    BY <1>1
  <1>5. Q = IF new THEN P \cup {n + 1} ELSE P
    BY <1>1, <1>2, <1>3, <1>4
  <1>6. IsFiniteSet(P) /\ n + 1 \notin P
    <2> HIDE DEF P
    <2>1. IsFiniteSet(1 .. n)
      BY <1>1, FS_Interval
    <2>2. n + 1 \notin 1 .. n
      BY <1>1
    <2> QED
      BY <1>2, <2>1, <2>2, FS_Subset
  <1>7. Cardinality(Q) = Cardinality(P) + (IF new THEN 1 ELSE 0)
    <2> HIDE DEF P, Q, new
    <2>1. Cardinality(P) \in Nat /\ Cardinality(P \cup {n + 1}) = Cardinality(P) + 1
      BY <1>6, FS_CardinalityType, FS_AddElement
    <2> QED
      BY <1>5, <2>1
  <1> QED
    BY <1>7, TcCardinality DEF TC!Presses, more, n

----------------------------------------------------------------------------
(* The queue, with the command of a new call.                              *)
LEMMA TcIssued ==
  ASSUME TC!TypeOK, TC!Issue
  PROVE  /\ queue' \in Seq(TC!Command) /\ Len(queue') = Len(queue) + 1 /\ Len(queue) \in Nat
         /\ \A i \in 1 .. Len(queue) : queue'[i].entries = queue[i].entries /\ ~queue'[i].own
         /\ queue'[Len(queue) + 1].own /\ queue'[Len(queue) + 1].entries = Head(call.todo)
         /\ Head(call.todo) \in TcEntries /\ Tail(call.todo) \in Seq(TcEntries)
  <1> DEFINE n == Len(queue)
             disowned(i) == [queue[i] EXCEPT !.own = FALSE]
             older == [i \in DOMAIN queue |-> disowned(i)]
             new == [entries |-> Head(call.todo), own |-> TRUE]
  <1>1. /\ queue \in Seq(TC!Command) /\ n \in Nat /\ DOMAIN queue = 1 .. n
        /\ \A i \in 1 .. n : queue[i] \in TC!Command
    BY TcTypes
  <1>2. Head(call.todo) \in TcEntries /\ Tail(call.todo) \in Seq(TcEntries)
    BY TcTypes DEF TC!Issue, TcCallType
  <1>3. new \in TC!Command /\ new.own /\ new.entries = Head(call.todo)
    BY <1>2, TcCommands
  <1>4. \A i \in 1 .. n : /\ disowned(i) \in TC!Command /\ ~disowned(i).own
                          /\ disowned(i).entries = queue[i].entries
    BY <1>1 DEF TC!Command
  <1>5. queue' = Append(older, new)
    BY DEF TC!Issue
  <1> HIDE DEF disowned, new
  <1>6. /\ older \in Seq(TC!Command) /\ Len(older) = n
        /\ \A i \in 1 .. n : older[i] = disowned(i)
    BY <1>1, <1>4
  <1> HIDE DEF older
  <1>7. /\ queue' \in Seq(TC!Command) /\ Len(queue') = n + 1 /\ queue'[n + 1] = new
        /\ \A i \in 1 .. n : queue'[i] = disowned(i)
    BY <1>1, <1>3, <1>5, <1>6
  <1> QED
    BY <1>1, <1>2, <1>3, <1>4, <1>7

----------------------------------------------------------------------------
(* Each action keeps the invariant.                                        *)

LEMMA TcNothing == <<>> \in Seq(TC!Command) /\ <<>> \in Seq(SUBSET Ports) /\ <<>> \in Seq(TcEntries)
  OBVIOUS

TcOwners == TcOwnPending /\ TcWaitersQueue
TcDuties == TcAsked /\ TcFed
TcInputs == TcKnown /\ TcCounted

LEMMA TcInvParts ==
  /\ TcInv <=> TC!TypeOK /\ TcOwners /\ TcDuties /\ TcInputs /\ TcClosed
  /\ TcInv' <=> TC!TypeOK' /\ TcOwners' /\ TcDuties' /\ TcInputs' /\ TcClosed'
  BY Zenon DEF TcInv, TcOwners, TcDuties, TcInputs

LEMMA TcOwnersStay ==
  ASSUME TcOwners, UNCHANGED <<queue, ran, misled>>, call'.phase = call.phase
  PROVE  TcOwners'
  BY DEF TcOwners, TcOwnPending, TcWaitersQueue

LEMMA TcDutiesStay ==
  ASSUME TcDuties, UNCHANGED <<open, queue, slot>>, link' => link,
         hw'.asked = hw.asked, hw'.fed => hw.fed /\ hw'.out = hw.out
  PROVE  TcDuties'
  BY DEF TcDuties, TcAsked, TcFed, TcNames, TcLastFor

LEMMA TcInputsStay ==
  ASSUME TcInputs, UNCHANGED <<open, cache, raced>>, link' => link /\ up' = up,
         hw'.pressed = hw.pressed, hw'.told = hw.told, hw'.presses = hw.presses
  PROVE  TcInputs'
  BY DEF TcInputs, TcKnown, TcCounted, TcTold, TC!Counted

LEMMA TcMishap ==
  ASSUME TcBounded, TC!TypeOK, TC!Mishap
  PROVE  mishaps' \in 0 .. MaxMishaps
  BY DEF TcBounded, TC!TypeOK, TC!Mishap

LEMMA TcConnectKeeps ==
  ASSUME TcInv, TC!Connect
  PROVE  TcInv'
  <1> USE TcTypes, TcInvParts
  <1>1. hw' \in TcHubType /\ hw'.asked = TC!Off /\ ~hw'.told /\ ~hw'.fed /\ hw'.pressed = hw.pressed
        /\ hw'.presses = TC!Off
    BY TcOffType DEF TC!Connect, TcHubType
  <1>2. /\ open' = TRUE /\ slot' = TC!Off /\ queue' = <<>> /\ up' = <<>>
        /\ cache' = [input |-> {}, counts |-> TC!Off] /\ raced' = hw.pressed
        /\ call' = TC!NoCall /\ ran' = FALSE /\ misled' = FALSE /\ UNCHANGED <<link, mishaps>>
    BY DEF TC!Connect
  <1>3. cache' \in TcCacheType /\ cache'.input = {} /\ cache'.counts = TC!Off
    BY <1>2, TcOffType DEF TcCacheType
  <1>4. TC!TypeOK'
    BY <1>1, <1>2, <1>3, TcNothing, TcOffType, TcNoCall, TcTypesTogether DEF TcHubType
  <1>5. TcOwners'
    BY <1>2, TcNoCall DEF TcOwners, TcOwnPending, TcWaitersQueue
  <1>6. TcDuties'
    BY <1>1, <1>2 DEF TcDuties, TcAsked, TcFed
  <1>7. TcInputs'
    <2>1. TcKnown'
      BY <1>1, <1>2, <1>3 DEF TcKnown, TcTold
    <2>2. ASSUME NEW p \in Ports PROVE TC!Counted(p)' = 0 /\ cache'.counts[p] = 0 /\ hw'.presses[p] = 0
      BY <1>1, <1>2, <1>3, TcNoPresses DEF TC!Counted, TC!Off
    <2>3. TcCounted'
      BY <2>2 DEF TcCounted
    <2> QED
      BY <2>1, <2>3 DEF TcInputs
  <1>8. TcClosed'
    BY <1>2, TcOffType DEF TcClosed
  <1> QED
    BY <1>4, <1>5, <1>6, <1>7, <1>8

LEMMA TcCloseKeeps ==
  ASSUME TcInv, TC!Close
  PROVE  TcInv'
  <1>1. /\ open' = FALSE /\ slot' = None /\ queue' = <<>> /\ up' = <<>> /\ call' = TC!NoCall
        /\ ran' = FALSE /\ misled' = FALSE /\ UNCHANGED <<link, cache, hw, mishaps, raced>>
    BY DEF TC!Close
  <1>2. TC!TypeOK'
    BY <1>1, TcNothing, TcNoCall, TcTypes, TcInvParts, TcTypesTogether
  <1>3. TcOwners' /\ TcDuties' /\ TcInputs' /\ TcClosed'
    BY <1>1, TcNoCall DEF TcOwners, TcOwnPending, TcWaitersQueue, TcDuties, TcAsked, TcFed, TcInputs,
       TcKnown, TcCounted, TcClosed
  <1> QED
    BY <1>2, <1>3, TcInvParts

(* What a call is to send.                                                 *)
LEMMA TcBeginKeeps ==
  ASSUME TcInv, TC!Begin \/ TC!Disconnect
  PROVE  TcInv'
  <1> USE TcTypes, TcInvParts
  <1>1. call' \in TcCallType /\ call'.phase = call.phase
    <2>1. CASE TC!Begin
      <3>1. PICK S \in (SUBSET Ports) \ {{}} : \E f \in [S -> 0 .. 1], timed \in BOOLEAN :
              call' = [call EXCEPT !.todo = IF timed THEN <<f, TC!Zeros(S)>> ELSE <<f>>]
        BY <2>1 DEF TC!Begin
      <3>2. PICK f \in [S -> 0 .. 1], timed \in BOOLEAN :
              call' = [call EXCEPT !.todo = IF timed THEN <<f, TC!Zeros(S)>> ELSE <<f>>]
        BY <3>1
      <3>3. f \in TcEntries /\ TC!Zeros(S) \in TcEntries
        BY DEF TcEntries, TC!Zeros
      <3>4. <<f, TC!Zeros(S)>> \in Seq(TcEntries) /\ <<f>> \in Seq(TcEntries)
        BY <3>3
      <3> QED
        BY <3>2, <3>4 DEF TcCallType
    <2>2. CASE TC!Disconnect
      <3>1. <<TC!Off>> \in Seq(TcEntries)
        BY TcOffType
      <3> QED
        BY <2>2, <3>1 DEF TC!Disconnect, TcCallType
    <2> QED
      BY <2>1, <2>2
  <1>2. UNCHANGED <<open, link, slot, queue, cache, up, hw, mishaps, ran, misled, raced>>
    BY DEF TC!Begin, TC!Disconnect
  <1>3. TC!TypeOK'
    BY <1>1, <1>2, TcTypesTogether
  <1>4. TcOwners' /\ TcDuties' /\ TcInputs' /\ TcClosed'
    BY <1>1, <1>2, TcOwnersStay, TcDutiesStay, TcInputsStay DEF TcClosed
  <1> QED
    BY <1>3, <1>4

LEMMA TcIssueKeeps ==
  ASSUME TcInv, TC!Issue
  PROVE  TcInv'
  <1> USE TcTypes, TcInvParts
  <1> DEFINE n == Len(queue)
             new == Head(call.todo)
  <1>1. /\ n \in Nat /\ Len(queue') = n + 1
        /\ \A i \in 1 .. n : queue'[i].entries = queue[i].entries /\ ~queue'[i].own
        /\ queue'[n + 1].own /\ queue'[n + 1].entries = new
        /\ new \in TcEntries /\ queue' \in Seq(TC!Command) /\ Tail(call.todo) \in Seq(TcEntries)
    BY TcIssued
  <1>2. /\ call' = [call EXCEPT !.phase = "waiting", !.todo = Tail(@)] /\ ~ran' /\ ~misled'
        /\ ran' \in BOOLEAN /\ misled' \in BOOLEAN
        /\ hw' = [hw EXCEPT !.asked = TC!Apply(@, new)]
        /\ UNCHANGED <<open, link, slot, cache, up, mishaps, raced>>
    BY DEF TC!Issue
  <1> HIDE DEF n, new
  <1>3. call' \in TcCallType /\ call'.phase = "waiting"
    BY <1>1, <1>2 DEF TcCallType, TcPhases
  <1>4. /\ hw' \in TcHubType /\ hw'.asked = TC!Apply(hw.asked, new) /\ hw'.fed = hw.fed
        /\ hw'.out = hw.out /\ hw'.pressed = hw.pressed /\ hw'.told = hw.told /\ hw'.presses = hw.presses
    BY <1>1, <1>2, TcApplyType DEF TcHubType
  <1>5. TC!TypeOK'
    BY <1>1, <1>2, <1>3, <1>4, TcTypesTogether
  <1>6. TcOwners'
    <2>1. \A i \in 1 .. Len(queue') :
            queue'[i].own => call'.phase \in {"waiting", "failed"} /\ ~ran' /\ ~misled'
      BY <1>2, <1>3
    <2>2. n + 1 \in 1 .. Len(queue') /\ queue'[n + 1].own
      BY <1>1
    <2> QED
      BY <2>1, <2>2 DEF TcOwners, TcOwnPending, TcWaitersQueue
  <1>7. TcAsked'
    <2> SUFFICES ASSUME open, NEW p \in Ports
                 PROVE  IF \E i \in 1 .. Len(queue') : TcNames(queue', i, p)
                        THEN \E i \in 1 .. Len(queue') :
                               TcLastFor(queue', i, p) /\ hw'.asked[p] = queue'[i].entries[p]
                        ELSE hw'.asked[p] = slot[p]
      BY <1>2 DEF TcAsked, TcNames, TcLastFor
    <2>1. \A i \in 1 .. n : TcNames(queue', i, p) <=> TcNames(queue, i, p)
      BY <1>1 DEF TcNames
    <2>2. TcNames(queue', n + 1, p) <=> p \in DOMAIN new
      BY <1>1 DEF TcNames
    <2>3. 1 .. Len(queue') = (1 .. n) \cup {n + 1} /\ n + 1 \notin 1 .. n
      BY <1>1
    <2>4. CASE p \in DOMAIN new
      <3>1. hw'.asked[p] = new[p]
        BY <1>4, <2>4 DEF TC!Apply
      <3>2. TcLastFor(queue', n + 1, p)
        BY <1>1, <2>2, <2>4 DEF TcLastFor
      <3> QED
        BY <1>1, <2>2, <2>3, <2>4, <3>1, <3>2
    <2>5. CASE p \notin DOMAIN new
      <3>1. hw'.asked[p] = hw.asked[p]
        BY <1>4, <2>5 DEF TC!Apply
      <3>2. ASSUME NEW i \in 1 .. n, TcLastFor(queue, i, p), hw.asked[p] = queue[i].entries[p]
            PROVE  TcLastFor(queue', i, p) /\ hw'.asked[p] = queue'[i].entries[p]
        <4>1. hw'.asked[p] = queue'[i].entries[p]
          BY <1>1, <3>1, <3>2
        <4>2. \A j \in 1 .. Len(queue') : TcNames(queue', j, p) => j <= i
          BY <2>1, <2>2, <2>3, <2>5, <3>2 DEF TcLastFor, n
        <4> QED
          BY <2>1, <3>2, <4>1, <4>2 DEF TcLastFor
      <3>3. (\E i \in 1 .. Len(queue') : TcNames(queue', i, p)) <=> (\E i \in 1 .. n : TcNames(queue, i, p))
        BY <2>1, <2>2, <2>3, <2>5
      <3>4. IF \E i \in 1 .. n : TcNames(queue, i, p)
            THEN \E i \in 1 .. n : TcLastFor(queue, i, p) /\ hw.asked[p] = queue[i].entries[p]
            ELSE hw.asked[p] = slot[p]
        BY DEF TcDuties, TcAsked, n
      <3> QED
        BY <1>2, <2>3, <3>1, <3>2, <3>3, <3>4
    <2> QED
      BY <2>4, <2>5
  <1>8. TcFed'
    BY <1>2, <1>4 DEF TcDuties, TcFed
  <1>9. TcInputs' /\ TcClosed'
    BY <1>2, <1>4, TcInputsStay DEF TcClosed
  <1> QED
    BY <1>5, <1>6, <1>7, <1>8, <1>9 DEF TcDuties

LEMMA TcTimeOutKeeps ==
  ASSUME TcBounded, TcInv, TC!TimeOut
  PROVE  TcInv'
  <1> USE TcTypes, TcInvParts
  <1>1. call' = [call EXCEPT !.phase = "failed", !.todo = <<>>] /\ call.phase = "waiting"
    BY DEF TC!TimeOut
  <1>2. call' \in TcCallType /\ call'.phase = "failed"
    <2>1. <<>> \in Seq(TcEntries)
      OBVIOUS
    <2> QED
      BY <1>1, <2>1 DEF TcCallType, TcPhases
  <1>3. UNCHANGED <<open, link, slot, queue, cache, up, hw, ran, misled, raced>> /\ mishaps' \in 0 .. MaxMishaps
    BY TcMishap DEF TC!TimeOut
  <1>4. TC!TypeOK'
    BY <1>2, <1>3, TcTypesTogether
  <1>5. TcOwners'
    BY <1>2, <1>3 DEF TcOwners, TcOwnPending, TcWaitersQueue
  <1>6. TcDuties' /\ TcInputs' /\ TcClosed'
    BY <1>3, TcDutiesStay, TcInputsStay DEF TcClosed
  <1> QED
    BY <1>4, <1>5, <1>6

LEMMA TcResetKeeps ==
  ASSUME TcInv, TC!ResetCounter
  PROVE  TcInv'
  <1> USE TcTypes, TcInvParts
  <1>1. PICK p \in Ports : /\ cache' = [cache EXCEPT !.counts[p] = 0]
                           /\ hw' = [hw EXCEPT !.presses[p] = TC!Presses(cache.input, up, p)]
    BY DEF TC!ResetCounter
  <1>2. UNCHANGED <<call, open, link, slot, queue, up, mishaps, ran, misled, raced>>
    BY DEF TC!ResetCounter
  <1>3. /\ cache' \in TcCacheType /\ cache'.input = cache.input
        /\ \A q \in Ports : cache'.counts[q] = IF q = p THEN 0 ELSE cache.counts[q]
    BY <1>1 DEF TcCacheType
  <1>4. TC!Presses(cache.input, up, p) \in Nat
    BY TcPressesType
  <1>5. /\ hw' \in TcHubType /\ hw'.asked = hw.asked /\ hw'.fed = hw.fed /\ hw'.out = hw.out
        /\ hw'.pressed = hw.pressed /\ hw'.told = hw.told
        /\ \A q \in Ports : hw'.presses[q] = IF q = p THEN TC!Presses(cache.input, up, p) ELSE hw.presses[q]
    BY <1>1, <1>4 DEF TcHubType
  <1>6. TC!TypeOK'
    BY <1>2, <1>3, <1>5, TcTypesTogether
  <1>7. TcOwners' /\ TcDuties' /\ TcClosed'
    BY <1>2, <1>5, TcOwnersStay, TcDutiesStay DEF TcClosed
  <1>8. TcKnown'
    BY <1>2, <1>3, <1>5 DEF TcInputs, TcKnown, TcTold
  <1>9. TcCounted'
    <2> SUFFICES ASSUME open, link, NEW q \in Ports \ raced
                 PROVE  cache'.counts[q] + TC!Presses(cache.input, up, q) = hw'.presses[q]
      BY <1>2, <1>3 DEF TcCounted, TC!Counted
    <2>1. CASE q = p
      BY <1>3, <1>4, <1>5, <2>1
    <2>2. CASE q # p
      BY <1>3, <1>5, <2>2 DEF TcInputs, TcCounted, TC!Counted
    <2> QED
      BY <2>1, <2>2
  <1> QED
    BY <1>6, <1>7, <1>8, <1>9 DEF TcInputs

(* What a tick writes is what was asked.                                   *)
LEMMA TcNewDuties ==
  ASSUME TcInv, open
  PROVE  TC!NewDuties = hw.asked
  <1> USE TcTypes, TcInvParts
  <1>1. hw.asked \in TC!Duties /\ DOMAIN queue = 1 .. Len(queue) /\ Len(queue) \in Nat
    BY DEF TcHubType
  <1>2. ASSUME NEW p \in Ports PROVE TC!NewDuties[p] = hw.asked[p]
    <2> DEFINE naming == {i \in DOMAIN queue : p \in DOMAIN queue[i].entries}
    <2>1. TC!NewDuties[p] = IF naming = {} THEN slot[p] ELSE queue[TC!Max(naming)].entries[p]
      BY DEF TC!NewDuties
    <2>2. \A i \in 1 .. Len(queue) : i \in naming <=> TcNames(queue, i, p)
      BY <1>1 DEF TcNames
    <2>3. naming \subseteq 1 .. Len(queue)
      BY <1>1
    <2> HIDE DEF naming
    <2>4. IF \E i \in 1 .. Len(queue) : TcNames(queue, i, p)
          THEN \E i \in 1 .. Len(queue) : TcLastFor(queue, i, p) /\ hw.asked[p] = queue[i].entries[p]
          ELSE hw.asked[p] = slot[p]
      BY DEF TcDuties, TcAsked
    <2>5. ASSUME NEW i \in 1 .. Len(queue), TcLastFor(queue, i, p)
          PROVE  naming # {} /\ TC!Max(naming) = i
      <3>1. i \in naming /\ \A j \in naming : j <= i
        BY <2>2, <2>3, <2>5 DEF TcLastFor
      <3>2. \A x \in naming : x \in Int
        BY <1>1, <2>3
      <3>3. ASSUME NEW x \in naming, \A y \in naming : x >= y
            PROVE  x = i
        BY <3>1, <3>2, <3>3
      <3>4. \E x \in naming : \A y \in naming : x >= y
        BY <3>1, <3>2
      <3> QED
        BY <3>1, <3>3, <3>4 DEF TC!Max
    <2> QED
      BY <2>1, <2>2, <2>3, <2>4, <2>5
  <1>3. TC!NewDuties = [p \in Ports |-> TC!NewDuties[p]]
    BY DEF TC!NewDuties
  <1>4. hw.asked = [p \in Ports |-> hw.asked[p]]
    BY <1>1 DEF TC!Duties
  <1> QED
    BY <1>2, <1>3, <1>4

(* What a tick makes of the caller's command.                              *)
TcAnswered == \E i \in DOMAIN queue : queue[i].own
LEMMA TcTicked ==
  ASSUME TcInv, TC!Tick
  PROVE  /\ call' \in TcCallType
         /\ call'.phase = IF TcAnswered /\ call.phase = "waiting" THEN "ok" ELSE call.phase
         /\ ran' <=> ran \/ (TcAnswered /\ link)
         /\ misled' <=> misled \/ (TcAnswered /\ ~link)
         /\ ran' \in BOOLEAN /\ misled' \in BOOLEAN
  <1> USE TcTypes, TcInvParts
  <1>1. /\ call' = IF TcAnswered /\ call.phase = "waiting" THEN [call EXCEPT !.phase = "ok"] ELSE call
        /\ ran' = (ran \/ (TcAnswered /\ link)) /\ misled' = (misled \/ (TcAnswered /\ ~link))
    BY Zenon DEF TC!Tick, TcAnswered
  <1>2. [call EXCEPT !.phase = "ok"] \in TcCallType /\ [call EXCEPT !.phase = "ok"].phase = "ok"
    BY DEF TcCallType, TcPhases
  <1> QED
    BY <1>1, <1>2

LEMMA TcTickKeeps ==
  ASSUME TcInv, TC!Tick
  PROVE  TcInv'
  <1> USE TcTypes, TcInvParts
  <1>1. /\ open /\ slot' = TC!NewDuties /\ queue' = <<>> /\ up' = <<>>
        /\ hw' = IF link THEN [hw EXCEPT !.out = TC!NewDuties, !.fed = TRUE] ELSE hw
        /\ cache' = IF up = <<>> THEN cache
                    ELSE [input |-> TC!Last(up), counts |-> [p \in Ports |-> cache.counts[p] + TC!Counted(p)]]
        /\ UNCHANGED <<open, link, mishaps, raced>>
    BY DEF TC!Tick, TcClosed
  <1>2. TC!NewDuties = hw.asked /\ hw.asked \in TC!Duties
    BY <1>1, TcNewDuties DEF TcHubType
  <1>3. /\ hw' \in TcHubType /\ hw'.asked = hw.asked /\ hw'.pressed = hw.pressed /\ hw'.told = hw.told
        /\ hw'.presses = hw.presses /\ (link => hw'.out = hw.asked)
    BY <1>1, <1>2 DEF TcHubType
  <1>4. /\ cache' \in TcCacheType /\ cache'.input = TcTold
        /\ \A p \in Ports : cache'.counts[p] = cache.counts[p] + TC!Counted(p)
    <2>1. \A p \in Ports : TC!Counted(p) \in Nat /\ cache.counts[p] \in Nat
      BY TcPressesType DEF TC!Counted, TcCacheType
    <2>2. CASE up = <<>>
      <3>1. \A p \in Ports : TC!Counted(p) = 0
        BY <2>2, TcNoPresses DEF TC!Counted
      <3> QED
        BY <1>1, <2>1, <2>2, <3>1 DEF TcTold
    <2>3. CASE up # <<>>
      <3>1. up[Len(up)] \in SUBSET Ports /\ TC!Last(up) = up[Len(up)]
        BY <2>3 DEF TC!Last
      <3> DEFINE new == [p \in Ports |-> cache.counts[p] + TC!Counted(p)]
      <3>2. new \in [Ports -> Nat] /\ \A p \in Ports : new[p] = cache.counts[p] + TC!Counted(p)
        BY <2>1
      <3>3. cache' = [input |-> up[Len(up)], counts |-> new]
        BY <1>1, <2>3, <3>1
      <3> HIDE DEF new
      <3> QED
        BY <2>3, <3>1, <3>2, <3>3 DEF TcTold, TcCacheType
    <2> QED
      BY <2>2, <2>3
  <1>5. TC!TypeOK'
    BY <1>1, <1>2, <1>3, <1>4, TcNothing, TcTicked, TcTypesTogether
  <1>6. TcOwners'
    <2>1. call'.phase # "waiting"
      BY TcTicked DEF TcOwners, TcWaitersQueue, TcAnswered
    <2> QED
      BY <1>1, <2>1 DEF TcOwners, TcOwnPending, TcWaitersQueue
  <1>7. TcDuties'
    BY <1>1, <1>2, <1>3 DEF TcDuties, TcAsked, TcFed
  <1>8. TcInputs'
    <2>1. TcTold' = TcTold
      BY <1>1, <1>4 DEF TcTold
    <2>2. TcKnown'
      BY <1>1, <1>3, <2>1 DEF TcInputs, TcKnown
    <2>3. \A p \in Ports : TC!Counted(p)' = 0 /\ cache'.counts[p] \in Nat
      BY <1>1, <1>4, TcNoPresses DEF TC!Counted, TcCacheType
    <2>4. TcCounted'
      BY <1>1, <1>3, <1>4, <2>3 DEF TcInputs, TcCounted
    <2> QED
      BY <2>2, <2>4 DEF TcInputs
  <1>9. TcClosed'
    BY <1>1, <1>2 DEF TcClosed
  <1> QED
    BY <1>5, <1>6, <1>7, <1>8, <1>9

LEMMA TcPressKeeps ==
  ASSUME TcBounded, TcInv, TC!Press
  PROVE  TcInv'
  <1> USE TcTypes, TcInvParts
  <1> DEFINE toggled(p) == (hw.pressed \cup {p}) \ (hw.pressed \cap {p})
  <1>1. PICK p \in Ports :
          /\ hw' = [hw EXCEPT !.pressed = toggled(p), !.told = TRUE,
                              !.presses[p] = IF p \in toggled(p) THEN @ + 1 ELSE @]
          /\ up' = Append(up, toggled(p))
    BY DEF TC!Press
  <1> DEFINE now == toggled(p)
  <1>2. /\ open /\ link /\ mishaps' \in 0 .. MaxMishaps
        /\ UNCHANGED <<call, open, link, slot, queue, cache, ran, misled, raced>>
    BY TcMishap DEF TC!Press
  <1>3. /\ now \in SUBSET Ports
        /\ \A q \in Ports : q \in now <=> IF q = p THEN q \notin hw.pressed ELSE q \in hw.pressed
    BY DEF TcHubType
  <1> HIDE DEF toggled
  <1>4. /\ hw' \in TcHubType /\ hw'.asked = hw.asked /\ hw'.fed = hw.fed /\ hw'.out = hw.out
        /\ hw'.pressed = now /\ hw'.told
        /\ \A q \in Ports : hw'.presses[q] = IF q = p /\ q \in now THEN hw.presses[q] + 1 ELSE hw.presses[q]
    <2> DEFINE counts == [hw.presses EXCEPT ![p] = IF p \in now THEN @ + 1 ELSE @]
    <2>1. hw' = [hw EXCEPT !.pressed = now, !.told = TRUE, !.presses = counts]
      BY <1>1 DEF TcHubType
    <2>2. /\ counts \in [Ports -> Nat]
          /\ \A q \in Ports : counts[q] = IF q = p /\ q \in now THEN hw.presses[q] + 1 ELSE hw.presses[q]
      BY DEF TcHubType
    <2> HIDE DEF counts, now
    <2> QED
      BY <1>3, <2>1, <2>2 DEF TcHubType
  <1> HIDE DEF now
  <1>5. up' \in Seq(SUBSET Ports) /\ up' # <<>> /\ up'[Len(up')] = now /\ up' = Append(up, now)
    BY <1>1, <1>3 DEF now
  <1>6. TC!TypeOK'
    BY <1>2, <1>4, <1>5, TcTypesTogether
  <1>7. TcOwners' /\ TcDuties' /\ TcClosed'
    BY <1>2, <1>4, TcOwnersStay, TcDutiesStay DEF TcClosed
  <1>8. TcKnown'
    BY <1>2, <1>4, <1>5 DEF TcKnown, TcTold
  <1>9. TcCounted'
    <2> SUFFICES ASSUME NEW q \in Ports \ raced
                 PROVE  cache.counts[q] + TC!Presses(cache.input, up', q) = hw'.presses[q]
      BY <1>2 DEF TcCounted, TC!Counted
    <2>1. TC!Presses(cache.input, up', q)
            = TC!Presses(cache.input, up, q) + (IF q \in now /\ q \notin TcTold THEN 1 ELSE 0)
      BY <1>3, <1>5, TcOneMorePress DEF TcTold
    <2>2. /\ cache.counts[q] + TC!Presses(cache.input, up, q) = hw.presses[q]
          /\ q \in TcTold <=> q \in hw.pressed
      BY <1>2 DEF TcInputs, TcKnown, TcCounted, TC!Counted
    <2>3. q \in now /\ q \notin TcTold <=> q = p /\ q \in now
      BY <1>3, <2>2
    <2>4. TC!Presses(cache.input, up, q) \in Nat /\ cache.counts[q] \in Nat
      BY TcPressesType DEF TcCacheType
    <2> QED
      BY <1>4, <2>1, <2>2, <2>3, <2>4
  <1> QED
    BY <1>6, <1>7, <1>8, <1>9 DEF TcInputs

LEMMA TcLinkKeeps ==
  ASSUME TcBounded, TcInv, TC!Watchdog \/ TC!LinkDrops \/ TC!LinkReturns
  PROVE  TcInv'
  <1> USE TcTypes, TcInvParts
  <1>1. /\ UNCHANGED <<call, open, slot, queue, cache, ran, misled, raced>> /\ mishaps' \in 0 .. MaxMishaps
        /\ link' \in BOOLEAN
    BY TcMishap DEF TC!Watchdog, TC!LinkDrops, TC!LinkReturns
  <1>2. /\ hw' \in TcHubType /\ hw'.asked = hw.asked /\ (hw'.fed => hw.fed /\ hw'.out = hw.out)
        /\ hw'.pressed = hw.pressed /\ hw'.told = hw.told /\ hw'.presses = hw.presses
    BY TcOffType DEF TC!Watchdog, TC!LinkDrops, TC!LinkReturns, TcHubType
  <1>3. up' = up \/ up' = <<>>
    BY DEF TC!Watchdog, TC!LinkDrops, TC!LinkReturns
  <1>4. TC!TypeOK'
    BY <1>1, <1>2, <1>3, TcNothing, TcTypesTogether
  <1>5. TcOwners' /\ TcClosed'
    BY <1>1, TcOwnersStay DEF TcClosed
  <1>6. CASE TC!LinkReturns
    <2>1. ~open'
      BY <1>6 DEF TC!LinkReturns
    <2> QED
      BY <1>4, <1>5, <2>1 DEF TcDuties, TcAsked, TcFed, TcInputs, TcKnown, TcCounted
  <1>7. CASE ~TC!LinkReturns
    <2>1. (link' => link) /\ (link' => up' = up)
      BY <1>7 DEF TC!Watchdog, TC!LinkDrops
    <2> QED
      BY <1>1, <1>2, <1>4, <1>5, <2>1, TcDutiesStay, TcInputsStay
  <1> QED
    BY <1>6, <1>7

----------------------------------------------------------------------------
LEMMA TcInitially ==
  ASSUME TcBounded, TC!Init
  PROVE  TcInv
  <1>1. /\ call = TC!NoCall /\ open = FALSE /\ link = TRUE /\ slot = None /\ queue = <<>> /\ up = <<>>
        /\ cache = [input |-> {}, counts |-> TC!Off] /\ mishaps = 0 /\ ran = FALSE
        /\ misled = FALSE /\ raced = {}
        /\ hw \in [out : {TC!Off}, fed : {FALSE}, pressed : SUBSET Ports, told : {FALSE}, asked : {TC!Off},
                   presses : {TC!Off}]
    BY DEF TC!Init, TC!Inputs
  <1>2. hw \in TcHubType /\ cache \in TcCacheType /\ call \in TcCallType /\ call.phase = "idle"
    BY <1>1, TcOffType, TcNoCall DEF TcHubType, TcCacheType
  <1>3. TC!TypeOK
    <2>1. mishaps \in 0 .. MaxMishaps /\ slot \in TC!Duties \cup {None}
      BY <1>1 DEF TcBounded
    <2>2. queue \in Seq(TC!Command) /\ up \in Seq(SUBSET Ports)
      BY <1>1, TcNothing
    <2> QED
      BY <1>1, <1>2, <2>1, <2>2, TcCommands
       DEF TC!TypeOK, TC!Inputs, TcCallType, TcCacheType, TcHubType, TcPhases
  <1>4. TcOwners /\ TcDuties /\ TcInputs /\ TcClosed
    BY <1>1, <1>2 DEF TcOwners, TcOwnPending, TcWaitersQueue, TcDuties, TcAsked, TcFed, TcInputs,
       TcKnown, TcCounted, TcClosed
  <1> QED
    BY <1>3, <1>4, TcInvParts

LEMMA TcInvNext ==
  ASSUME TcBounded, TcInv, [TC!Next]_TC!vars
  PROVE  TcInv'
  <1>1. CASE TC!Next
    BY <1>1, TcConnectKeeps, TcCloseKeeps, TcBeginKeeps, TcIssueKeeps, TcTimeOutKeeps, TcResetKeeps,
       TcTickKeeps, TcPressKeeps, TcLinkKeeps DEF TC!Next
  <1>2. CASE UNCHANGED TC!vars
    <2>1. UNCHANGED <<call, open, link, slot, queue, cache, up, hw, mishaps, ran, misled, raced>>
      BY <1>2 DEF TC!vars
    <2> QED
      BY <2>1, TcTypes, TcInvParts, TcTypesTogether, TcOwnersStay, TcDutiesStay, TcInputsStay DEF TcClosed
  <1> QED
    BY <1>1, <1>2

LEMMA TcInvariant ==
  ASSUME TcBounded
  PROVE  TC!Spec => []TcInv
  BY TcInitially, TcInvNext, PTL DEF TC!Spec

(* The adapter, the slot's queue and the device keep their types; that a   *)
(* duty stays one is TcApplyType (tclogoconnect_adapter.rs:155-173).       *)
THEOREM TcTypeCorrect ==
  ASSUME TcBounded
  PROVE  TC!Spec => []TC!TypeOK
  <1>1. TcInv => TC!TypeOK
    BY DEF TcInv
  <1> QED
    BY <1>1, TcInvariant, PTL

(* The outputs are as the calls asked, whatever timed out and however many *)
(* commands one tick finds, unless the watchdog went off; and every press  *)
(* is counted once, however many reports one tick finds, but for inputs    *)
(* held when the device was opened (tclogoconnect_adapter.rs:163-215).     *)
THEOREM TcCacheIsHub ==
  ASSUME TcBounded
  PROVE  TC!Spec => []TC!CacheFollowsHub
  <1>1. ASSUME TcInv PROVE TC!CacheFollowsHub
    <2> USE TcTypes, TcInvParts, <1>1
    <2> SUFFICES ASSUME open, link PROVE
            /\ (hw.fed /\ queue = <<>>) => hw.out = hw.asked
            /\ (hw.told /\ up = <<>>) => cache.input = hw.pressed
            /\ up = <<>> => \A p \in Ports \ raced : cache.counts[p] = hw.presses[p]
      BY DEF TC!CacheFollowsHub
    <2>1. ASSUME hw.fed, queue = <<>> PROVE hw.out = hw.asked
      <3>1. \A p \in Ports : hw.asked[p] = slot[p]
        BY <2>1 DEF TcDuties, TcAsked
      <3>2. slot \in TC!Duties /\ hw.asked \in TC!Duties /\ hw.out = slot
        BY <2>1 DEF TcClosed, TcHubType, TcDuties, TcFed
      <3>3. slot = [p \in Ports |-> slot[p]] /\ hw.asked = [p \in Ports |-> hw.asked[p]]
        BY <3>2 DEF TC!Duties
      <3> QED
        BY <3>1, <3>2, <3>3
    <2>2. ASSUME hw.told, up = <<>> PROVE cache.input = hw.pressed
      BY <2>2 DEF TcInputs, TcKnown, TcTold
    <2>3. ASSUME up = <<>>, NEW p \in Ports \ raced PROVE cache.counts[p] = hw.presses[p]
      <3>1. TC!Counted(p) = 0
        BY <2>3, TcNoPresses DEF TC!Counted
      <3>2. cache.counts[p] + TC!Counted(p) = hw.presses[p] /\ cache.counts[p] \in Nat
        BY DEF TcInputs, TcCounted, TcCacheType
      <3> QED
        BY <3>1, <3>2
    <2> QED
      BY <2>1, <2>2, <2>3
  <1> QED
    BY <1>1, TcInvariant, PTL

(* Every run of the adapter and its device is one HubCall allows: a        *)
(* command is applied once, and answered by the tick that applied it; one  *)
(* whose write failed is answered all the same and counts as carried out   *)
(* (tclogoconnect_adapter.rs:163-186, 213-215).                            *)
THEOREM TcImplements ==
  ASSUME TcBounded
  PROVE  TC!Spec => HC!Spec
  <1>1. ASSUME TC!Init PROVE HC!Init
    BY <1>1 DEF TC!Init, TC!NoCall, HC!Init
  <1>2. ASSUME TcInv, [TC!Next]_TC!vars PROVE [HC!Next]_HC!vars
    <2> USE TcTypes, TcInvParts, <1>2
    <2>1. call.phase \in {"idle", "waiting", "ok", "failed"}
      BY DEF TcCallType, TcPhases
    <2>2. CASE TC!Connect \/ TC!Close
      <3>1. call.phase # "waiting" /\ call'.phase = "idle" /\ ~(ran' \/ misled')
        BY <2>2 DEF TC!Connect, TC!Close, TC!Over, TC!NoCall
      <3>2. HC!Forget
        BY <3>1 DEF HC!Forget
      <3> QED
        BY <3>2 DEF HC!Next
    <2>3. CASE TC!Issue
      <3>1. call.phase # "waiting" /\ call'.phase = "waiting" /\ ~(ran' \/ misled')
        BY <2>3 DEF TC!Issue, TcCallType
      <3>2. HC!Issue
        BY <3>1 DEF HC!Issue
      <3> QED
        BY <3>2 DEF HC!Next
    <2>4. CASE TC!TimeOut
      <3>1. call.phase = "waiting" /\ call'.phase = "failed" /\ UNCHANGED <<ran, misled>>
        BY <2>4 DEF TC!TimeOut, TcCallType
      <3>2. HC!Fail
        BY <3>1 DEF HC!Fail
      <3> QED
        BY <3>2 DEF HC!Next
    <2>5. CASE TC!Tick
      <3>1. CASE TcAnswered
        <4>1. call.phase \in {"waiting", "failed"} /\ ~ran /\ ~misled
          BY <3>1 DEF TcOwners, TcOwnPending, TcAnswered
        <4>2. ran' \/ misled'
          BY <2>5, <3>1, TcTicked
        <4>3. CASE call.phase = "waiting"
          <5>1. call'.phase = "ok"
            BY <2>5, <3>1, <4>3, TcTicked
          <5>2. HC!Succeed
            BY <4>2, <4>3, <5>1 DEF HC!Succeed
          <5> QED
            BY <5>2 DEF HC!Next
        <4>4. CASE call.phase = "failed"
          <5>1. call'.phase = call.phase
            BY <2>5, <4>4, TcTicked
          <5>2. HC!Execute
            BY <4>1, <4>2, <4>4, <5>1 DEF HC!Execute
          <5> QED
            BY <5>2 DEF HC!Next
        <4> QED
          BY <4>1, <4>3, <4>4
      <3>2. CASE ~TcAnswered
        <4>1. call'.phase = call.phase /\ (ran' <=> ran) /\ (misled' <=> misled)
          BY <2>5, <3>2, TcTicked
        <4> QED
          BY <4>1 DEF HC!vars
      <3> QED
        BY <3>1, <3>2
    <2>6. CASE \/ TC!Begin \/ TC!Disconnect \/ TC!ResetCounter \/ TC!Press \/ TC!Watchdog
               \/ TC!LinkDrops \/ TC!LinkReturns \/ UNCHANGED TC!vars
      <3>1. call'.phase = call.phase /\ UNCHANGED <<ran, misled>>
        BY <2>6 DEF TC!Begin, TC!Disconnect, TC!ResetCounter, TC!Press, TC!Watchdog, TC!LinkDrops,
           TC!LinkReturns, TC!vars, TcCallType
      <3> QED
        BY <3>1 DEF HC!vars
    <2> QED
      BY <2>2, <2>3, <2>4, <2>5, <2>6 DEF TC!Next
  <1> QED
    BY <1>1, <1>2, TcInvariant, PTL DEF TC!Spec, HC!Spec

----------------------------------------------------------------------------
(* Turns.                                                                  *)

(* A motor that stands anywhere ends at the angle asked for, having gone   *)
(* the way that was asked for by less than a full turn, whether its count  *)
(* or its absolute angle is read (adapter.rs:10-43), as long as an i32     *)
(* holds the difference.                                                   *)
THEOREM TurnsLand ==
  ASSUME NEW from \in Int, NEW target \in Int
  PROVE  Rot!TurnLands(from, target)
  BY DEF Rot!TurnLands, Rot!Lands, Rot!RotateTo, Rot!RotateAbs

=============================================================================
