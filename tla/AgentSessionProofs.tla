------------------------- MODULE AgentSessionProofs -------------------------
(***************************************************************************)
(* Proofs about AgentSession, for any number of files, edits and faults.   *)
(*                                                                         *)
(* The invariant adds four things to the types: no version is newer than   *)
(* the last edit (Ages); what a running collection has done so far is what *)
(* is in storage (RoundAgrees); nothing is collected before the bell       *)
(* (BellAgrees); and where the snapshot, the archive being written back    *)
(* and the upload of a process stand to its workspace (SnapshotAgrees,     *)
(* UploadAgrees).                                                          *)
(***************************************************************************)
EXTENDS AgentSession, TLAPS

Older(c) == \A f \in File : c[f] <= edits

Ages ==
    /\ Older(disk) /\ Older(backup) /\ Older(object)
    /\ fetched # None => Older(fetched)
    /\ flight # None => Older(flight)
    /\ round.held <= edits

NotOlder(v, f) == v >= atStart[f] \/ f \in lost

RoundAgrees ==
    Collecting =>
      /\ hasJoinedOnce
      /\ \A f \in File : NotOlder(disk[f], f)
      /\ round.step # "read" => round.held # Absent /\ NotOlder(round.held, round.file)
      /\ round.step = "confirm" => object[round.file] = round.held
      /\ round.clean => \A f \in File : f < round.file =>
            row[f] # Absent /\ row[f] = object[f] /\ NotOlder(row[f], f)

BellAgrees ==
    session = "active" =>
        /\ ~Collecting /\ ~Waiting("finalize") /\ ~Waiting("recollect")
        /\ object = NoFiles

SnapshotAgrees ==
    /\ ~hasJoinedOnce => backupStatus = "idle" /\ flight = None /\ ~snapshots /\ ~settling
    /\ fetched # None => backupStatus = "restoring"
    /\ entry # 0 => fetched # None /\ fetched[entry] # Absent
    /\ session = "active" => \A f \in File \ (lost \cup unwritten) :
          /\ flight # None /\ flight[f] > Blank => disk[f] > Blank
          /\ fetched # None /\ backup[f] > Blank => disk[f] > Blank \/ fetched[f] > Blank
          /\ backupStatus = "restored" /\ backup[f] > Blank => disk[f] # Blank

UploadAgrees ==
    /\ ~hasJoinedOnce /\ (\/ conn \in {"admitting", "inRoom", "joined"}
                          \/ Waiting("ack") \/ Waiting("ackBackup"))
          => object = NoFiles
    /\ backupStatus = "idle" /\ hasJoinedOnce =>
          \A f \in File : disk[f] # Absent => object[f] <= disk[f]
    /\ backupStatus = "idle" /\ Collecting /\ round.step # "read" =>
          /\ object[round.file] <= round.held
          /\ (disk[round.file] # Absent => round.held <= disk[round.file])

IInv ==
    TypeOK /\ Ages /\ RoundAgrees /\ BellAgrees /\ SnapshotAgrees /\ UploadAgrees

-----------------------------------------------------------------------------
USE DEF Absent, Blank, server, network, student, joining, restoring, losses, storage,
        collecting, snapshotting, others

LEMMA Numbers ==
  /\ Files \in Nat \ {0} /\ MaxEdits \in Nat /\ MaxFaults \in Nat
  /\ Content \subseteq Int /\ Absent \in Content /\ Blank \in Content
  /\ \A v : v \in Content <=> v \in Int /\ -1 <= v /\ v <= MaxEdits
  /\ \A f : f \in File <=> f \in Int /\ 1 <= f /\ f <= Files
  /\ NoFiles \in [File -> Content]
  /\ \A f \in File : NoFiles[f] = Absent
  BY AgentAssumption DEF Content, File, NoFiles

LEMMA IdleRound ==
  /\ Idle \in Round /\ Idle.file = 0 /\ Idle.step = "read" /\ Idle.held = Absent
  /\ Idle.clean = TRUE
  BY Numbers DEF Idle, Round

(* What is in the inbox after a message is sent, or taken.                 *)
LEMMA SendTypes ==
  ASSUME TypeOK, NEW m \in Message, Send(m)
  PROVE  inbox' \in Seq(Message) /\ \A x : Waiting(x)' <=> Waiting(x) \/ x = m
<1>1. inbox \in Seq(Message) /\ inbox' = Append(inbox, m)
  BY DEF TypeOK, Send
<1>2. /\ inbox' \in Seq(Message) /\ Len(inbox') = Len(inbox) + 1
      /\ inbox'[Len(inbox) + 1] = m
      /\ \A i \in 1..Len(inbox) : inbox'[i] = inbox[i]
  BY <1>1
<1>3. DOMAIN inbox = 1..Len(inbox) /\ DOMAIN inbox' = 1..(Len(inbox) + 1) /\ Len(inbox) \in Nat
  BY <1>1, <1>2
<1>. QED
  BY <1>2, <1>3 DEF Waiting

LEMMA ReceiveTypes ==
  ASSUME TypeOK, NEW m, Receive(m)
  PROVE  /\ inbox' \in Seq(Message) /\ Waiting(m)
         /\ \A x : Waiting(x)' => Waiting(x)
  BY DEF TypeOK, Receive, Waiting

(* createSubmissionFiles on the files of a workspace.                      *)
LEMMA CreatedFiles ==
  ASSUME NEW d \in [File -> Content]
  PROVE  /\ Created(d) \in [File -> Content]
         /\ \A f \in File : Created(d)[f] = IF d[f] = Absent THEN Blank ELSE d[f]
  BY Numbers DEF Created

(* One file of a collection done: the round goes on, or it ends and clears *)
(* a workspace of which everything was handed in.                          *)
GoesOn(clean) ==
    /\ round.file + 1 \in File
    /\ round'.file = round.file + 1 /\ round'.step = "read"
    /\ round'.held = Absent /\ round'.clean = clean
    /\ UNCHANGED <<disk, folder, atStart, losses>>

IsOver(clean) ==
    /\ round.file = Files /\ round' = Idle /\ atStart' = NoFiles /\ Forget
    /\ \/ UNCHANGED <<disk, folder>>
       \/ clean /\ disk' = NoFiles /\ folder' = "none"

LEMMA ProceedEnds ==
  ASSUME TypeOK, Collecting, NEW ok \in BOOLEAN, Proceed(ok)
  PROVE  /\ round' \in Round
         /\ disk' \in [File -> Content] /\ atStart' \in [File -> Content]
         /\ folder' \in {"none", "made", "briefed"}
         /\ lost' \subseteq File /\ unwritten' \subseteq File
         /\ GoesOn(round.clean /\ ok) \/ IsOver(round.clean /\ ok)
<1>1. round \in Round /\ disk \in [File -> Content] /\ atStart \in [File -> Content]
      /\ folder \in {"none", "made", "briefed"} /\ round.file # 0
      /\ lost \subseteq File /\ unwritten \subseteq File
  BY DEF TypeOK, Collecting
<1>2. CASE round.file = Files
  BY <1>1, <1>2, IdleRound, Numbers DEF Proceed, EndRound, IsOver, Forget
<1>3. CASE round.file # Files
  <2>. DEFINE clean == round.clean /\ ok
  <2>1. /\ round' = [Idle EXCEPT !.file = round.file + 1, !.clean = clean]
        /\ UNCHANGED <<disk, folder, atStart, losses>>
    BY <1>3 DEF Proceed
  <2>2. round.file + 1 \in File /\ round.file + 1 \in 0..Files /\ clean \in BOOLEAN
    BY <1>1, <1>3, Numbers DEF Round
  <2>. HIDE DEF clean
  <2>3. round' \in Round
    BY <2>1, <2>2, IdleRound DEF Round
  <2>4. GoesOn(clean)
    BY <2>1, <2>2, IdleRound DEF GoesOn, Round
  <2>. QED
    BY <1>1, <2>1, <2>3, <2>4 DEF clean
<1>. QED
  BY <1>2, <1>3

(* collectAll: it begins a round, or leaves things as they are.            *)
Begins ==
    /\ ~Collecting /\ hasJoinedOnce
    /\ round'.file = 1 /\ round'.step = "read" /\ round'.held = Absent
    /\ atStart' = disk /\ snapshots' = FALSE /\ Forget

LEMMA CollectAllBegins ==
  ASSUME TypeOK, CollectAll
  PROVE  /\ round' \in Round /\ atStart' \in [File -> Content] /\ snapshots' \in BOOLEAN
         /\ lost' \subseteq File /\ unwritten' \subseteq File
         /\ Begins \/ UNCHANGED <<round, atStart, losses, snapshots>>
<1>1. round \in Round /\ disk \in [File -> Content] /\ atStart \in [File -> Content]
      /\ snapshots \in BOOLEAN /\ lost \subseteq File /\ unwritten \subseteq File
  BY DEF TypeOK
<1>2. /\ [Idle EXCEPT !.file = 1] \in Round
      /\ [Idle EXCEPT !.file = 1].file = 1
      /\ [Idle EXCEPT !.file = 1].step = "read"
      /\ [Idle EXCEPT !.file = 1].held = Absent
  BY IdleRound, Numbers DEF Round
<1>. QED
  BY <1>1, <1>2 DEF CollectAll, Begins, Forget

(* A round that begins holds no content yet.                               *)
LEMMA RoundAges ==
  ASSUME TypeOK, Ages, UNCHANGED <<disk, backup, object, fetched, flight, edits>>,
         round'.held = Absent \/ round' = round
  PROVE  Ages'
<1>1. Older(disk)' /\ Older(backup)' /\ Older(object)'
  BY DEF Ages, Older
<1>2. (fetched # None => Older(fetched))' /\ (flight # None => Older(flight))'
  BY DEF Ages, Older
<1>3. edits \in 0..MaxEdits
  BY DEF TypeOK
<1>4. Absent <= edits
  BY <1>3, Numbers
<1>5. (round.held <= edits)'
  BY <1>4 DEF Ages
<1>. QED
  BY <1>1, <1>2, <1>5 DEF Ages

LEMMA InitIInv == Init => IInv
<1>. SUFFICES ASSUME Init PROVE IInv
  OBVIOUS
<1>. USE Numbers, IdleRound DEF Init
<1>1. TypeOK
  <2>1. round \in Round /\ inbox \in Seq(Message)
    BY DEF Message
  <2>2. edits \in 0..MaxEdits /\ faults \in 0..MaxFaults /\ entry \in 0..Files
       OBVIOUS
  <2>. QED
    BY <2>1, <2>2 DEF TypeOK, Conn, Phase
<1>2. Ages
  BY DEF Ages, Older
<1>3. RoundAgrees /\ BellAgrees
  BY DEF RoundAgrees, BellAgrees, Collecting, Waiting
<1>4. SnapshotAgrees
  BY DEF SnapshotAgrees
<1>5. UploadAgrees
  BY DEF UploadAgrees, Waiting, Collecting
<1>. QED
  BY <1>1, <1>2, <1>3, <1>4, <1>5 DEF IInv

-----------------------------------------------------------------------------
(* Every action keeps the invariant.                                       *)

(* What the API does: the session's steps, then those of agent:join.       *)
LEMMA FinalizeKeeps ==
  ASSUME IInv, Finalize /\ UNCHANGED <<attended, conn, asked, joining, others, faults>>
  PROVE  IInv'
<1>1. TypeOK /\ Ages /\ RoundAgrees /\ BellAgrees /\ SnapshotAgrees /\ UploadAgrees
  BY DEF IInv
<1>2. /\ session' = "collecting" /\ inbox' \in Seq(Message)
      /\ \A x : Waiting(x)' => Waiting(x) \/ x = "finalize"
  BY <1>1, SendTypes DEF Finalize, Message, TypeOK, Waiting
<1>3. Ages' /\ RoundAgrees'
  BY <1>1, <1>2 DEF Ages, Older, RoundAgrees, Collecting, NotOlder
<1>4. TypeOK'
  BY <1>1, <1>2 DEF TypeOK
<1>5. BellAgrees'
  BY <1>1, <1>2 DEF BellAgrees, Collecting
<1>6. SnapshotAgrees'
  BY <1>1, <1>2 DEF SnapshotAgrees
<1>7. UploadAgrees'
  BY <1>1, <1>2 DEF UploadAgrees, Collecting
<1>. QED
  BY <1>3, <1>4, <1>5, <1>6, <1>7 DEF IInv

LEMMA ExpireKeeps ==
  ASSUME IInv, Expire /\ UNCHANGED <<attended, network, joining, others, faults>>
  PROVE  IInv'
<1>1. TypeOK /\ Ages /\ RoundAgrees /\ BellAgrees /\ SnapshotAgrees /\ UploadAgrees
  BY DEF IInv
<1>2. session' = "expired"
  BY DEF Expire
<1>3. Ages' /\ RoundAgrees' /\ UploadAgrees'
  BY <1>1, <1>2 DEF Ages, Older, RoundAgrees, Collecting, NotOlder,
       UploadAgrees, Waiting
<1>4. TypeOK'
  BY <1>1, <1>2 DEF TypeOK
<1>5. BellAgrees'
  BY <1>1, <1>2 DEF BellAgrees, Collecting, Waiting
<1>6. SnapshotAgrees'
  BY <1>1, <1>2 DEF SnapshotAgrees
<1>. QED
  BY <1>3, <1>4, <1>5, <1>6 DEF IInv

LEMMA RecollectKeeps ==
  ASSUME IInv, Recollect /\ UNCHANGED <<server, conn, asked, joining, others, faults>>
  PROVE  IInv'
<1>1. TypeOK /\ Ages /\ RoundAgrees /\ BellAgrees /\ SnapshotAgrees /\ UploadAgrees
  BY DEF IInv
<1>2. /\ session = "collecting" /\ inbox' \in Seq(Message)
      /\ \A x : Waiting(x)' => Waiting(x) \/ x = "recollect"
  BY <1>1, SendTypes DEF Recollect, Message
<1>3. Ages' /\ RoundAgrees' /\ SnapshotAgrees'
  BY <1>1, <1>2 DEF Ages, Older, RoundAgrees, Collecting, NotOlder,
       SnapshotAgrees
<1>4. TypeOK'
  BY <1>1, <1>2 DEF TypeOK
<1>5. BellAgrees'
  BY <1>1, <1>2 DEF BellAgrees, Collecting
<1>6. UploadAgrees'
  BY <1>1, <1>2 DEF UploadAgrees, Collecting
<1>. QED
  BY <1>3, <1>4, <1>5, <1>6 DEF IInv

LEMMA ReadJoinKeeps ==
  ASSUME IInv, ReadJoin /\ UNCHANGED <<server, joining, others, faults>>
  PROVE  IInv'
<1>1. TypeOK /\ Ages /\ RoundAgrees /\ BellAgrees /\ SnapshotAgrees /\ UploadAgrees
  BY DEF IInv
<1>2. /\ asked' = FALSE /\ inbox' \in Seq(Message)
      /\ \/ session = "active" /\ conn' = "admitting" /\ UNCHANGED inbox
         \/ conn' = conn /\ \A x : Waiting(x)' <=> Waiting(x) \/ x = "error"
  BY <1>1, SendTypes DEF ReadJoin, Message, TypeOK
<1>3. Ages' /\ RoundAgrees' /\ SnapshotAgrees'
  BY <1>1, <1>2 DEF Ages, Older, RoundAgrees, Collecting, NotOlder,
       SnapshotAgrees
<1>4. TypeOK'
  <2>1. conn' \in Conn /\ asked' \in BOOLEAN /\ inbox' \in Seq(Message)
    BY <1>1, <1>2 DEF TypeOK, Conn
  <2>. QED
    BY <1>1, <2>1 DEF TypeOK
<1>5. BellAgrees'
  BY <1>1, <1>2 DEF BellAgrees, Collecting, Waiting
<1>6. UploadAgrees'
  <2>1. CASE session = "active" /\ UNCHANGED inbox
    BY <2>1, <1>1, Numbers DEF UploadAgrees, BellAgrees, Collecting, Waiting, TypeOK
  <2>2. CASE conn' = conn /\ \A x : Waiting(x)' <=> Waiting(x) \/ x = "error"
    BY <2>2, <1>1 DEF UploadAgrees, Collecting
  <2>. QED
    BY <1>2, <2>1, <2>2
<1>. QED
  BY <1>3, <1>4, <1>5, <1>6 DEF IInv

LEMMA EnterRoomKeeps ==
  ASSUME IInv, EnterRoom /\ UNCHANGED <<server, asked, inbox, joining, others, faults>>
  PROVE  IInv'
<1>1. TypeOK /\ Ages /\ RoundAgrees /\ BellAgrees /\ SnapshotAgrees /\ UploadAgrees
  BY DEF IInv
<1>2. conn = "admitting" /\ conn' = "inRoom"
  BY DEF EnterRoom
<1>3. Ages' /\ RoundAgrees' /\ BellAgrees' /\ SnapshotAgrees'
  BY <1>1, <1>2 DEF Ages, Older, RoundAgrees, Collecting, NotOlder,
       BellAgrees, SnapshotAgrees, Waiting
<1>4. TypeOK'
  BY <1>1, <1>2 DEF TypeOK, Conn
<1>5. UploadAgrees'
  BY <1>1, <1>2 DEF UploadAgrees, Collecting, Waiting
<1>. QED
  BY <1>3, <1>4, <1>5 DEF IInv

LEMMA AcknowledgeKeeps ==
  ASSUME IInv, Acknowledge /\ UNCHANGED <<session, asked, joining, others>>
  PROVE  IInv'
<1>1. TypeOK /\ Ages /\ RoundAgrees /\ BellAgrees /\ SnapshotAgrees /\ UploadAgrees
  BY DEF IInv
<1>2. /\ conn = "inRoom" /\ conn' = "joined" /\ attended' = TRUE
      /\ inbox' \in Seq(Message) /\ faults' \in 0..MaxFaults
      /\ \A x : Waiting(x)' => Waiting(x) \/ x \in {"ack", "ackBackup"}
  <2>1. faults' \in 0..MaxFaults
    <3>1. faults \in 0..MaxFaults
      BY <1>1 DEF TypeOK
    <3>2. UNCHANGED faults \/ Fault
      BY DEF Acknowledge
    <3>. QED
      BY <3>1, <3>2, Numbers DEF Fault
  <2>2. \/ Send("ackBackup") \/ Send("ack")
    BY DEF Acknowledge
  <2>3. {"ack", "ackBackup"} \subseteq Message
    BY DEF Message
  <2>4. conn = "inRoom" /\ conn' = "joined" /\ attended' = TRUE
    BY DEF Acknowledge
  <2>. QED
    BY <1>1, <2>1, <2>2, <2>3, <2>4, SendTypes
<1>3. Ages' /\ RoundAgrees' /\ SnapshotAgrees'
  BY <1>1, <1>2 DEF Ages, Older, RoundAgrees, Collecting, NotOlder,
       SnapshotAgrees
<1>4. TypeOK'
  BY <1>1, <1>2 DEF TypeOK, Conn
<1>5. BellAgrees'
  BY <1>1, <1>2 DEF BellAgrees, Collecting
<1>6. UploadAgrees'
  BY <1>1, <1>2 DEF UploadAgrees, Collecting
<1>. QED
  BY <1>3, <1>4, <1>5, <1>6 DEF IInv

(* The socket, and the agent's handling of what came through it.           *)
LEMMA PressJoinKeeps ==
  ASSUME IInv, PressJoin /\ UNCHANGED <<server, conn, inbox, hasJoinedOnce, examEnded,
                                        others, faults>>
  PROVE  IInv'
<1>1. TypeOK /\ Ages /\ RoundAgrees /\ BellAgrees /\ SnapshotAgrees /\ UploadAgrees
  BY DEF IInv
<1>2. phase' \in Phase /\ asked' \in BOOLEAN /\ dialling' \in BOOLEAN
  BY <1>1 DEF PressJoin, EmitJoin, Phase, TypeOK
<1>3. Ages' /\ RoundAgrees' /\ BellAgrees' /\ SnapshotAgrees' /\ UploadAgrees'
  BY <1>1, <1>2 DEF Ages, Older, RoundAgrees, Collecting, NotOlder,
       BellAgrees, SnapshotAgrees, UploadAgrees, Waiting
<1>4. TypeOK'
  BY <1>1, <1>2 DEF TypeOK
<1>. QED
  BY <1>3, <1>4 DEF IInv

LEMMA ConnectKeeps ==
  ASSUME IInv, Connect /\ UNCHANGED <<server, inbox, dialling, hasJoinedOnce, examEnded,
                                      others, faults>>
  PROVE  IInv'
<1>1. TypeOK /\ Ages /\ RoundAgrees /\ BellAgrees /\ SnapshotAgrees /\ UploadAgrees
  BY DEF IInv
<1>2. conn' = "up" /\ phase' \in Phase /\ asked' \in BOOLEAN
  BY <1>1 DEF Connect, EmitJoin, Phase, TypeOK
<1>3. Ages' /\ RoundAgrees' /\ BellAgrees' /\ SnapshotAgrees'
  BY <1>1, <1>2 DEF Ages, Older, RoundAgrees, Collecting, NotOlder,
       BellAgrees, SnapshotAgrees, Waiting
<1>4. TypeOK'
  BY <1>1, <1>2 DEF TypeOK, Conn
<1>5. UploadAgrees'
  BY <1>1, <1>2 DEF UploadAgrees, Collecting, Waiting
<1>. QED
  BY <1>3, <1>4, <1>5 DEF IInv

LEMMA DisconnectKeeps ==
  ASSUME IInv, Disconnect /\ UNCHANGED <<server, joining, others>>
  PROVE  IInv'
<1>1. TypeOK /\ Ages /\ RoundAgrees /\ BellAgrees /\ SnapshotAgrees /\ UploadAgrees
  BY DEF IInv
<1>2. /\ conn' = "down" /\ asked' = FALSE /\ inbox' \in Seq(Message)
      /\ faults' \in 0..MaxFaults /\ \A x : ~Waiting(x)'
  BY <1>1, Numbers DEF Disconnect, Fault, TypeOK, Waiting
<1>3. Ages' /\ RoundAgrees' /\ SnapshotAgrees'
  BY <1>1, <1>2 DEF Ages, Older, RoundAgrees, Collecting, NotOlder,
       SnapshotAgrees
<1>4. TypeOK'
  <2>1. /\ conn' \in Conn /\ asked' \in BOOLEAN /\ inbox' \in Seq(Message)
        /\ faults' \in 0..MaxFaults
    BY <1>2 DEF Conn
  <2>. QED
    BY <1>1, <2>1 DEF TypeOK
<1>5. BellAgrees'
  BY <1>1, <1>2 DEF BellAgrees, Collecting
<1>6. UploadAgrees'
  BY <1>1, <1>2 DEF UploadAgrees, Collecting
<1>. QED
  BY <1>3, <1>4, <1>5, <1>6 DEF IInv

LEMMA HandleJoinErrorKeeps ==
  ASSUME IInv, HandleJoinError /\ UNCHANGED <<server, conn, asked, dialling,
                                              hasJoinedOnce, examEnded, others, faults>>
  PROVE  IInv'
<1>1. TypeOK /\ Ages /\ RoundAgrees /\ BellAgrees /\ SnapshotAgrees /\ UploadAgrees
  BY DEF IInv
<1>2. /\ inbox' \in Seq(Message) /\ phase' \in Phase
      /\ \A x : Waiting(x)' => Waiting(x)
  BY <1>1, ReceiveTypes DEF HandleJoinError, Phase, TypeOK
<1>3. Ages' /\ RoundAgrees' /\ SnapshotAgrees'
  BY <1>1, <1>2 DEF Ages, Older, RoundAgrees, Collecting, NotOlder,
       SnapshotAgrees
<1>4. TypeOK'
  BY <1>1, <1>2 DEF TypeOK
<1>5. BellAgrees'
  BY <1>1, <1>2 DEF BellAgrees, Collecting
<1>6. UploadAgrees'
  BY <1>1, <1>2 DEF UploadAgrees, Collecting
<1>. QED
  BY <1>3, <1>4, <1>5, <1>6 DEF IInv

LEMMA HandleJoinAckKeeps ==
  ASSUME IInv, HandleJoinAck /\ UNCHANGED <<server, conn, asked, edits, dialling,
                                            examEnded, fetched, entry, losses, storage,
                                            collecting, snapshotting, backup, faults>>
  PROVE  IInv'
<1>1. TypeOK /\ Ages /\ RoundAgrees /\ BellAgrees /\ SnapshotAgrees /\ UploadAgrees
  BY DEF IInv
<1>2. /\ inbox' \in Seq(Message) /\ \A x : Waiting(x)' => Waiting(x)
      /\ Waiting("ack") \/ Waiting("ackBackup")
      /\ phase' \in Phase /\ hasJoinedOnce' = TRUE /\ settling' \in BOOLEAN
      /\ folder' \in {"none", "made", "briefed"}
      /\ \/ hasJoinedOnce /\ UNCHANGED <<disk, backupStatus>>
         \/ ~hasJoinedOnce /\ backupStatus' = "restoring" /\ UNCHANGED disk
         \/ ~hasJoinedOnce /\ disk' = Created(disk) /\ UNCHANGED backupStatus
  <2>1. PICK m \in {"ack", "ackBackup"} :
           /\ Receive(m)
           /\ phase' = "joined" /\ hasJoinedOnce' = TRUE
           /\ \/ hasJoinedOnce /\ settling' = TRUE /\ UNCHANGED <<disk, folder, backupStatus>>
              \/ /\ ~hasJoinedOnce /\ backupStatus' = "restoring"
                 /\ UNCHANGED <<disk, folder, settling>>
              \/ ~hasJoinedOnce /\ CreateFiles(disk) /\ UNCHANGED backupStatus
    BY DEF HandleJoinAck
  <2>2. /\ inbox' \in Seq(Message) /\ \A x : Waiting(x)' => Waiting(x)
        /\ Waiting("ack") \/ Waiting("ackBackup")
    BY <1>1, <2>1, ReceiveTypes
  <2>3. phase' \in Phase
    BY <2>1 DEF Phase
  <2>. QED
    BY <1>1, <2>1, <2>2, <2>3 DEF CreateFiles, TypeOK
<1>3. TypeOK'
  BY <1>1, <1>2, CreatedFiles DEF TypeOK
<1>4. Ages'
  <2>1. Older(disk)'
    <3>1. CASE UNCHANGED disk
      BY <1>1, <3>1 DEF Ages, Older
    <3>2. CASE disk' = Created(disk)
      <4>1. edits \in Nat /\ disk \in [File -> Content]
        BY <1>1 DEF TypeOK
      <4>2. \A f \in File : disk'[f] = IF disk[f] = Absent THEN Blank ELSE disk[f]
        BY <3>2, <4>1, CreatedFiles
      <4>. QED
        BY <1>1, <4>1, <4>2 DEF Ages, Older
    <3>. QED
      BY <1>2, <3>1, <3>2
  <2>. QED
    BY <1>1, <2>1 DEF Ages, Older
<1>5. RoundAgrees'
  <2>1. CASE hasJoinedOnce /\ UNCHANGED disk
    BY <1>1, <1>2, <2>1 DEF RoundAgrees, Collecting, NotOlder
  <2>2. CASE ~hasJoinedOnce
    BY <1>1, <2>2 DEF RoundAgrees, Collecting
  <2>. QED
    BY <1>2, <2>1, <2>2
<1>6. BellAgrees'
  BY <1>1, <1>2 DEF BellAgrees, Collecting
<1>7. SnapshotAgrees'
  BY <1>1, <1>2, Numbers, CreatedFiles DEF SnapshotAgrees, TypeOK
<1>8. UploadAgrees'
  <2>1. CASE hasJoinedOnce /\ UNCHANGED <<disk, backupStatus>>
    BY <1>1, <1>2, <2>1 DEF UploadAgrees, Collecting
  <2>2. CASE ~hasJoinedOnce /\ backupStatus' = "restoring"
    BY <1>1, <1>2, <2>2 DEF UploadAgrees
  <2>3. CASE ~hasJoinedOnce /\ disk' = Created(disk)
    <3>1. ~Collecting' /\ object' = NoFiles /\ disk' \in [File -> Content]
      BY <1>1, <1>2, <2>3, CreatedFiles DEF RoundAgrees, Collecting, UploadAgrees, TypeOK
    <3>. QED
      BY <1>2, <3>1, Numbers DEF UploadAgrees
  <2>. QED
    BY <1>2, <2>1, <2>2, <2>3
<1>. QED
  BY <1>3, <1>4, <1>5, <1>6, <1>7, <1>8 DEF IInv

(* The snapshot: written back, and taken.                                  *)
LEMMA FetchBackupKeeps ==
  ASSUME IInv, FetchBackup /\ UNCHANGED <<student, backupStatus, entry, settling,
                                          losses, snapshotting, faults, server, network,
                                          joining, storage, collecting, backup>>
  PROVE  IInv'
<1>1. TypeOK /\ Ages /\ RoundAgrees /\ BellAgrees /\ SnapshotAgrees /\ UploadAgrees
  BY DEF IInv
<1>2. backupStatus = "restoring" /\ fetched = None /\ fetched' = backup
  BY DEF FetchBackup
<1>3. RoundAgrees' /\ BellAgrees' /\ UploadAgrees'
  BY <1>1, <1>2 DEF RoundAgrees, Collecting, NotOlder, BellAgrees,
       UploadAgrees, Waiting
<1>4. TypeOK'
  BY <1>1, <1>2 DEF TypeOK
<1>5. Ages'
  BY <1>1, <1>2 DEF Ages, Older
<1>6. SnapshotAgrees'
  BY <1>1, <1>2 DEF SnapshotAgrees
<1>. QED
  BY <1>3, <1>4, <1>5, <1>6 DEF IInv

LEMMA RestoreFailsKeeps ==
  ASSUME IInv, RestoreFails /\ UNCHANGED <<edits, fetched, entry, losses, snapshotting,
                                           server, network, joining, storage,
                                           collecting, backup>>
  PROVE  IInv'
<1>1. TypeOK /\ Ages /\ RoundAgrees /\ BellAgrees /\ SnapshotAgrees /\ UploadAgrees
  BY DEF IInv
<1>2. /\ disk' = Created(disk) /\ folder' \in {"none", "made", "briefed"}
      /\ settling' = TRUE
      /\ backupStatus = "restoring" /\ backupStatus' = "failed" /\ fetched = None
      /\ faults' \in 0..MaxFaults /\ disk' \in [File -> Content]
      /\ \A f \in File : disk'[f] = IF disk[f] = Absent THEN Blank ELSE disk[f]
  <2>1. disk \in [File -> Content] /\ folder \in {"none", "made", "briefed"}
        /\ faults \in 0..MaxFaults
    BY <1>1 DEF TypeOK
  <2>2. faults' \in 0..MaxFaults
    BY <2>1, Numbers DEF RestoreFails, Fault
  <2>. QED
    BY <2>1, <2>2, CreatedFiles DEF RestoreFails, CreateFiles
<1>3. BellAgrees'
  BY <1>1, <1>2 DEF BellAgrees, Collecting, Waiting
<1>4. TypeOK'
  BY <1>1, <1>2 DEF TypeOK
<1>5. Ages'
  <2>1. edits \in Nat /\ disk \in [File -> Content]
    BY <1>1 DEF TypeOK
  <2>2. Older(disk)'
    BY <1>1, <1>2, <2>1, Numbers DEF Ages, Older
  <2>. QED
    BY <1>1, <1>2, <2>2 DEF Ages, Older
<1>6. RoundAgrees'
  <2>1. \A f \in File : disk[f] \in Int /\ disk'[f] \in Int /\ disk[f] <= disk'[f]
    <3>1. disk \in [File -> Content]
      BY <1>1 DEF TypeOK
    <3>. QED
      BY <1>2, <3>1, Numbers
  <2>2. \A f \in File : atStart[f] \in Int
    BY <1>1, Numbers DEF TypeOK
  <2>3. \A f \in File : NotOlder(disk[f], f) => NotOlder(disk[f], f)'
    BY <2>1, <2>2 DEF NotOlder
  <2>. QED
    BY <1>1, <2>3 DEF RoundAgrees, Collecting, NotOlder
<1>7. SnapshotAgrees'
  <2>1. hasJoinedOnce
    BY <1>1, <1>2 DEF SnapshotAgrees
  <2>2. \A f \in File : disk[f] > Blank => disk'[f] > Blank
    BY <1>2
  <2>. QED
    BY <1>1, <1>2, <2>1, <2>2 DEF SnapshotAgrees
<1>8. UploadAgrees'
  BY <1>1, <1>2 DEF UploadAgrees, Collecting, Waiting
<1>. QED
  BY <1>3, <1>4, <1>5, <1>6, <1>7, <1>8 DEF IInv

LEMMA NextEntryKeeps ==
  ASSUME IInv, NextEntry /\ UNCHANGED <<disk, edits, backupStatus, settling, losses,
                                        snapshotting, faults, server, network, joining,
                                        storage, collecting, backup>>
  PROVE  IInv'
<1>1. TypeOK /\ Ages /\ RoundAgrees /\ BellAgrees /\ SnapshotAgrees /\ UploadAgrees
  BY DEF IInv
<1>2. PICK f \in File :
        /\ fetched[f] # Absent /\ entry' = f
        /\ \A g \in 1..(f - 1) : fetched[g] # Absent => ~ShouldRestoreOver(g)
        /\ fetched' = [g \in File |-> IF g < f THEN Absent ELSE fetched[g]]
  BY DEF NextEntry
<1>3. /\ fetched # None /\ fetched \in [File -> Content] /\ fetched' \in [File -> Content]
      /\ fetched' # None /\ entry' \in 0..Files
      /\ folder' \in {"none", "made", "briefed"}
  <2>1. fetched # None /\ fetched \in [File -> Content]
    BY <1>1 DEF NextEntry, TypeOK
  <2>2. fetched' \in [File -> Content] /\ entry' \in 0..Files
    BY <1>2, <2>1, Numbers
  <2>3. fetched'[entry'] # Absent
    BY <1>2, Numbers
  <2>4. fetched' # None
    <3>1. DOMAIN fetched' = File /\ 1 \in File
      BY <1>2, Numbers
    <3>. QED
      BY <3>1 DEF None
  <2>5. folder' \in {"none", "made", "briefed"}
    BY <1>1 DEF NextEntry, TypeOK
  <2>. QED
    BY <2>1, <2>2, <2>4, <2>5
<1>4. fetched'[entry'] # Absent
  BY <1>2, Numbers
<1>5. \A g \in File : fetched'[g] = fetched[g] \/ (fetched'[g] = Absent /\ disk[g] > Blank)
  <2>1. disk \in [File -> Content]
    BY <1>1 DEF TypeOK
  <2>2. \A g \in File : ~ShouldRestoreOver(g) => disk[g] > Blank
    BY <2>1, Numbers DEF ShouldRestoreOver
  <2>3. \A g \in File : g < f => g \in 1..(f - 1)
    BY <1>2, Numbers
  <2>. QED
    BY <1>2, <2>2, <2>3
<1>6. TypeOK'
  BY <1>1, <1>3 DEF TypeOK
<1>7. Ages'
  <2>1. edits \in Nat
    BY <1>1 DEF TypeOK
  <2>2. Older(fetched)'
    BY <1>1, <1>2, <1>3, <2>1, Numbers DEF Ages, Older
  <2>. QED
    BY <1>1, <2>2 DEF Ages, Older
<1>8. RoundAgrees' /\ BellAgrees' /\ UploadAgrees'
  BY <1>1 DEF RoundAgrees, Collecting, NotOlder, BellAgrees, UploadAgrees, Waiting
<1>9. SnapshotAgrees'
  <2>1. backupStatus = "restoring"
    BY <1>1, <1>3 DEF SnapshotAgrees
  <2>. QED
    BY <1>1, <1>3, <1>4, <1>5, <2>1 DEF SnapshotAgrees
<1>. QED
  BY <1>6, <1>7, <1>8, <1>9 DEF IInv

(* What WriteEntry and EntryFails share: they are done with one entry, and *)
(* its file is as it was, or holds what the entry does, or is empty.       *)
LEMMA EntryKeeps ==
  ASSUME IInv, entry # 0, EntryDone,
         UNCHANGED <<folder, edits, backupStatus, settling, server, network, joining,
                     storage, collecting, snapshotting, backup>>,
         faults' \in 0..MaxFaults,
         NEW content \in {fetched[entry], Blank},
         UNCHANGED <<disk, lost>> \/ Overwrite(content),
         unwritten' \in {unwritten, unwritten \cup {entry}},
         entry \in unwritten' \/ (content = fetched[entry] /\ Overwrite(content))
  PROVE  IInv'
<1>1. TypeOK /\ Ages /\ RoundAgrees /\ BellAgrees /\ SnapshotAgrees /\ UploadAgrees
  BY DEF IInv
<1>2. /\ entry \in File /\ fetched # None /\ fetched \in [File -> Content]
      /\ disk \in [File -> Content] /\ edits \in Nat
      /\ lost \subseteq File /\ unwritten \subseteq File
      /\ fetched[entry] # Absent /\ fetched[entry] <= edits
      /\ backupStatus = "restoring" /\ hasJoinedOnce
  <2>1. fetched # None /\ fetched[entry] # Absent
    BY <1>1 DEF SnapshotAgrees
  <2>2. entry \in File
    <3>1. entry \in 0..Files
      BY <1>1 DEF TypeOK
    <3>. QED
      BY <3>1, Numbers
  <2>3. fetched[entry] <= edits
    BY <1>1, <2>1, <2>2 DEF Ages, Older
  <2>4. backupStatus = "restoring" /\ hasJoinedOnce
    BY <1>1, <2>1 DEF SnapshotAgrees
  <2>. QED
    BY <1>1, <2>1, <2>2, <2>3, <2>4 DEF TypeOK
<1>3. content \in Content /\ Blank <= content /\ content <= edits
  BY <1>2, Numbers
<1>4. /\ entry' = 0 /\ fetched' \in [File -> Content] /\ fetched' # None
      /\ fetched'[entry] = Absent /\ \A f \in File : f # entry => fetched'[f] = fetched[f]
  <2>1. entry' = 0 /\ fetched' = [fetched EXCEPT ![entry] = Absent]
    BY DEF EntryDone
  <2>2. fetched' \in [File -> Content]
    BY <1>2, <2>1, Numbers
  <2>3. fetched' # None
    BY <1>2, <2>2 DEF None
  <2>. QED
    BY <1>2, <2>1, <2>2, <2>3
<1>5. /\ disk' \in [File -> Content] /\ \A f \in File : f # entry => disk'[f] = disk[f]
      /\ lost \subseteq lost' /\ lost' \subseteq File
      /\ unwritten \subseteq unwritten' /\ unwritten' \subseteq File
      /\ disk'[entry] \in {disk[entry], content}
      /\ disk[entry] > Blank => disk' = disk \/ entry \in lost'
  BY <1>2, <1>3 DEF Overwrite
<1>6. TypeOK'
  <2>1. entry' \in 0..Files
    BY <1>4, Numbers
  <2>. QED
    BY <1>1, <1>4, <1>5, <2>1 DEF TypeOK
<1>7. Ages'
  <2>1. Older(disk)' /\ Older(fetched)'
    BY <1>1, <1>2, <1>3, <1>4, <1>5, Numbers DEF Ages, Older
  <2>. QED
    BY <1>1, <2>1 DEF Ages, Older
<1>8. RoundAgrees'
  <2>1. \A f \in File : disk[f] \in Int /\ disk'[f] \in Int /\ atStart[f] \in Int
    BY <1>1, <1>5, Numbers DEF TypeOK
  <2>2. \A f \in File : f \in lost' \/ disk[f] <= disk'[f]
    BY <1>2, <1>3, <1>5, <2>1
  <2>3. \A f \in File : NotOlder(disk[f], f) => NotOlder(disk[f], f)'
    BY <1>5, <2>1, <2>2 DEF NotOlder
  <2>4. \A v : \A f \in File : NotOlder(v, f) => v >= atStart'[f] \/ f \in lost'
    BY <1>5 DEF NotOlder
  <2>. QED
    BY <1>1, <1>5, <2>3, <2>4 DEF RoundAgrees, Collecting, NotOlder
<1>9. BellAgrees'
  BY <1>1 DEF BellAgrees, Collecting, Waiting
<1>10. SnapshotAgrees'
  <2>1. \A f \in File : disk[f] > Blank => disk'[f] > Blank \/ f \in lost'
    BY <1>2, <1>5
  <2>2. \A f \in File : fetched[f] > Blank =>
           fetched'[f] > Blank \/ disk'[f] > Blank \/ f \in unwritten'
    <3>1. fetched[entry] > Blank => disk'[entry] > Blank \/ entry \in unwritten'
      BY <1>2 DEF Overwrite
    <3>. QED
      BY <1>4, <3>1
  <2>. QED
    BY <1>1, <1>2, <1>4, <1>5, <2>1, <2>2 DEF SnapshotAgrees
<1>11. UploadAgrees'
  BY <1>1, <1>2 DEF UploadAgrees, Collecting, Waiting
<1>. QED
  BY <1>6, <1>7, <1>8, <1>9, <1>10, <1>11 DEF IInv

LEMMA WriteEntryKeeps ==
  ASSUME IInv, WriteEntry /\ UNCHANGED <<folder, edits, backupStatus, settling,
                                         unwritten, faults, server, network, joining,
                                         storage, collecting, snapshotting, backup>>
  PROVE  IInv'
<1>1. faults' \in 0..MaxFaults
  BY DEF IInv, TypeOK
<1>. QED
  BY <1>1, EntryKeeps DEF WriteEntry

LEMMA EntryFailsKeeps ==
  ASSUME IInv, EntryFails /\ UNCHANGED <<folder, edits, backupStatus, settling, server,
                                         network, joining, storage, collecting,
                                         snapshotting, backup>>
  PROVE  IInv'
<1>1. faults' \in 0..MaxFaults
  BY Numbers DEF IInv, TypeOK, EntryFails, Fault
<1>. QED
  BY <1>1, EntryKeeps DEF EntryFails

LEMMA FinishRestoreKeeps ==
  ASSUME IInv, FinishRestore /\ UNCHANGED <<edits, entry, losses, faults, server,
                                            network, joining, storage, collecting,
                                            snapshotting, backup>>
  PROVE  IInv'
<1>1. TypeOK /\ Ages /\ RoundAgrees /\ BellAgrees /\ SnapshotAgrees /\ UploadAgrees
  BY DEF IInv
<1>2. /\ fetched \in [File -> Content] /\ fetched # None /\ fetched' = None
      /\ entry = 0 /\ backupStatus' = "restored" /\ settling' = TRUE
      /\ folder' \in {"none", "made", "briefed"}
      /\ disk \in [File -> Content] /\ disk' \in [File -> Content]
      /\ \A f \in File : disk'[f] = IF disk[f] = Absent THEN Blank ELSE disk[f]
      /\ \A f \in File : fetched[f] # Absent => disk[f] > Blank
  <2>1. fetched # None /\ fetched \in [File -> Content] /\ disk \in [File -> Content]
    BY <1>1 DEF FinishRestore, TypeOK
  <2>2. \A f \in File : fetched[f] # Absent => disk[f] > Blank
    BY <2>1, Numbers DEF FinishRestore, ShouldRestoreOver
  <2>3. /\ fetched' = None /\ entry = 0 /\ backupStatus' = "restored" /\ settling' = TRUE
        /\ disk' = Created(disk) /\ folder' \in {"none", "made", "briefed"}
    BY <1>1 DEF FinishRestore, CreateFiles, TypeOK
  <2>. QED
    BY <2>1, <2>2, <2>3, CreatedFiles
<1>3. BellAgrees'
  BY <1>1, <1>2 DEF BellAgrees, Collecting, Waiting
<1>4. TypeOK'
  BY <1>1, <1>2 DEF TypeOK
<1>5. Ages'
  <2>1. edits \in Nat
    BY <1>1 DEF TypeOK
  <2>2. Older(disk)'
    BY <1>1, <1>2, <2>1, Numbers DEF Ages, Older
  <2>. QED
    BY <1>1, <1>2, <2>2 DEF Ages, Older
<1>6. RoundAgrees'
  <2>1. \A f \in File : disk[f] \in Int /\ disk'[f] \in Int /\ disk[f] <= disk'[f]
    BY <1>2, Numbers
  <2>2. \A f \in File : atStart[f] \in Int
    BY <1>1, Numbers DEF TypeOK
  <2>3. \A f \in File : NotOlder(disk[f], f) => NotOlder(disk[f], f)'
    BY <2>1, <2>2 DEF NotOlder
  <2>. QED
    BY <1>1, <2>3 DEF RoundAgrees, Collecting, NotOlder
<1>7. SnapshotAgrees'
  <2>1. hasJoinedOnce
    BY <1>1, <1>2 DEF SnapshotAgrees
  <2>2. \A f \in File : disk[f] > Blank => disk'[f] > Blank
    BY <1>2
  <2>3. \A f \in File : fetched[f] > Blank => disk[f] > Blank
    BY <1>2
  <2>. QED
    BY <1>1, <1>2, <2>1, <2>2, <2>3 DEF SnapshotAgrees
<1>8. UploadAgrees'
  BY <1>1, <1>2 DEF UploadAgrees, Collecting, Waiting
<1>. QED
  BY <1>3, <1>4, <1>5, <1>6, <1>7, <1>8 DEF IInv

LEMMA SettleKeeps ==
  ASSUME IInv, Settle /\ UNCHANGED <<disk, edits, losses, backupStatus, fetched, entry,
                                     flight, faults, server, network, joining, storage,
                                     collecting, backup>>
  PROVE  IInv'
<1>1. TypeOK /\ Ages /\ RoundAgrees /\ BellAgrees /\ SnapshotAgrees /\ UploadAgrees
  BY DEF IInv
<1>2. /\ settling /\ settling' = FALSE /\ snapshots' = TRUE
      /\ folder' \in {"none", "made", "briefed"}
  BY <1>1 DEF Settle, TypeOK
<1>3. Ages' /\ RoundAgrees' /\ BellAgrees' /\ UploadAgrees'
  BY <1>1, <1>2 DEF Ages, Older, RoundAgrees, Collecting, NotOlder,
       BellAgrees, UploadAgrees, Waiting
<1>4. TypeOK'
  <2>1. settling' \in BOOLEAN /\ snapshots' \in BOOLEAN
        /\ folder' \in {"none", "made", "briefed"}
    BY <1>2
  <2>. QED
    BY <1>1, <2>1 DEF TypeOK
<1>5. SnapshotAgrees'
  BY <1>1, <1>2 DEF SnapshotAgrees
<1>. QED
  BY <1>3, <1>4, <1>5 DEF IInv

LEMMA TakeSnapshotKeeps ==
  ASSUME IInv, TakeSnapshot /\ UNCHANGED <<backup, faults, server, network, student,
                                           joining, restoring, losses, storage,
                                           collecting, snapshots>>
  PROVE  IInv'
<1>1. TypeOK /\ Ages /\ RoundAgrees /\ BellAgrees /\ SnapshotAgrees /\ UploadAgrees
  BY DEF IInv
<1>2. snapshots /\ flight' = disk
  BY DEF TakeSnapshot
<1>3. RoundAgrees' /\ BellAgrees' /\ UploadAgrees'
  BY <1>1, <1>2 DEF RoundAgrees, Collecting, NotOlder, BellAgrees,
       UploadAgrees, Waiting
<1>4. TypeOK'
  BY <1>1, <1>2 DEF TypeOK
<1>5. Ages'
  BY <1>1, <1>2 DEF Ages, Older
<1>6. SnapshotAgrees'
  BY <1>1, <1>2 DEF SnapshotAgrees
<1>. QED
  BY <1>3, <1>4, <1>5, <1>6 DEF IInv

LEMMA SendSnapshotKeeps ==
  ASSUME IInv, SendSnapshot /\ UNCHANGED <<faults, server, network, student, joining,
                                           restoring, losses, storage, collecting,
                                           snapshots>>
  PROVE  IInv'
<1>1. TypeOK /\ Ages /\ RoundAgrees /\ BellAgrees /\ SnapshotAgrees /\ UploadAgrees
  BY DEF IInv
<1>2. flight # None /\ backup' = flight /\ flight' = None
  BY DEF SendSnapshot
<1>3. RoundAgrees' /\ BellAgrees' /\ UploadAgrees'
  BY <1>1, <1>2 DEF RoundAgrees, Collecting, NotOlder, BellAgrees,
       UploadAgrees, Waiting
<1>4. TypeOK'
  BY <1>1, <1>2 DEF TypeOK
<1>5. Ages'
  BY <1>1, <1>2 DEF Ages, Older
<1>6. SnapshotAgrees'
  BY <1>1, <1>2 DEF SnapshotAgrees
<1>. QED
  BY <1>3, <1>4, <1>5, <1>6 DEF IInv

LEMMA SnapshotFailsKeeps ==
  ASSUME IInv, SnapshotFails /\ UNCHANGED <<backup, server, network, student, joining,
                                            restoring, losses, storage, collecting,
                                            snapshots>>
  PROVE  IInv'
<1>1. TypeOK /\ Ages /\ RoundAgrees /\ BellAgrees /\ SnapshotAgrees /\ UploadAgrees
  BY DEF IInv
<1>2. flight' = None /\ faults' \in 0..MaxFaults
  BY <1>1, Numbers DEF SnapshotFails, Fault, TypeOK
<1>3. RoundAgrees' /\ BellAgrees' /\ UploadAgrees'
  BY <1>1, <1>2 DEF RoundAgrees, Collecting, NotOlder, BellAgrees,
       UploadAgrees, Waiting
<1>4. TypeOK'
  BY <1>1, <1>2 DEF TypeOK
<1>5. Ages'
  BY <1>1, <1>2 DEF Ages, Older
<1>6. SnapshotAgrees'
  BY <1>1, <1>2 DEF SnapshotAgrees
<1>. QED
  BY <1>3, <1>4, <1>5, <1>6 DEF IInv

(* A collection: called for, file by file, and ended.                      *)
LEMMA HandleFinalizeKeeps ==
  ASSUME IInv, HandleFinalize /\ UNCHANGED <<server, conn, asked, student, dialling,
                                             phase, hasJoinedOnce, restoring, storage,
                                             flight, backup, faults>>
  PROVE  IInv'
<1>1. TypeOK /\ Ages /\ RoundAgrees /\ BellAgrees /\ SnapshotAgrees /\ UploadAgrees
  BY DEF IInv
<1>2. /\ Waiting("finalize") /\ inbox' \in Seq(Message) /\ \A x : Waiting(x)' => Waiting(x)
      /\ examEnded' \in BOOLEAN /\ round' \in Round /\ atStart' \in [File -> Content]
      /\ snapshots' \in BOOLEAN
      /\ lost' \subseteq File /\ unwritten' \subseteq File
      /\ Begins \/ UNCHANGED <<round, atStart, losses, snapshots>>
  BY <1>1, ReceiveTypes, CollectAllBegins DEF HandleFinalize
<1>3. TypeOK'
  BY <1>1, <1>2 DEF TypeOK
<1>4. Ages'
  <2>1. round'.held = Absent \/ round' = round
    BY <1>2 DEF Begins
  <2>. QED
    BY <1>1, <2>1, RoundAges
<1>5. RoundAgrees'
  <2>1. CASE UNCHANGED <<round, atStart, losses>>
    BY <1>1, <2>1 DEF RoundAgrees, Collecting, NotOlder
  <2>2. CASE Begins
    <3>1. \A f \in File : disk[f] \in Int
      BY <1>1, Numbers DEF TypeOK
    <3>. QED
      BY <1>1, <2>2, <3>1, Numbers DEF RoundAgrees, Begins, NotOlder
  <2>. QED
    BY <1>2, <2>1, <2>2
<1>6. BellAgrees'
  BY <1>1, <1>2 DEF BellAgrees
<1>7. SnapshotAgrees'
  BY <1>1, <1>2 DEF SnapshotAgrees, BellAgrees, Begins
<1>8. UploadAgrees'
  BY <1>1, <1>2 DEF UploadAgrees, Begins, Collecting
<1>. QED
  BY <1>3, <1>4, <1>5, <1>6, <1>7, <1>8 DEF IInv

LEMMA HandleRecollectKeeps ==
  ASSUME IInv, HandleRecollect /\ UNCHANGED <<examEnded, server, conn, asked, student,
                                              dialling, phase, hasJoinedOnce, restoring,
                                              storage, flight, backup, faults>>
  PROVE  IInv'
<1>1. TypeOK /\ Ages /\ RoundAgrees /\ BellAgrees /\ SnapshotAgrees /\ UploadAgrees
  BY DEF IInv
<1>2. /\ Waiting("recollect") /\ inbox' \in Seq(Message) /\ \A x : Waiting(x)' => Waiting(x)
      /\ round' \in Round /\ atStart' \in [File -> Content]
      /\ snapshots' \in BOOLEAN
      /\ lost' \subseteq File /\ unwritten' \subseteq File
      /\ Begins \/ UNCHANGED <<round, atStart, losses, snapshots>>
  BY <1>1, ReceiveTypes, CollectAllBegins DEF HandleRecollect
<1>3. TypeOK'
  BY <1>1, <1>2 DEF TypeOK
<1>4. Ages'
  <2>1. round'.held = Absent \/ round' = round
    BY <1>2 DEF Begins
  <2>. QED
    BY <1>1, <2>1, RoundAges
<1>5. RoundAgrees'
  <2>1. CASE UNCHANGED <<round, atStart, losses>>
    BY <1>1, <2>1 DEF RoundAgrees, Collecting, NotOlder
  <2>2. CASE Begins
    <3>1. \A f \in File : disk[f] \in Int
      BY <1>1, Numbers DEF TypeOK
    <3>. QED
      BY <1>1, <2>2, <3>1, Numbers DEF RoundAgrees, Begins, NotOlder
  <2>. QED
    BY <1>2, <2>1, <2>2
<1>6. BellAgrees'
  BY <1>1, <1>2 DEF BellAgrees
<1>7. SnapshotAgrees'
  BY <1>1, <1>2 DEF SnapshotAgrees, BellAgrees, Begins
<1>8. UploadAgrees'
  BY <1>1, <1>2 DEF UploadAgrees, Begins, Collecting
<1>. QED
  BY <1>3, <1>4, <1>5, <1>6, <1>7, <1>8 DEF IInv

(* What ReadFile, ConfirmFile and UploadFails share: they are done with one *)
(* file, and only its object and its row may have changed.                 *)
LEMMA ProceedKeeps ==
  ASSUME IInv, Collecting, NEW ok \in BOOLEAN, Proceed(ok),
         UNCHANGED <<server, network, edits, joining, restoring, snapshotting,
                     backup>>,
         object' \in [File -> Content], row' \in [File -> Content],
         faults' \in 0..MaxFaults,
         \A f \in File : f # round.file => object'[f] = object[f] /\ row'[f] = row[f],
         \/ object'[round.file] = object[round.file]
         \/ round.step # "read" /\ object'[round.file] = round.held,
         ok => /\ row'[round.file] # Absent /\ row'[round.file] = object'[round.file]
               /\ NotOlder(row'[round.file], round.file)
  PROVE  IInv'
<1>1. TypeOK /\ Ages /\ RoundAgrees /\ BellAgrees /\ SnapshotAgrees /\ UploadAgrees
  BY DEF IInv
<1>2. /\ round \in Round /\ round' \in Round /\ round.file \in File
      /\ disk \in [File -> Content] /\ disk' \in [File -> Content]
      /\ atStart' \in [File -> Content] /\ folder' \in {"none", "made", "briefed"}
      /\ lost' \subseteq File /\ unwritten' \subseteq File
      /\ GoesOn(round.clean /\ ok) \/ IsOver(round.clean /\ ok)
  <2>1. round \in Round /\ disk \in [File -> Content]
    BY <1>1 DEF TypeOK
  <2>2. round.file \in 0..Files /\ round.file # 0
    BY <2>1 DEF Round, Collecting
  <2>3. round.file \in File
    BY <2>2, Numbers
  <2>. QED
    BY <1>1, <2>1, <2>3, ProceedEnds
<1>3. /\ hasJoinedOnce /\ session # "active"
      /\ hasJoinedOnce' = hasJoinedOnce /\ session' = session
      /\ round'.step = "read" /\ round'.held = Absent
      /\ UNCHANGED disk \/ disk' = NoFiles
  BY <1>1, <1>2, IdleRound DEF RoundAgrees, BellAgrees, GoesOn, IsOver
<1>4. TypeOK'
  BY <1>1, <1>2 DEF TypeOK
<1>5. Ages'
  <2>1. Older(object)'
    BY <1>1, <1>2, Numbers DEF Ages, Older, TypeOK
  <2>2. Older(disk)'
    BY <1>1, <1>2, <1>3, Numbers DEF Ages, Older, TypeOK
  <2>3. round'.held <= edits'
    BY <1>1, <1>3 DEF TypeOK
  <2>. QED
    BY <1>1, <2>1, <2>2, <2>3 DEF Ages, Older
<1>6. RoundAgrees'
  <2>1. CASE IsOver(round.clean /\ ok)
    BY <2>1, IdleRound DEF RoundAgrees, IsOver, Collecting
  <2>2. CASE GoesOn(round.clean /\ ok)
    <3>1. \A f \in File : NotOlder(disk[f], f)' /\ (NotOlder(row'[f], f) => NotOlder(row[f], f)')
      BY <1>1, <2>2 DEF RoundAgrees, GoesOn, NotOlder
    <3>2. ASSUME round'.clean, NEW f \in File, f < round'.file
          PROVE  row'[f] # Absent /\ row'[f] = object'[f] /\ NotOlder(row'[f], f)
      <4>1. round.clean /\ ok /\ f < round.file + 1
        BY <3>2, <2>2 DEF GoesOn
      <4>2. CASE f = round.file
        BY <4>1, <4>2
      <4>3. CASE f # round.file
        <5>1. f < round.file
          <6>1. f \in Int /\ round.file \in Int
            BY <1>2, Numbers
          <6>. QED
            BY <4>1, <4>3, <6>1
        <5>. QED
          BY <1>1, <4>1, <4>3, <5>1 DEF RoundAgrees
      <4>. QED
        BY <4>2, <4>3
    <3>. QED
      BY <1>3, <3>1, <3>2 DEF RoundAgrees
  <2>. QED
    BY <1>2, <2>1, <2>2
<1>7. BellAgrees'
  BY <1>3 DEF BellAgrees
<1>8. SnapshotAgrees'
  BY <1>1, <1>3 DEF SnapshotAgrees
<1>9. UploadAgrees'
  <2>1. ASSUME backupStatus = "idle", NEW f \in File, disk'[f] # Absent
        PROVE  object'[f] <= disk'[f]
    <3>1. disk' = disk
      BY <1>3, <2>1, Numbers
    <3>2. object[f] <= disk[f]
      BY <1>1, <1>3, <2>1, <3>1 DEF UploadAgrees
    <3>3. f = round.file /\ round.step # "read" => round.held <= disk[f]
      BY <1>1, <2>1, <3>1 DEF UploadAgrees
    <3>. QED
      BY <3>1, <3>2, <3>3
  <2>. QED
    BY <1>3, <2>1 DEF UploadAgrees
<1>. QED
  BY <1>4, <1>5, <1>6, <1>7, <1>8, <1>9 DEF IInv

LEMMA ReadFileKeeps ==
  ASSUME IInv, ReadFile /\ UNCHANGED <<storage, faults, server, network, edits, joining,
                                       restoring, snapshotting, backup>>
  PROVE  IInv'
<1>1. TypeOK /\ Ages /\ RoundAgrees /\ BellAgrees /\ SnapshotAgrees /\ UploadAgrees
  BY DEF IInv
<1>2. /\ Collecting /\ round.step = "read" /\ round \in Round /\ round.file \in File
      /\ disk \in [File -> Content] /\ object \in [File -> Content]
  BY <1>1, Numbers DEF ReadFile, TypeOK, Round, Collecting
<1>3. CASE Proceed(FALSE)
  BY <1>1, <1>2, <1>3, ProceedKeeps DEF TypeOK
<1>4. CASE /\ disk[round.file] # Absent
           /\ round' = [round EXCEPT !.step = "put", !.held = disk[round.file]]
           /\ UNCHANGED <<disk, folder, atStart, losses>>
  <2>1. /\ round' \in Round /\ round'.file = round.file /\ round'.step = "put"
        /\ round'.held = disk[round.file] /\ round'.clean = round.clean
    BY <1>2, <1>4 DEF Round
  <2>2. TypeOK'
    BY <1>1, <1>4, <2>1 DEF TypeOK
  <2>3. Ages'
    BY <1>1, <1>2, <1>4, <2>1 DEF Ages, Older
  <2>4. RoundAgrees'
    BY <1>1, <1>2, <1>4, <2>1 DEF RoundAgrees, Collecting, NotOlder
  <2>5. BellAgrees' /\ SnapshotAgrees'
    BY <1>1, <1>2, <1>4 DEF BellAgrees, SnapshotAgrees, Collecting, Waiting
  <2>6. UploadAgrees'
    BY <1>1, <1>2, <1>4, <2>1, Numbers DEF UploadAgrees, RoundAgrees, Collecting
  <2>. QED
    BY <2>2, <2>3, <2>4, <2>5, <2>6 DEF IInv
<1>. QED
  BY <1>3, <1>4 DEF ReadFile

LEMMA PutFileKeeps ==
  ASSUME IInv, PutFile /\ UNCHANGED <<row, disk, folder, atStart, losses, faults,
                                      server, network, edits, joining, restoring,
                                      snapshotting, backup>>
  PROVE  IInv'
<1>1. TypeOK /\ Ages /\ RoundAgrees /\ BellAgrees /\ SnapshotAgrees /\ UploadAgrees
  BY DEF IInv
<1>2. /\ Collecting /\ round.step = "put" /\ round \in Round /\ round.file \in File
      /\ object \in [File -> Content] /\ round.held \in Content
      /\ disk \in [File -> Content]
  BY <1>1, Numbers DEF PutFile, TypeOK, Round, Collecting
<1>3. /\ round' \in Round /\ round'.file = round.file /\ round'.step = "confirm"
      /\ round'.held = round.held /\ round'.clean = round.clean
  BY <1>2 DEF PutFile, Round
<1>4. /\ object' \in [File -> Content] /\ object'[round.file] = round.held
      /\ \A f \in File : f # round.file => object'[f] = object[f]
  BY <1>2 DEF PutFile
<1>5. TypeOK'
  BY <1>1, <1>3, <1>4 DEF TypeOK
<1>6. Ages'
  <2>1. Older(object)'
    BY <1>1, <1>4 DEF Ages, Older
  <2>. QED
    BY <1>1, <1>3, <2>1 DEF Ages, Older
<1>7. RoundAgrees'
  BY <1>1, <1>2, <1>3, <1>4, Numbers DEF RoundAgrees, Collecting, NotOlder
<1>8. BellAgrees' /\ SnapshotAgrees'
  BY <1>1, <1>2 DEF BellAgrees, SnapshotAgrees, Collecting, Waiting
<1>9. UploadAgrees'
  BY <1>1, <1>2, <1>3, <1>4, Numbers DEF UploadAgrees, RoundAgrees, Collecting
<1>. QED
  BY <1>5, <1>6, <1>7, <1>8, <1>9 DEF IInv

LEMMA ConfirmFileKeeps ==
  ASSUME IInv, ConfirmFile /\ UNCHANGED <<object, faults, server, network, edits,
                                          joining, restoring, snapshotting, backup>>
  PROVE  IInv'
<1>1. TypeOK /\ RoundAgrees
  BY DEF IInv
<1>2. /\ Collecting /\ round.step = "confirm" /\ round.file \in File
      /\ round.held \in Content /\ row \in [File -> Content]
      /\ object \in [File -> Content] /\ faults \in 0..MaxFaults
  BY <1>1, Numbers DEF ConfirmFile, TypeOK, Round, Collecting
<1>3. /\ row' \in [File -> Content] /\ row'[round.file] = round.held
      /\ \A f \in File : f # round.file => row'[f] = row[f]
  BY <1>2 DEF ConfirmFile
<1>4. /\ round.held # Absent /\ NotOlder(round.held, round.file)
      /\ object[round.file] = round.held
  BY <1>1, <1>2 DEF RoundAgrees
<1>5. Proceed(TRUE)
  BY DEF ConfirmFile
<1>. QED
  BY <1>2, <1>3, <1>4, <1>5, ProceedKeeps

LEMMA UploadFailsKeeps ==
  ASSUME IInv, UploadFails /\ UNCHANGED <<server, network, edits, joining, restoring,
                                          snapshotting, backup>>
  PROVE  IInv'
<1>1. TypeOK
  BY DEF IInv
<1>2. /\ Collecting /\ round.step # "read" /\ round.file \in File
      /\ round.held \in Content /\ row \in [File -> Content]
      /\ object \in [File -> Content] /\ faults \in 0..MaxFaults
  BY <1>1, Numbers DEF UploadFails, TypeOK, Round, Collecting
<1>3. /\ UNCHANGED row \/ row' = [row EXCEPT ![round.file] = round.held]
      /\ UNCHANGED object \/ object' = [object EXCEPT ![round.file] = round.held]
      /\ faults' \in 0..MaxFaults
  BY <1>2, Numbers DEF UploadFails, Fault
<1>4. /\ row' \in [File -> Content] /\ object' \in [File -> Content]
      /\ \A f \in File : f # round.file => object'[f] = object[f] /\ row'[f] = row[f]
      /\ object'[round.file] \in {object[round.file], round.held}
  BY <1>2, <1>3
<1>5. Proceed(FALSE)
  BY DEF UploadFails
<1>. QED
  BY <1>2, <1>3, <1>4, <1>5, ProceedKeeps

(* The student, and the machine.                                           *)
LEMMA SaveKeeps ==
  ASSUME IInv, NEW f \in File, Save(f) /\ UNCHANGED <<server, network, folder,
                                                      unwritten, joining, restoring,
                                                      storage, collecting, snapshotting,
                                                      backup, faults>>
  PROVE  IInv'
<1>1. TypeOK /\ Ages /\ RoundAgrees /\ BellAgrees /\ SnapshotAgrees /\ UploadAgrees
  BY DEF IInv
<1>2. /\ edits \in Nat /\ edits' = edits + 1 /\ edits' \in 0..MaxEdits
      /\ disk \in [File -> Content] /\ disk' \in [File -> Content]
      /\ disk'[f] = edits + 1 /\ \A g \in File : g # f => disk'[g] = disk[g]
      /\ UNCHANGED lost
  <2>1. edits \in 0..MaxEdits /\ disk \in [File -> Content]
    BY <1>1 DEF TypeOK
  <2>2. edits < MaxEdits
    BY DEF Save
  <2>3. edits + 1 \in Content /\ edits + 1 \in 0..MaxEdits
    BY <2>1, <2>2, Numbers
  <2>. QED
    BY <2>1, <2>3 DEF Save
<1>3. BellAgrees'
  BY <1>1, <1>2 DEF BellAgrees, Collecting, Waiting
<1>4. TypeOK'
  BY <1>1, <1>2 DEF TypeOK
<1>5. Ages'
  <2>1. \A c : c \in [File -> Content] /\ Older(c) => Older(c)'
    BY <1>2, Numbers DEF Older
  <2>2. Older(disk)'
    BY <1>1, <1>2, Numbers DEF Ages, Older
  <2>3. round'.held <= edits'
    BY <1>1, <1>2, Numbers DEF Ages, TypeOK, Round
  <2>. QED
    BY <1>1, <2>1, <2>2, <2>3 DEF Ages, TypeOK, Older
<1>6. RoundAgrees'
  <2>1. \A g \in File : disk[g] <= disk'[g]
    BY <1>1, <1>2, Numbers DEF Ages, Older
  <2>2. \A g \in File : disk[g] \in Int /\ disk'[g] \in Int /\ atStart[g] \in Int
    BY <1>1, <1>2, Numbers DEF TypeOK
  <2>3. \A g \in File : NotOlder(disk[g], g) => NotOlder(disk[g], g)'
    BY <1>2, <2>1, <2>2 DEF NotOlder
  <2>. QED
    BY <1>1, <1>2, <2>3 DEF RoundAgrees, Collecting, NotOlder
<1>7. SnapshotAgrees'
  BY <1>1, <1>2 DEF SnapshotAgrees
<1>8. UploadAgrees'
  <2>1. \A g \in File : object[g] <= edits
    BY <1>1 DEF Ages, Older
  <2>2. round.held <= edits
    BY <1>1 DEF Ages
  <2>3. Collecting => round.file \in File
    BY <1>1, Numbers DEF TypeOK, Round, Collecting
  <2>4. object \in [File -> Content] /\ round.held \in Content
    BY <1>1 DEF TypeOK, Round
  <2>. QED
    BY <1>1, <1>2, <2>1, <2>2, <2>3, <2>4, Numbers DEF UploadAgrees, Collecting, Waiting
<1>. QED
  BY <1>3, <1>4, <1>5, <1>6, <1>7, <1>8 DEF IInv

LEMMA DeleteKeeps ==
  ASSUME IInv, NEW f \in File, Delete(f) /\ UNCHANGED <<server, network, folder,
                                                        unwritten, joining, restoring,
                                                        storage, collecting,
                                                        snapshotting, backup, faults>>
  PROVE  IInv'
<1>1. TypeOK /\ Ages /\ RoundAgrees /\ BellAgrees /\ SnapshotAgrees /\ UploadAgrees
  BY DEF IInv
<1>2. /\ edits \in Nat /\ edits' = edits + 1 /\ edits' \in 0..MaxEdits
      /\ disk \in [File -> Content] /\ disk' \in [File -> Content]
      /\ disk'[f] = Absent /\ \A g \in File : g # f => disk'[g] = disk[g]
      /\ lost' = lost \cup {f} /\ lost' \subseteq File
  BY <1>1, Numbers DEF Delete, TypeOK
<1>3. BellAgrees'
  BY <1>1, <1>2 DEF BellAgrees, Collecting, Waiting
<1>4. TypeOK'
  BY <1>1, <1>2 DEF TypeOK
<1>5. Ages'
  <2>1. \A c : c \in [File -> Content] /\ Older(c) => Older(c)'
    BY <1>2, Numbers DEF Older
  <2>2. Older(disk)'
    BY <1>1, <1>2, Numbers DEF Ages, Older
  <2>3. round'.held <= edits'
    BY <1>1, <1>2, Numbers DEF Ages, TypeOK, Round
  <2>. QED
    BY <1>1, <2>1, <2>2, <2>3 DEF Ages, TypeOK, Older
<1>6. RoundAgrees'
  BY <1>1, <1>2 DEF RoundAgrees, Collecting, NotOlder
<1>7. SnapshotAgrees'
  BY <1>1, <1>2 DEF SnapshotAgrees
<1>8. UploadAgrees'
  <2>1. Collecting => round.file \in File
    BY <1>1, Numbers DEF TypeOK, Round, Collecting
  <2>. QED
    BY <1>1, <1>2, <2>1 DEF UploadAgrees, Collecting, Waiting
<1>. QED
  BY <1>3, <1>4, <1>5, <1>6, <1>7, <1>8 DEF IInv

LEMMA RestartKeeps ==
  ASSUME IInv, NEW wiped \in BOOLEAN, Restart(wiped) /\ UNCHANGED <<server, edits,
                                                                    storage, backup>>
  PROVE  IInv'
<1>1. TypeOK /\ Ages /\ RoundAgrees /\ BellAgrees /\ SnapshotAgrees /\ UploadAgrees
  BY DEF IInv
<1>2. /\ conn' = "down" /\ asked' = FALSE /\ inbox' = <<>>
      /\ dialling' = FALSE /\ phase' = "form"
      /\ hasJoinedOnce' = FALSE /\ examEnded' = FALSE
      /\ backupStatus' = "idle" /\ fetched' = None /\ settling' = FALSE
      /\ entry' = 0 /\ lost' = {} /\ unwritten' = {}
      /\ snapshots' = FALSE /\ flight' = None /\ round' = Idle /\ atStart' = NoFiles
      /\ disk' = disk \/ disk' = NoFiles
      /\ folder' \in {"none", "made", "briefed"} /\ faults' \in 0..MaxFaults
      /\ \A x : ~Waiting(x)'
  <2>1. folder' \in {"none", "made", "briefed"} /\ faults' \in 0..MaxFaults
    BY <1>1, Numbers DEF Restart, Fault, TypeOK
  <2>. QED
    BY <2>1 DEF Restart, Forget, Waiting
<1>3. TypeOK'
  <2>1. inbox' \in Seq(Message) /\ round' \in Round /\ entry' \in 0..Files
    BY <1>2, IdleRound, Numbers
  <2>2. disk' \in [File -> Content] /\ atStart' \in [File -> Content]
    BY <1>1, <1>2, Numbers DEF TypeOK
  <2>. QED
    BY <1>1, <1>2, <2>1, <2>2 DEF TypeOK, Conn, Phase
<1>4. Ages'
  BY <1>1, <1>2, IdleRound, Numbers DEF Ages, Older, TypeOK
<1>5. RoundAgrees'
  BY <1>2, IdleRound DEF RoundAgrees, Collecting
<1>6. BellAgrees'
  BY <1>1, <1>2, IdleRound DEF BellAgrees, Collecting
<1>7. SnapshotAgrees'
  BY <1>2 DEF SnapshotAgrees
<1>8. UploadAgrees'
  BY <1>2, IdleRound DEF UploadAgrees, Collecting
<1>. QED
  BY <1>3, <1>4, <1>5, <1>6, <1>7, <1>8 DEF IInv

(* Every step of the specification is one of these.                        *)
LEMMA NextIInv ==
  ASSUME IInv, [Next]_vars
  PROVE  IInv'
<1>1. CASE ApiStep
  BY <1>1, FinalizeKeeps, ExpireKeeps, RecollectKeeps, ReadJoinKeeps, EnterRoomKeeps,
     AcknowledgeKeeps DEF ApiStep
<1>2. CASE SocketStep
  BY <1>2, PressJoinKeeps, ConnectKeeps, DisconnectKeeps DEF SocketStep
<1>3. CASE AnswerStep
  BY <1>3, HandleJoinErrorKeeps, HandleJoinAckKeeps DEF AnswerStep
<1>4. CASE JoinStep
  BY <1>4, FetchBackupKeeps, RestoreFailsKeeps, NextEntryKeeps, WriteEntryKeeps,
     EntryFailsKeeps, FinishRestoreKeeps, SettleKeeps DEF JoinStep, RestoreStep
<1>5. CASE SnapshotStep
  BY <1>5, TakeSnapshotKeeps, SendSnapshotKeeps, SnapshotFailsKeeps DEF SnapshotStep
<1>6. CASE CallStep
  BY <1>6, HandleFinalizeKeeps, HandleRecollectKeeps DEF CallStep, HandleFinalize
<1>7. CASE UploadStep
  BY <1>7, ReadFileKeeps, PutFileKeeps, ConfirmFileKeeps, UploadFailsKeeps DEF UploadStep
<1>8. CASE StudentStep
  BY <1>8, SaveKeeps, DeleteKeeps DEF StudentStep
<1>9. CASE MachineStep
  BY <1>9, RestartKeeps DEF MachineStep
<1>10. CASE UNCHANGED vars
  <2>1. TypeOK /\ Ages /\ RoundAgrees /\ BellAgrees /\ SnapshotAgrees /\ UploadAgrees
    BY DEF IInv
  <2>2. TypeOK'
    BY <1>10, <2>1 DEF TypeOK, vars
  <2>3. Ages' /\ RoundAgrees' /\ SnapshotAgrees'
    BY <1>10, <2>1 DEF Ages, Older, RoundAgrees, Collecting, NotOlder, SnapshotAgrees, vars
  <2>4. BellAgrees' /\ UploadAgrees'
    BY <1>10, <2>1 DEF BellAgrees, UploadAgrees, Collecting, Waiting, vars
  <2>. QED
    BY <2>2, <2>3, <2>4 DEF IInv
<1>. QED
  BY <1>1, <1>2, <1>3, <1>4, <1>5, <1>6, <1>7, <1>8, <1>9, <1>10 DEF Next

(* The inductive invariant: types, ages, and where a collection, the bell, *)
(* the snapshot and the uploads stand to the workspace (AgentSession.tla). *)
THEOREM Invariant == Spec => []IInv
<1>1. Init => IInv
  BY InitIInv
<1>2. IInv /\ [Next]_vars => IInv'
  BY NextIInv
<1>. QED
  BY <1>1, <1>2, PTL DEF Spec

(* The variables of the agent, of its socket and of the API have their     *)
(* types.                                                                  *)
THEOREM TypeCorrect == Spec => []TypeOK
<1>1. IInv => TypeOK
  BY DEF IInv
<1>. QED
  BY <1>1, Invariant, PTL

(* doHandleJoinAck restores before it creates the files: an agent that was *)
(* given its snapshot back has no blank file where the snapshot has work,  *)
(* but for what was deleted, saved behind the restore's back or not        *)
(* written.                                                                *)
THEOREM RestoreKeepsWork == Spec => []RestoredIsNotBlank
<1>1. IInv => RestoredIsNotBlank
  BY DEF IInv, SnapshotAgrees, RestoredIsNotBlank
<1>. QED
  BY <1>1, Invariant, PTL

-----------------------------------------------------------------------------
(* Only an upload changes the objects, and only the end of a round whose   *)
(* files were all confirmed, or another machine, takes the folder away.    *)
LEMMA OthersKeep ==
  ASSUME Next, ~UploadStep
  PROVE  /\ UNCHANGED object
         /\ folder # "none" /\ folder' = "none" => dialling' = FALSE
<1>. USE DEF CreateFiles
<1>1. CASE ApiStep
  BY <1>1 DEF ApiStep
<1>2. CASE SocketStep
  BY <1>2 DEF SocketStep
<1>3. CASE AnswerStep
  BY <1>3 DEF AnswerStep, HandleJoinAck
<1>4. CASE JoinStep
  BY <1>4 DEF JoinStep, RestoreStep, FetchBackup, RestoreFails, NextEntry,
       WriteEntry, EntryFails, FinishRestore, Settle
<1>5. CASE SnapshotStep
  BY <1>5 DEF SnapshotStep
<1>6. CASE CallStep
  BY <1>6 DEF CallStep
<1>7. CASE StudentStep
  BY <1>7 DEF StudentStep
<1>8. CASE MachineStep
  BY <1>8 DEF MachineStep, Restart
<1>. QED
  BY <1>1, <1>2, <1>3, <1>4, <1>5, <1>6, <1>7, <1>8 DEF Next

LEMMA UncleanKeeps ==
  ASSUME TypeOK, Collecting, Proceed(FALSE)
  PROVE  UNCHANGED folder
<1>1. GoesOn(round.clean /\ FALSE) \/ IsOver(round.clean /\ FALSE)
  BY ProceedEnds
<1>. QED
  BY <1>1 DEF GoesOn, IsOver

LEMMA RemovalConfirmed ==
  ASSUME IInv, Next, folder # "none", folder' = "none", Collecting, dialling'
  PROVE  \A f \in File : row'[f] # Absent /\ row'[f] = object'[f]
                         /\ (row'[f] >= atStart[f] \/ f \in lost)
<1>1. TypeOK /\ RoundAgrees /\ UploadStep
  BY OthersKeep DEF IInv
<1>2. /\ round.file \in File /\ row \in [File -> Content] /\ round.held \in Content
  BY <1>1, Numbers DEF TypeOK, Round, Collecting
<1>3. ConfirmFile /\ UNCHANGED object
  <2>1. ~Proceed(FALSE)
    BY <1>1, UncleanKeeps
  <2>2. ReadFile => UNCHANGED folder
    BY <2>1 DEF ReadFile
  <2>3. ~UploadFails
    BY <2>1 DEF UploadFails
  <2>. QED
    BY <1>1, <2>2, <2>3 DEF UploadStep
<1>4. /\ round.step = "confirm" /\ row'[round.file] = round.held
      /\ \A f \in File : f # round.file => row'[f] = row[f]
  BY <1>2, <1>3 DEF ConfirmFile
<1>5. round.clean /\ round.file = Files
  <2>1. GoesOn(round.clean /\ TRUE) \/ IsOver(round.clean /\ TRUE)
    BY <1>1, <1>3, ProceedEnds DEF ConfirmFile
  <2>. QED
    BY <2>1 DEF GoesOn, IsOver
<1>6. /\ round.held # Absent /\ NotOlder(round.held, round.file)
      /\ object[round.file] = round.held
  BY <1>1, <1>4 DEF RoundAgrees
<1>7. ASSUME NEW f \in File
      PROVE  row'[f] # Absent /\ row'[f] = object'[f] /\ NotOlder(row'[f], f)
  <2>1. CASE f = round.file
    BY <1>3, <1>4, <1>6, <2>1
  <2>2. CASE f # round.file
    <3>1. f < round.file
      BY <1>5, <2>2, Numbers
    <3>. QED
      BY <1>1, <1>3, <1>4, <1>5, <2>2, <3>1 DEF RoundAgrees
  <2>. QED
    BY <2>1, <2>2
<1>. QED
  BY <1>7 DEF NotOlder

(* collectAll, removeWorkspaceAfterCollection: a workspace is deleted only *)
(* when every required file is collected, as it was when the collection    *)
(* began or newer - or was deleted, or written back over, since.           *)
THEOREM RemovedCollected == Spec => RemovedIsCollected
<1>1. IInv /\ [Next]_vars =>
        [folder # "none" /\ folder' = "none" /\ Collecting /\ dialling' =>
            \A f \in File : row'[f] # Absent /\ row'[f] = object'[f]
                            /\ (row'[f] >= atStart[f] \/ f \in lost)]_vars
  BY RemovalConfirmed
<1>. QED
  BY <1>1, Invariant, PTL DEF Spec, RemovedIsCollected

LEMMA OlderRestored ==
  ASSUME IInv, Next, NEW f \in File, object'[f] < object[f]
  PROVE  backupStatus # "idle"
<1>1. TypeOK /\ UploadAgrees
  BY DEF IInv
<1>2. object \in [File -> Content] /\ round.held \in Content /\ object[f] \in Int
  BY <1>1, Numbers DEF TypeOK, Round
<1>3. object' # object
  BY <1>2
<1>4. /\ Collecting /\ round.step # "read"
      /\ object' = [object EXCEPT ![round.file] = round.held]
  <2>1. UploadStep
    BY <1>3, OthersKeep
  <2>. QED
    BY <1>3, <2>1 DEF UploadStep, ReadFile, PutFile, ConfirmFile, UploadFails
<1>5. f = round.file /\ round.held < object[f]
  BY <1>2, <1>3, <1>4
<1>. QED
  BY <1>1, <1>2, <1>4, <1>5, Numbers DEF UploadAgrees

(* uploadOne: what was uploaded is replaced by something older only by a   *)
(* process that asked for the snapshot.                                    *)
THEOREM OlderByRestore == Spec => OlderOnlyByRestore
<1>1. IInv /\ [Next]_vars =>
        [\A f \in File : object'[f] < object[f] => backupStatus # "idle"]_vars
  BY OlderRestored
<1>. QED
  BY <1>1, Invariant, PTL DEF Spec, OlderOnlyByRestore

-----------------------------------------------------------------------------
(* A round only goes on.  Outside the collection only a restart of the     *)
(* process touches a running round.                                        *)
LEMMA OthersKeepRound ==
  ASSUME Next, ~UploadStep, Collecting, dialling'
  PROVE  UNCHANGED <<round, atStart>>
<1>1. CASE ApiStep
  BY <1>1 DEF ApiStep
<1>2. CASE SocketStep
  BY <1>2 DEF SocketStep
<1>3. CASE AnswerStep
  BY <1>3 DEF AnswerStep
<1>4. CASE JoinStep
  BY <1>4 DEF JoinStep, RestoreStep
<1>5. CASE SnapshotStep
  BY <1>5 DEF SnapshotStep
<1>6. CASE CallStep
  <2>1. CollectAll
    BY <1>6 DEF CallStep, HandleFinalize, HandleRecollect
  <2>. QED
    BY <2>1 DEF CollectAll
<1>7. CASE StudentStep
  BY <1>7 DEF StudentStep
<1>8. CASE MachineStep
  BY <1>8 DEF MachineStep, Restart
<1>. QED
  BY <1>1, <1>2, <1>3, <1>4, <1>5, <1>6, <1>7, <1>8 DEF Next

LEMMA ProceedAdvances ==
  ASSUME TypeOK, Collecting, NEW ok \in BOOLEAN, Proceed(ok)
  PROVE  \/ Onward(round, round') /\ UNCHANGED atStart
         \/ round.file = Files /\ ~Collecting'
<1>1. GoesOn(round.clean /\ ok) \/ IsOver(round.clean /\ ok)
  BY ProceedEnds
<1>2. CASE GoesOn(round.clean /\ ok)
  BY <1>2 DEF GoesOn, Onward
<1>3. CASE IsOver(round.clean /\ ok)
  BY <1>3, IdleRound DEF IsOver, Collecting
<1>. QED
  BY <1>1, <1>2, <1>3

LEMMA NextAdvances ==
  ASSUME TypeOK, Next, Collecting, dialling'
  PROVE  \/ UNCHANGED <<round, atStart>>
         \/ Onward(round, round') /\ UNCHANGED atStart
         \/ round.file = Files /\ ~Collecting'
<1>0. round \in Round
  BY DEF TypeOK
<1>1. CASE ~UploadStep
  BY <1>1, OthersKeepRound
<1>2. CASE UploadStep
  <2>1. ASSUME NEW ok \in BOOLEAN, Proceed(ok)
        PROVE  \/ Onward(round, round') /\ UNCHANGED atStart
               \/ round.file = Files /\ ~Collecting'
    BY <2>1, ProceedAdvances
  <2>2. CASE ReadFile
    <3>1. CASE disk[round.file] = Absent
      BY <2>1, <2>2, <3>1 DEF ReadFile
    <3>2. CASE disk[round.file] # Absent
      <4>1. /\ round.step = "read" /\ UNCHANGED atStart
            /\ round' = [round EXCEPT !.step = "put", !.held = disk[round.file]]
        BY <2>2, <3>2 DEF ReadFile
      <4>2. round'.file = round.file /\ round'.step = "put" /\ round'.clean = round.clean
        BY <1>0, <4>1 DEF Round
      <4>. QED
        BY <4>1, <4>2 DEF Onward
    <3>. QED
      BY <3>1, <3>2
  <2>3. CASE PutFile /\ UNCHANGED atStart
    <3>1. round.step = "put" /\ round' = [round EXCEPT !.step = "confirm"]
      BY <2>3 DEF PutFile
    <3>2. /\ round'.file = round.file /\ round'.step = "confirm"
          /\ round'.held = round.held /\ round'.clean = round.clean
      BY <1>0, <3>1 DEF Round
    <3>. QED
      BY <2>3, <3>1, <3>2 DEF Onward
  <2>4. CASE ConfirmFile
    BY <2>1, <2>4 DEF ConfirmFile
  <2>5. CASE UploadFails
    BY <2>1, <2>5 DEF UploadFails
  <2>. QED
    BY <1>2, <2>2, <2>3, <2>4, <2>5 DEF UploadStep
<1>. QED
  BY <1>1, <1>2

(* collectAll and uploadOne: a running collection goes through the files   *)
(* in order, each once, whatever orders, saves and failures come in        *)
(* between, and forgets none that failed.                                  *)
THEOREM RoundsAdvance == Spec => RoundAdvances
<1>1. TypeOK /\ [Next]_vars =>
        [Collecting /\ dialling' =>
            \/ UNCHANGED <<round, atStart>>
            \/ Onward(round, round') /\ UNCHANGED atStart
            \/ round.file = Files /\ ~Collecting']_vars
  BY NextAdvances
<1>. QED
  BY <1>1, TypeCorrect, PTL DEF Spec, RoundAdvances

-----------------------------------------------------------------------------
(* A join is owed.  An ack waits only where agent:join has put the socket  *)
(* in the room, and no socket is up and no question out before the agent   *)
(* dials: that is what makes JoinIsOwed inductive.                         *)
AckInRoom ==
    Waiting("ack") \/ Waiting("ackBackup") => conn \in {"admitting", "inRoom", "joined"}

JoinInv == JoinIsOwed /\ AckInRoom /\ (~dialling => conn = "down" /\ ~asked)

Answers == {"ack", "ackBackup", "error"}

LEMMA InitJoinInv == Init => JoinInv
  BY DEF Init, JoinInv, JoinIsOwed, AckInRoom, Waiting

(* What is not at the head of the inbox is still there afterwards.         *)
LEMMA ReceiveLeaves ==
  ASSUME TypeOK, NEW m, Receive(m), NEW x, x # m, Waiting(x)
  PROVE  Waiting(x)'
<1>1. inbox \in Seq(Message) /\ inbox # <<>> /\ Head(inbox) = m /\ inbox' = Tail(inbox)
  BY DEF TypeOK, Receive
<1>2. PICK i \in DOMAIN inbox : inbox[i] = x
  BY DEF Waiting
<1>3. i \in 2..Len(inbox)
  BY <1>1, <1>2
<1>4. i - 1 \in DOMAIN inbox' /\ inbox'[i - 1] = inbox[i]
  BY <1>1, <1>3
<1>. QED
  BY <1>2, <1>4 DEF Waiting

(* A step that leaves the connection, the questions and the answers alone. *)
LEMMA SameJoin ==
  ASSUME JoinInv, UNCHANGED <<conn, asked, inbox, dialling, phase, examEnded>>
  PROVE  JoinInv'
  BY DEF JoinInv, JoinIsOwed, AckInRoom, Waiting

LEMMA ApiJoin ==
  ASSUME TypeOK, JoinInv, ApiStep
  PROVE  JoinInv'
<1>0. /\ Message = {"ack", "ackBackup", "error", "finalize", "recollect"}
      /\ UNCHANGED <<dialling, phase, examEnded>>
  BY DEF Message, ApiStep
<1>1. ASSUME NEW m \in {"finalize", "recollect"}, Send(m), UNCHANGED <<conn, asked>>
      PROVE  JoinInv'
  <2>1. \A x : Waiting(x)' <=> Waiting(x) \/ x = m
    BY <1>0, <1>1, SendTypes
  <2>. QED
    BY <1>0, <1>1, <2>1 DEF JoinInv, JoinIsOwed, AckInRoom
<1>2. CASE Finalize /\ UNCHANGED <<conn, asked>>
  BY <1>0, <1>1, <1>2, SameJoin DEF Finalize
<1>3. CASE Expire /\ UNCHANGED network
  BY <1>0, <1>3, SameJoin
<1>4. CASE Recollect /\ UNCHANGED <<conn, asked>>
  BY <1>1, <1>4 DEF Recollect
<1>5. CASE ReadJoin
  <2>1. CASE conn' = "admitting" /\ UNCHANGED inbox
    <3>1. asked /\ dialling
      BY <1>5 DEF ReadJoin, JoinInv
    <3>. QED
      BY <1>0, <2>1, <3>1 DEF JoinInv, JoinIsOwed, AckInRoom, Waiting
  <2>2. CASE Send("error") /\ UNCHANGED conn
    <3>1. asked' = FALSE /\ \A x : Waiting(x)' <=> Waiting(x) \/ x = "error"
      BY <1>0, <1>5, <2>2, SendTypes DEF ReadJoin
    <3>. QED
      BY <1>0, <2>2, <3>1 DEF JoinInv, JoinIsOwed, AckInRoom
  <2>. QED
    BY <1>5, <2>1, <2>2 DEF ReadJoin
<1>6. CASE EnterRoom /\ UNCHANGED <<asked, inbox>>
  BY <1>0, <1>6 DEF EnterRoom, JoinInv, JoinIsOwed, AckInRoom, Waiting
<1>7. CASE Acknowledge /\ UNCHANGED asked
  <2>1. PICK m \in {"ack", "ackBackup"} : Send(m)
    BY <1>7 DEF Acknowledge
  <2>2. \A x : Waiting(x)' <=> Waiting(x) \/ x = m
    BY <1>0, <2>1, SendTypes
  <2>. QED
    BY <1>0, <1>7, <2>1, <2>2 DEF Acknowledge, JoinInv, JoinIsOwed, AckInRoom
<1>. QED
  BY <1>2, <1>3, <1>4, <1>5, <1>6, <1>7 DEF ApiStep

LEMMA SocketJoin ==
  ASSUME TypeOK, JoinInv, SocketStep
  PROVE  JoinInv'
<1>1. CASE PressJoin /\ UNCHANGED <<conn, inbox, examEnded>>
  BY <1>1 DEF PressJoin, EmitJoin, JoinInv, JoinIsOwed, AckInRoom, Waiting
<1>2. CASE Connect /\ UNCHANGED <<inbox, dialling, examEnded>>
  BY <1>2 DEF Connect, EmitJoin, JoinInv, JoinIsOwed, AckInRoom, Waiting
<1>3. CASE Disconnect
  BY <1>3 DEF Disconnect, JoinInv, JoinIsOwed, AckInRoom, Waiting
<1>. QED
  BY <1>1, <1>2, <1>3 DEF SocketStep

LEMMA AnswerJoin ==
  ASSUME TypeOK, JoinInv, AnswerStep
  PROVE  JoinInv'
<1>1. UNCHANGED <<conn, asked, dialling, examEnded>>
  BY DEF AnswerStep
<1>2. CASE HandleJoinError
  <2>1. Receive("error") /\ (examEnded \/ phase' = "refused")
    BY <1>2 DEF HandleJoinError
  <2>2. \A x : Waiting(x)' => Waiting(x)
    BY <2>1, ReceiveTypes
  <2>. QED
    BY <1>1, <2>1, <2>2 DEF JoinInv, JoinIsOwed, AckInRoom
<1>3. CASE HandleJoinAck
  <2>1. PICK m \in {"ack", "ackBackup"} : Receive(m) /\ phase' = "joined"
    BY <1>3 DEF HandleJoinAck
  <2>2. Waiting(m) /\ \A x : Waiting(x)' => Waiting(x)
    BY <2>1, ReceiveTypes
  <2>3. conn \in {"admitting", "inRoom", "joined"}
    BY <2>2 DEF JoinInv, AckInRoom
  <2>. QED
    BY <1>1, <2>1, <2>2, <2>3 DEF JoinInv, JoinIsOwed, AckInRoom
<1>. QED
  BY <1>2, <1>3 DEF AnswerStep

LEMMA CallJoin ==
  ASSUME TypeOK, JoinInv, CallStep
  PROVE  JoinInv'
<1>1. UNCHANGED <<conn, asked, dialling, phase>>
  BY DEF CallStep
<1>2. CASE HandleFinalize
  <2>1. Receive("finalize") /\ examEnded'
    BY <1>2 DEF HandleFinalize
  <2>2. \A x : Waiting(x)' => Waiting(x)
    BY <2>1, ReceiveTypes
  <2>. QED
    BY <1>1, <2>1, <2>2 DEF JoinInv, JoinIsOwed, AckInRoom
<1>3. CASE HandleRecollect /\ UNCHANGED examEnded
  <2>1. Receive("recollect")
    BY <1>3 DEF HandleRecollect
  <2>2. \A x : Waiting(x)' => Waiting(x)
    BY <2>1, ReceiveTypes
  <2>3. \A x \in Answers : Waiting(x) => Waiting(x)'
    BY <2>1, ReceiveLeaves DEF Answers
  <2>. QED
    BY <1>1, <1>3, <2>2, <2>3 DEF JoinInv, JoinIsOwed, AckInRoom, Answers
<1>. QED
  BY <1>2, <1>3 DEF CallStep

LEMMA NextJoinInv ==
  ASSUME TypeOK, JoinInv, [Next]_vars
  PROVE  JoinInv'
<1>1. CASE MachineStep
  BY <1>1 DEF MachineStep, Restart, JoinInv, JoinIsOwed, AckInRoom, Waiting
<1>2. CASE JoinStep \/ SnapshotStep \/ UploadStep \/ StudentStep \/ UNCHANGED vars
  <2>1. UNCHANGED <<conn, asked, inbox, dialling, phase, examEnded>>
    BY <1>2 DEF JoinStep, RestoreStep, SnapshotStep, UploadStep, StudentStep, vars
  <2>. QED
    BY <2>1, SameJoin
<1>. QED
  BY <1>1, <1>2, ApiJoin, SocketJoin, AnswerJoin, CallJoin DEF Next

(* connect, emitJoin, handleAgentJoin, handleJoinAck: no interleaving of   *)
(* answers, lost connections and second questions leaves an agent on its   *)
(* `joining` screen, or joined in its own eyes only, with nobody left to   *)
(* do anything about it.                                                   *)
THEOREM JoinOwed == Spec => []JoinIsOwed
<1>1. Init => JoinInv
  BY InitJoinInv
<1>2. TypeOK /\ JoinInv /\ [Next]_vars => JoinInv'
  BY NextJoinInv
<1>3. JoinInv => JoinIsOwed
  BY DEF JoinInv
<1>. QED
  BY <1>1, <1>2, <1>3, TypeCorrect, PTL DEF Spec
=============================================================================
