----------------------------- MODULE DevnetProofs -----------------------------
(***************************************************************************)
(* Proofs about Devnet, for any number of processes: what another process  *)
(* finds in the receipt, and what the promises promise.                    *)
(***************************************************************************)
EXTENDS Devnet, TLAPS

Container == [status : {"absent", "created", "running", "exited"}, named : BOOLEAN,
              genesis : {"missing", "partial", "done"}, said : BOOLEAN,
              phase : {"off", "boot", "genesis", "booted", "watching", "up"}]
Process   == [alive : BOOLEAN, mode : Modes, id : IDs \cup {NoID}, named : BOOLEAN,
              running : BOOLEAN, handler : {"unset", "set", "called"}, number : Nat]
Progress  == {"unasked", "checking", "porting", "creating", "making", "unsaved",
              "recreating", "remaking", "remaking unnamed", "starting", "logging", "opening",
              "inspecting", "inspecting again", "killing", "pausing", "removing",
              "resolved", "rejected"}
Remaking  == {"remaking", "remaking unnamed"}

TypeOK == /\ engine \in [IDs -> Container]
          /\ promise \in [Promises -> Progress]
          /\ script \in Process
          /\ receipt \in IDs \cup {NoID}
          /\ api \in [Holders -> IDs \cup {NoID}]

\* The engine gives no name twice.
OneName == \A i, j \in IDs : Exists(i) /\ engine[i].named /\ Exists(j) /\ engine[j].named => i = j

\* Creation has overtaken start().
Overtaken == raced /\ promise["created"] = "resolved"

\* A process that is not about to save a receipt holds the id in it, or one
\* that start() has made in its place.
KnowsReceipt ==
  script.id # NoID /\ promise["created"] # "unsaved"
     => \/ script.id = receipt
        \/ script.id \in adrift /\ (~Exists(receipt) \/ Overtaken)

\* start() makes a container in place of one that is gone, unless creation has
\* been faster.
GoneWhenRemade ==
  promise["started"] \in Remaking => ~Exists(script.id) \/ Overtaken

\* start() begins with an id.
StartKnowsID ==
  promise["started"] \in {"checking", "recreating"} \cup Remaking => script.id # NoID

\* Without a race, kill() and remove() hold on to the container that is known.
HoldsKnown ==
  ~raced => /\ promise["paused"] \in {"inspecting again", "killing"} => api["paused"] = script.id
            /\ promise["removed"] = "removing" => api["removed"] = script.id

\* Without a process there are no promises.
Idle == script.alive \/ \A p \in Promises : promise[p] = "unasked"

\* Without a race, nothing is open beside creation, and start not beside removal.
OneAtATime ==
  ~raced => /\ Open("created") => ~Open("started") /\ ~Open("paused") /\ ~Open("removed")
            /\ Open("started") => ~Open("paused") /\ ~Open("removed")

PromiseInv == StartKnowsID /\ Idle /\ OneAtATime /\ HoldsKnown

IInv == /\ TypeOK /\ PromiseInv
        /\ OneName /\ KnowsReceipt /\ GoneWhenRemade /\ ReceiptNamesContainer

LEMMA InitIInv == Init => IInv
BY DEF Init, IInv, TypeOK, OneName, KnowsReceipt, GoneWhenRemade, ReceiptNamesContainer,
       PromiseInv, StartKnowsID, Idle, OneAtATime, HoldsKnown, Container, Process, Progress,
       Remaking, Modes, Holders, NoScript, Absent, Exists, Open, Promises, NoID
-----------------------------------------------------------------------------
(* Types.                                                                  *)

LEMMA NewIsID == ASSUME Unused # {} PROVE NewID \in IDs /\ ~Exists(NewID)
BY DEF Unused, NewID

LEMMA StoppedType == ASSUME TypeOK, NEW i \in IDs PROVE Stopped(i) \in [IDs -> Container]
BY DEF TypeOK, Stopped, Container

\* Only an id can be that of a container.
LEMMA OnlyIDs == ASSUME TypeOK PROVE /\ Exists(script.id) => script.id \in IDs
                                     /\ Running(script.id) => script.id \in IDs
                                     /\ \A p \in Holders : Exists(api[p]) => api[p] \in IDs
BY DEF TypeOK, Process, Exists, Running

LEMMA NewContainers == Absent \in Container /\ \A named \in BOOLEAN : Fresh(named) \in Container
BY DEF Absent, Fresh, Container

LEMMA NewScript == NoScript \in Process
BY DEF NoScript, Process, Modes, NoID

\* A promise goes on to one of the places where promises are.
LEMMA GotoType == ASSUME TypeOK, NEW p, NEW pc \in Progress, Goto(p, pc)
                  PROVE  promise' \in [Promises -> Progress]
BY DEF TypeOK, Goto

LEMMA Constructed == ASSUME TypeOK, Construct PROVE script' \in Process
<1>1. PICK mode \in Modes, id \in {receipt, NoID}, running \in BOOLEAN :
          script' = [NoScript EXCEPT !.alive = TRUE, !.mode = mode, !.id = id,
                                     !.running = running, !.number = script.number + 1]
  BY DEF Construct
<1>2. script' = [alive |-> TRUE, mode |-> mode, id |-> id, named |-> FALSE, running |-> running,
                 handler |-> "unset", number |-> script.number + 1]
  BY <1>1 DEF NoScript
<1>3. id \in IDs \cup {NoID}
  BY DEF TypeOK
<1>4. script.number + 1 \in Nat
  BY DEF TypeOK, Process
<1> QED BY <1>2, <1>3, <1>4 DEF Process

LEMMA ScriptTypes == TypeOK /\ (Construct \/ Signal \/ Exit \/ Crash \/ Asking) => TypeOK'
<1> SUFFICES ASSUME TypeOK, Construct \/ Signal \/ Exit \/ Crash \/ Asking PROVE TypeOK'
  OBVIOUS
<1> USE DEF TypeOK, Progress
<1>1. CASE Construct
  BY <1>1, Constructed DEF Construct
<1>2. CASE Signal
  BY <1>2 DEF Signal, Process
<1>3. CASE Exit \/ Crash
  <2>1. [NoScript EXCEPT !.number = script.number] \in Process
    BY NewScript DEF Process
  <2> QED BY <1>3, <2>1 DEF Exit, Crash, Die, NoID
<1>4. CASE Asking
  BY <1>4 DEF Asking, AskCreated, AskStarted, AskPaused, AskRemoved, Goto, Process
<1> QED BY <1>1, <1>2, <1>3, <1>4

LEMMA PromiseTypes == TypeOK /\ (Creating \/ Starting \/ Pausing \/ Removing) => TypeOK'
<1> SUFFICES ASSUME TypeOK, Creating \/ Starting \/ Pausing \/ Removing PROVE TypeOK'
  OBVIOUS
<1>1. CASE CheckCreated \/ FindPort \/ CheckAgain
  BY <1>1 DEF TypeOK, Progress, CheckCreated, FindPort, CheckAgain, Goto, Process
<1>2. CASE Create
  <2>1. promise' \in [Promises -> Progress]
    BY <1>2, GotoType DEF Create, Progress
  <2>2. engine' \in [IDs -> Container]
    BY <1>2, NewContainers DEF TypeOK, Create
  <2> QED BY <1>2, <2>1, <2>2 DEF TypeOK, Create
<1>3. CASE SaveReceipt
  BY <1>3 DEF TypeOK, Progress, SaveReceipt, Goto, Process
<1>4. CASE CheckStarted \/ CheckRecreated \/ WaitLog \/ WaitPort
  BY <1>4 DEF TypeOK, Progress, CheckStarted, CheckRecreated, WaitLog, WaitPort, Goto
<1>5. CASE Recreate
  <2>1. promise' \in [Promises -> Progress]
    BY <1>5, GotoType DEF Recreate, Progress
  <2>2. CASE UNCHANGED <<script, engine>>
    BY <1>5, <2>1, <2>2 DEF TypeOK, Recreate
  <2>3. ASSUME NEW named \in BOOLEAN, Unused # {}, script' = [script EXCEPT !.id = NewID],
               engine' = [engine EXCEPT ![NewID] = Fresh(named)]
        PROVE  TypeOK'
    BY <1>5, <2>1, <2>3, NewIsID, NewContainers DEF TypeOK, Recreate, Process
  <2> QED BY <1>5, <2>2, <2>3 DEF Recreate
<1>6. CASE Start
  <2>1. promise' \in [Promises -> Progress]
    BY <1>6, GotoType DEF Start, Progress
  <2>2. engine' \in [IDs -> Container]
    BY <1>6, OnlyIDs DEF TypeOK, Start, Container, Holders
  <2> QED BY <1>6, <2>1, <2>2 DEF TypeOK, Start
<1>7. CASE Pausing
  <2>1. ASSUME NEW e \in [IDs -> Container], Pause(e), UNCHANGED <<api, receipt>>
        PROVE  TypeOK'
    BY <2>1 DEF TypeOK, Progress, Pause, Goto, Process
  <2>2. CASE CheckPaused \/ InspectAgain
    BY <2>1, <2>2 DEF TypeOK, Progress, CheckPaused, InspectAgain, Goto
  <2>3. CASE InspectPaused
    <3>1. CASE Pause(engine) /\ UNCHANGED api
      BY <2>1, <2>3, <3>1 DEF TypeOK, InspectPaused
    <3>2. CASE Goto("paused", "inspecting again") /\ UNCHANGED <<script, engine>>
      BY <2>3, <3>2, GotoType DEF TypeOK, Progress, InspectPaused, Pause, Process
    <3> QED BY <2>3, <3>1, <3>2 DEF InspectPaused
  <2>4. CASE Kill
    BY <2>1, <2>4, OnlyIDs, StoppedType DEF TypeOK, Progress, Kill, Goto, Running, Holders
  <2> QED BY <1>7, <2>2, <2>3, <2>4 DEF Pausing
<1>8. CASE AwaitPaused
  BY <1>8, GotoType DEF TypeOK, AwaitPaused, Progress, Process
<1>9. CASE Remove
  <2>1. promise' \in [Promises -> Progress]
    BY <1>9, GotoType DEF Remove, Progress
  <2>2. engine' \in [IDs -> Container]
    BY <1>9, NewContainers DEF TypeOK, Remove
  <2> QED BY <1>9, <2>1, <2>2 DEF TypeOK, Remove
<1> QED BY <1>1, <1>2, <1>3, <1>4, <1>5, <1>6, <1>7, <1>8, <1>9 DEF Creating, Starting, Removing

\* What runs in a container neither makes nor names one.
SameContainers == \A i \in IDs : /\ Exists(i)' <=> Exists(i)
                                 /\ engine'[i].named = engine[i].named

LEMMA InContainerSteps ==
    ASSUME TypeOK, NEW i \in IDs, InContainer(i)
    PROVE  TypeOK' /\ SameContainers
<1>1. engine' \in [IDs -> Container]
  <2>1. CASE engine' = Stopped(i)
    BY <2>1, StoppedType
  <2>2. CASE BeginGenesis(i) \/ EndGenesis(i) \/ ResumeGenesis(i)
    BY <2>2 DEF TypeOK, Container, BeginGenesis, EndGenesis, ResumeGenesis
  <2>3. CASE SpawnNode(i) \/ NodeUp(i)
    BY <2>3 DEF TypeOK, Container, SpawnNode, NodeUp
  <2> QED BY <2>1, <2>2, <2>3 DEF InContainer, NodeFails, Watch
<1>2. SameContainers
  BY DEF SameContainers, Exists, TypeOK, Container, InContainer, BeginGenesis, EndGenesis, ResumeGenesis,
         SpawnNode, NodeUp, NodeFails, Watch, Phase, Stopped
<1> QED BY <1>1, <1>2 DEF TypeOK, InContainer
-----------------------------------------------------------------------------
(* Promises.                                                               *)

\* A promise that goes on was open before.
LEMMA GoesOn ==
    ASSUME TypeOK, PromiseInv, NEW p \in Promises, NEW pc \in Progress, Open(p), Goto(p, pc),
           p = "started" /\ pc \in {"checking", "recreating"} \cup Remaking => script.id # NoID,
           (p \in {"created", "started"} /\ script'.id # NoID) \/ script'.id = script.id,
           \A q \in Holders : q # p => api'[q] = api[q],
           p = "paused" /\ pc \in {"inspecting again", "killing"} /\ ~raced
              => api'["paused"] = script.id,
           p = "removed" /\ pc = "removing" => api'["removed"] = script.id,
           raced' = raced, script.alive, script'.alive
    PROVE  PromiseInv'
<1>1. \A q \in Promises : promise'[q] = IF q = p THEN pc ELSE promise[q]
  BY DEF TypeOK, Goto
<1>2. \A q \in Promises : Open(q)' => Open(q)
  BY <1>1 DEF Open
<1>3. OneAtATime'
  BY <1>2 DEF PromiseInv, OneAtATime, Promises
<1>4. StartKnowsID'
  BY <1>1 DEF PromiseInv, StartKnowsID, Promises
<1>5. HoldsKnown'
  <2> SUFFICES ASSUME ~raced' PROVE HoldsKnown'
    BY DEF HoldsKnown
  <2>1. CASE p \in {"created", "started"}
    <3>1. ~Open("paused") /\ ~Open("removed")
      BY <2>1 DEF PromiseInv, OneAtATime
    <3>2. promise'["paused"] = promise["paused"] /\ promise'["removed"] = promise["removed"]
      BY <1>1, <2>1 DEF Promises
    <3> QED BY <3>1, <3>2 DEF Open, HoldsKnown
  <2>2. CASE p \in {"paused", "removed"}
    BY <1>1, <2>2 DEF PromiseInv, HoldsKnown, Holders, Promises
  <2> QED BY <2>1, <2>2 DEF Promises
<1> QED BY <1>3, <1>4, <1>5 DEF PromiseInv, Idle

\* A promise that is asked for while others are open races them.
LEMMA Asked ==
    ASSUME TypeOK, PromiseInv, script.alive, script'.alive, Racing,
           NEW p \in {"created", "started", "paused"},
           NEW pc \in {"checking", "resolved", "rejected"}, Goto(p, pc),
           p = "started" /\ pc = "checking" => script'.id # NoID,
           script'.id = script.id
    PROVE  PromiseInv'
<1>1. \A q \in Promises : promise'[q] = IF q = p THEN pc ELSE promise[q]
  BY DEF TypeOK, Goto, Promises
<1>2. ~raced' => \A q \in Promises : Open(q)' => q = p
  BY <1>1 DEF Racing, Open
<1>3. OneAtATime'
  BY <1>2 DEF OneAtATime, Promises
<1>4. StartKnowsID'
  BY <1>1 DEF PromiseInv, StartKnowsID, Remaking, Promises
<1>5. HoldsKnown'
  BY <1>1, <1>2 DEF HoldsKnown, Open, Promises
<1> QED BY <1>3, <1>4, <1>5 DEF PromiseInv, Idle

LEMMA ScriptPromises ==
    ASSUME TypeOK, PromiseInv, Construct \/ Signal \/ Exit \/ Crash \/ Asking
    PROVE  PromiseInv'
<1>1. CASE Construct
  <2>1. script'.alive /\ UNCHANGED <<promise, raced>>
    BY <1>1 DEF Construct, NoScript
  <2>2. promise["started"] = "unasked"
    BY <1>1 DEF Construct, PromiseInv, Idle, Promises
  <2>3. promise["paused"] = "unasked" /\ promise["removed"] = "unasked"
    BY <1>1 DEF Construct, PromiseInv, Idle, Promises
  <2> QED BY <2>1, <2>2, <2>3
          DEF PromiseInv, StartKnowsID, Idle, OneAtATime, HoldsKnown, Remaking, Open
<1>2. CASE Signal
  <2>1. script'.id = script.id /\ script'.alive = script.alive /\ UNCHANGED <<promise, api, raced>>
    BY <1>2 DEF Signal, TypeOK, Process
  <2> QED BY <2>1 DEF PromiseInv, StartKnowsID, Idle, OneAtATime, HoldsKnown, Open
<1>3. CASE Exit \/ Crash
  <2>1. \A p \in Promises : promise'[p] = "unasked"
    BY <1>3 DEF Exit, Crash, Die
  <2> QED BY <2>1 DEF PromiseInv, StartKnowsID, Idle, OneAtATime, HoldsKnown, Remaking, Open, Promises
<1>4. CASE AskCreated
  BY <1>4, Asked DEF AskCreated, Asks
<1>5. CASE AskStarted
  <2>1. script'.id = script.id /\ script'.alive
    BY <1>5 DEF AskStarted, Asks, TypeOK, Process
  <2>2. CASE Goto("started", "checking") /\ script.id # NoID
    BY <1>5, <2>1, <2>2, Asked DEF AskStarted, Asks
  <2>3. CASE Goto("started", "resolved") \/ Goto("started", "rejected")
    BY <1>5, <2>1, <2>3, Asked DEF AskStarted, Asks
  <2> QED BY <1>5, <2>2, <2>3 DEF AskStarted
<1>6. CASE AskPaused
  BY <1>6, Asked DEF AskPaused, Asks
<1>7. CASE AskRemoved
  <2>1. \A q \in {"created", "started"} : promise'[q] = promise[q]
    BY <1>7 DEF AskRemoved, TypeOK, Promises
  <2>2. ~raced' => ~Open("created") /\ ~Open("started")
    BY <1>7 DEF AskRemoved, Racing, Promises
  <2>3. /\ promise'["removed"] = "pausing"
        /\ promise'["paused"] \in {"checking", promise["paused"]}
        /\ UNCHANGED <<script, api>>
        /\ ~raced' => ~raced
    BY <1>7 DEF AskRemoved, Racing, TypeOK, Promises
  <2>4. HoldsKnown'
    BY <2>3 DEF PromiseInv, HoldsKnown
  <2> QED BY <1>7, <2>1, <2>2, <2>4
          DEF AskRemoved, Asks, PromiseInv, StartKnowsID, Idle, OneAtATime, Open
<1> QED BY <1>1, <1>2, <1>3, <1>4, <1>5, <1>6, <1>7 DEF Asking

LEMMA PromisesGoOn ==
    ASSUME TypeOK, PromiseInv, Creating \/ Starting \/ Pausing \/ Removing
    PROVE  PromiseInv'
<1>1. ASSUME NEW p \in Promises, NEW from \in Progress \ {"unasked", "resolved", "rejected"},
             At(p, from)
      PROVE  Open(p) /\ script.alive
  BY <1>1 DEF At, Open
<1>2. CASE Creating
  <2>1. script'.alive /\ (script'.id = script.id \/ script'.id # NoID)
    BY <1>2 DEF Creating, CheckCreated, FindPort, CheckAgain, Create, SaveReceipt,
                At, TypeOK, Process, Exists
  <2>2. Open("created") /\ script.alive /\ UNCHANGED <<api, raced>>
    BY <1>1, <1>2 DEF Creating, CheckCreated, FindPort, CheckAgain, Create, SaveReceipt,
                      Promises, Progress
  <2>3. \E pc \in Progress : Goto("created", pc)
    BY <1>2 DEF Creating, CheckCreated, FindPort, CheckAgain, Create, SaveReceipt, Progress
  <2> QED BY <2>1, <2>2, <2>3, GoesOn DEF Promises
<1>3. CASE Recreate
  <2>1. script'.alive /\ (script'.id = script.id \/ script'.id # NoID)
    <3>1. script.alive
      BY <1>3 DEF Recreate, At
    <3>2. ASSUME Unused # {}, script' = [script EXCEPT !.id = NewID]
          PROVE  script'.alive /\ script'.id # NoID
      BY <3>1, <3>2, NewIsID DEF TypeOK, Process, NoID, IDs
    <3> QED BY <1>3, <3>1, <3>2 DEF Recreate
  <2>2. Open("started") /\ script.alive /\ UNCHANGED <<api, raced>>
    BY <1>1, <1>3 DEF Recreate, Promises, Progress
  <2>3. \E pc \in {"rejected", "starting"} : Goto("started", pc)
    BY <1>3 DEF Recreate
  <2> QED BY <2>1, <2>2, <2>3, GoesOn DEF Promises, Progress, Remaking
<1>4. CASE CheckStarted \/ CheckRecreated \/ Start \/ WaitLog \/ WaitPort
  <2>1. UNCHANGED <<script, api, raced>>
    BY <1>4 DEF CheckStarted, CheckRecreated, Start, WaitLog, WaitPort
  <2>2. Open("started") /\ script.alive
    BY <1>1, <1>4 DEF CheckStarted, CheckRecreated, Start, WaitLog, WaitPort, Promises, Progress
  <2>3. \E pc \in Progress :
           /\ Goto("started", pc)
           /\ pc \in {"checking", "recreating"} \cup Remaking => script.id # NoID
    BY <1>4 DEF CheckStarted, CheckRecreated, Start, WaitLog, WaitPort, Progress, Remaking, At,
                PromiseInv, StartKnowsID
  <2> QED BY <2>1, <2>2, <2>3, GoesOn DEF Promises
<1>5. CASE Pausing
  <2>1. script'.alive /\ script'.id = script.id
    BY <1>5 DEF Pausing, CheckPaused, InspectPaused, InspectAgain, Kill, Pause, At, TypeOK, Process
  <2>2. Open("paused") /\ script.alive /\ raced' = raced
    BY <1>1, <1>5 DEF Pausing, CheckPaused, InspectPaused, InspectAgain, Kill, Promises, Progress
  <2>3. \A q \in Holders \ {"paused"} : api'[q] = api[q]
    BY <1>5 DEF Pausing, CheckPaused, InspectPaused, InspectAgain, Kill, TypeOK
  <2>4. \E pc \in Progress :
           /\ Goto("paused", pc)
           /\ pc \in {"inspecting again", "killing"} /\ ~raced => api'["paused"] = script.id
    <3>1. CASE CheckPaused \/ Kill
      BY <3>1 DEF CheckPaused, Kill, Pause, Progress
    <3>2. CASE InspectPaused
      BY <3>2 DEF InspectPaused, Pause, Progress, TypeOK, Holders
    <3>3. CASE InspectAgain
      BY <3>3 DEF InspectAgain, Pause, Progress, At, PromiseInv, HoldsKnown
    <3> QED BY <1>5, <3>1, <3>2, <3>3 DEF Pausing
  <2> QED BY <2>1, <2>2, <2>3, <2>4, GoesOn DEF Promises
<1>6. CASE AwaitPaused \/ Remove
  <2>1. UNCHANGED <<script, raced>>
    BY <1>6 DEF AwaitPaused, Remove
  <2>2. Open("removed") /\ script.alive
    BY <1>1, <1>6 DEF AwaitPaused, Remove, Promises, Progress
  <2>3. \A q \in Holders \ {"removed"} : api'[q] = api[q]
    BY <1>6 DEF AwaitPaused, Remove, TypeOK
  <2>4. \E pc \in Progress : /\ Goto("removed", pc)
                             /\ pc = "removing" => api'["removed"] = script.id
    BY <1>6 DEF AwaitPaused, Remove, Progress, TypeOK, Holders
  <2> QED BY <2>1, <2>2, <2>3, <2>4, GoesOn DEF Promises
<1> QED BY <1>2, <1>3, <1>4, <1>5, <1>6 DEF Starting, Removing
-----------------------------------------------------------------------------
(* Containers and the receipt.                                             *)

ContainerInv == OneName /\ KnowsReceipt /\ GoneWhenRemade /\ ReceiptNamesContainer

\* Nothing is made, named, removed or told.
LEMMA NothingTold ==
    ASSUME TypeOK, ContainerInv, SameContainers, UNCHANGED <<receipt, adrift>>,
           script'.id = script.id \/ script'.id \in {receipt, NoID},
           promise'["created"] = "unsaved" <=> promise["created"] = "unsaved",
           promise'["started"] \in Remaking =>
              script'.id = script.id /\ (promise["started"] \in Remaking \/ ~Exists(script.id)),
           script'.id = script.id /\ Overtaken => Overtaken'
    PROVE  ContainerInv'
<1>1. Exists(receipt)' <=> Exists(receipt)
  BY DEF TypeOK, SameContainers, Exists, NoID
<1>2. OneName'
  BY DEF ContainerInv, OneName, SameContainers
<1>3. KnowsReceipt'
  BY <1>1 DEF ContainerInv, KnowsReceipt
<1>4. ReceiptNamesContainer'
  BY DEF ContainerInv, ReceiptNamesContainer, SameContainers
<1>5. Exists(script.id)' /\ script'.id = script.id => Exists(script.id)
  BY DEF TypeOK, Process, SameContainers, Exists, NoID
<1>6. GoneWhenRemade'
  BY <1>5 DEF ContainerInv, GoneWhenRemade
<1> QED BY <1>2, <1>3, <1>4, <1>6 DEF ContainerInv

LEMMA SameEngine == UNCHANGED engine => SameContainers
BY DEF SameContainers, Exists

LEMMA ScriptContainers ==
    ASSUME TypeOK, PromiseInv, ContainerInv, Construct \/ Signal \/ Exit \/ Crash \/ Asking
    PROVE  ContainerInv'
<1>1. CASE Construct
  <2>1. script'.id \in {receipt, NoID}
    BY <1>1 DEF Construct, NoScript
  <2>2. UNCHANGED <<promise, raced>> /\ promise["started"] = "unasked"
    BY <1>1 DEF Construct, PromiseInv, Idle, Promises
  <2>3. promise'["started"] \notin Remaking /\ (Overtaken => Overtaken')
    BY <2>2 DEF Overtaken, Remaking
  <2>4. UNCHANGED <<engine, receipt, adrift>>
    BY <1>1 DEF Construct
  <2> QED BY <2>1, <2>2, <2>3, <2>4, NothingTold, SameEngine
<1>2. CASE Signal
  <2>1. script'.id = script.id
    BY <1>2 DEF Signal, TypeOK, Process
  <2> QED BY <1>2, <2>1, NothingTold, SameEngine DEF Signal, Overtaken
<1>3. CASE Exit \/ Crash
  <2>1. Die /\ UNCHANGED <<engine, receipt>>
    BY <1>3 DEF Exit, Crash
  <2>2. script'.id = NoID
    BY <2>1 DEF Die, NoScript
  <2>3. OneName'
    BY <2>1 DEF ContainerInv, OneName, Exists
  <2>4. ReceiptNamesContainer'
    BY <2>1 DEF ContainerInv, ReceiptNamesContainer, Exists, Die
  <2>5. promise'["started"] = "unasked"
    BY <2>1 DEF Die, Promises
  <2> QED BY <2>2, <2>3, <2>4, <2>5 DEF ContainerInv, KnowsReceipt, GoneWhenRemade, Remaking
<1>4. CASE Asking
  <2>1. script'.id = script.id /\ UNCHANGED <<engine, receipt, adrift>>
    BY <1>4 DEF Asking, AskCreated, AskStarted, AskPaused, AskRemoved, TypeOK, Process
  <2>2. promise'["created"] = "unsaved" <=> promise["created"] = "unsaved"
    BY <1>4 DEF Asking, AskCreated, AskStarted, AskPaused, AskRemoved, Asks, Goto, TypeOK, Promises
  <2>3. promise'["started"] \in Remaking => promise["started"] \in Remaking
    BY <1>4 DEF Asking, AskCreated, AskStarted, AskPaused, AskRemoved, Goto, TypeOK, Promises, Remaking
  <2>4. Overtaken => Overtaken'
    BY <1>4 DEF Asking, AskCreated, AskStarted, AskPaused, AskRemoved, Asks, Racing, Goto,
                TypeOK, Promises, Overtaken
  <2> QED BY <2>1, <2>2, <2>3, <2>4, NothingTold, SameEngine
<1> QED BY <1>1, <1>2, <1>3, <1>4

\* A container is removed.
LEMMA RemoveContainers == ASSUME TypeOK, ContainerInv, Remove PROVE ContainerInv'
<1>1. \A i \in IDs : Exists(i)' => Exists(i) /\ engine'[i].named = engine[i].named
  BY DEF Remove, TypeOK, Exists, Absent
<1>2. /\ UNCHANGED <<script, receipt, adrift, raced>>
      /\ \A p \in {"created", "started"} : promise'[p] = promise[p]
  BY DEF Remove, Goto, TypeOK, Promises
<1>3. \A i \in {receipt, script.id} : ~Exists(i) => ~Exists(i)'
  BY <1>1, <1>2 DEF TypeOK, Process, Exists, NoID
<1>4. OneName'
  BY <1>1 DEF ContainerInv, OneName
<1>5. KnowsReceipt'
  BY <1>2, <1>3 DEF ContainerInv, KnowsReceipt, Overtaken
<1>6. ReceiptNamesContainer'
  BY <1>1, <1>2 DEF ContainerInv, ReceiptNamesContainer
<1>7. GoneWhenRemade'
  BY <1>2, <1>3 DEF ContainerInv, GoneWhenRemade, Overtaken
<1> QED BY <1>4, <1>5, <1>6, <1>7 DEF ContainerInv

\* A container is made.
LEMMA Made ==
    ASSUME TypeOK, Unused # {}, NEW named \in BOOLEAN,
           engine' = [engine EXCEPT ![NewID] = Fresh(named)]
    PROVE  /\ \A i \in IDs \ {NewID} : Exists(i)' <=> Exists(i)
           /\ \A i \in IDs \ {NewID} : engine'[i].named = engine[i].named
           /\ engine'[NewID].named = named
BY NewIsID DEF TypeOK, Exists, Fresh, Absent

LEMMA CheckAgainContainers == ASSUME TypeOK, ContainerInv, CheckAgain PROVE ContainerInv'
<1>1. promise["created"] = "creating" /\ ~Overtaken
  BY DEF CheckAgain, At, Overtaken
<1>2. CASE Exists(script.id) /\ receipt' = script.id /\ Goto("created", "resolved")
  <2>1. script.id = receipt \/ (script.id \in adrift /\ ~Exists(receipt))
    BY <1>1, <1>2 DEF ContainerInv, KnowsReceipt, Exists
  <2>2. ReceiptNamesContainer'
    BY <1>1, <1>2, <2>1 DEF CheckAgain, ContainerInv, ReceiptNamesContainer, Exists
  <2>3. KnowsReceipt'
    BY <1>2 DEF CheckAgain, KnowsReceipt
  <2>4. OneName'
    BY DEF CheckAgain, ContainerInv, OneName, Exists
  <2>5. promise'["started"] = promise["started"]
    BY <1>2 DEF Goto, TypeOK, Promises
  <2>6. GoneWhenRemade'
    BY <1>1, <1>2, <2>5 DEF ContainerInv, GoneWhenRemade
  <2> QED BY <2>2, <2>3, <2>4, <2>6 DEF ContainerInv
<1>3. CASE Goto("created", "making") /\ UNCHANGED receipt
  <2>1. promise'["created"] = "making" /\ promise'["started"] = promise["started"]
    BY <1>3 DEF Goto, TypeOK, Promises
  <2> QED BY <1>1, <1>3, <2>1, NothingTold, SameEngine DEF CheckAgain
<1> QED BY <1>2, <1>3 DEF CheckAgain

LEMMA CreateContainers == ASSUME TypeOK, ContainerInv, Create PROVE ContainerInv'
<1>1. promise["created"] = "making" /\ ~Overtaken
  BY DEF Create, At, Overtaken
<1>2. promise'["started"] = promise["started"]
  BY DEF Create, Goto, TypeOK, Promises
<1>3. CASE Goto("created", "rejected") /\ UNCHANGED engine
  <2>1. promise'["created"] = "rejected"
    BY <1>3 DEF Goto, TypeOK, Promises
  <2> QED BY <1>1, <1>2, <1>3, <2>1, NothingTold, SameEngine DEF Create
<1>4. CASE /\ ~Taken /\ Unused # {} /\ engine' = [engine EXCEPT ![NewID] = Fresh(TRUE)]
           /\ Goto("created", "unsaved")
  <2>1. promise'["created"] = "unsaved"
    BY <1>4 DEF Goto, TypeOK, Promises
  <2>2. OneName'
    BY <1>4, Made DEF OneName, Taken
  <2>3. NewID # script.id
    BY <1>4 DEF NewID, Unused
  <2>4. ~Exists(script.id) => ~Exists(script.id)'
    BY <1>4, <2>3, Made DEF Create, TypeOK, Process, Exists
  <2>5. GoneWhenRemade'
    BY <1>1, <1>2, <2>4 DEF Create, ContainerInv, GoneWhenRemade
  <2> QED BY <2>1, <2>2, <2>5 DEF ContainerInv, KnowsReceipt, ReceiptNamesContainer
<1> QED BY <1>3, <1>4 DEF Create

LEMMA SaveContainers == ASSUME TypeOK, PromiseInv, ContainerInv, SaveReceipt PROVE ContainerInv'
<1>1. PICK i \in IDs : /\ Exists(i) /\ engine[i].named
                       /\ script' = [script EXCEPT !.id = i]
                       /\ receipt' = i
  BY DEF SaveReceipt
<1>2. script'.id = i
  BY <1>1 DEF TypeOK, Process
<1>3. OneName' /\ ReceiptNamesContainer'
  BY <1>1 DEF SaveReceipt, ContainerInv, OneName, ReceiptNamesContainer, Exists
<1>4. promise'["created"] = "resolved" /\ promise'["started"] = promise["started"]
  BY DEF SaveReceipt, Goto, TypeOK, Promises
<1>5. promise["started"] \in Remaking => raced
  BY DEF SaveReceipt, At, PromiseInv, OneAtATime, Open, Remaking
<1>6. GoneWhenRemade'
  BY <1>4, <1>5 DEF SaveReceipt, GoneWhenRemade, Overtaken
<1> QED BY <1>1, <1>2, <1>3, <1>6 DEF ContainerInv, KnowsReceipt

LEMMA RecreateContainers ==
    ASSUME TypeOK, PromiseInv, ContainerInv, Recreate
    PROVE  ContainerInv'
<1>1. PICK named \in BOOLEAN :
         \/ named /\ Taken /\ Goto("started", "rejected") /\ UNCHANGED <<script, engine, adrift>>
         \/ /\ ~(named /\ Taken) /\ Unused # {}
            /\ engine' = [engine EXCEPT ![NewID] = Fresh(named)]
            /\ script' = [script EXCEPT !.id = NewID]
            /\ adrift' = adrift \cup {NewID}
            /\ Goto("started", "starting")
  BY DEF Recreate
<1>2. /\ promise["started"] \in Remaking /\ script.id # NoID
      /\ promise'["created"] = promise["created"] /\ promise'["started"] \notin Remaking
      /\ UNCHANGED <<receipt, raced>>
  BY DEF Recreate, At, PromiseInv, StartKnowsID, Goto, TypeOK, Promises, Remaking
<1>3. CASE UNCHANGED <<script, engine, adrift>>
  BY <1>2, <1>3, NothingTold, SameEngine DEF Overtaken
<1>4. CASE /\ ~(named /\ Taken) /\ Unused # {}
           /\ engine' = [engine EXCEPT ![NewID] = Fresh(named)]
           /\ script' = [script EXCEPT !.id = NewID]
           /\ adrift' = adrift \cup {NewID}
  <2>1. script'.id = NewID
    BY <1>4 DEF TypeOK, Process
  <2>2. OneName'
    BY <1>4, <2>1, Made DEF ContainerInv, OneName, Taken
  <2>3. ReceiptNamesContainer'
    BY <1>2, <1>4, <2>1, Made DEF ContainerInv, ReceiptNamesContainer
  <2>4. receipt # NewID
    BY <1>4 DEF NewID, Unused
  <2>5. Exists(receipt)' <=> Exists(receipt)
    BY <1>2, <1>4, <2>1, <2>4, Made DEF TypeOK, Exists
  <2>6. promise["created"] # "unsaved" => ~Exists(receipt) \/ Overtaken
    BY <1>2 DEF ContainerInv, KnowsReceipt, GoneWhenRemade
  <2>7. KnowsReceipt'
    BY <1>2, <1>4, <2>1, <2>5, <2>6 DEF KnowsReceipt, Overtaken
  <2> QED BY <1>2, <2>2, <2>3, <2>7 DEF ContainerInv, GoneWhenRemade
<1> QED BY <1>1, <1>3, <1>4

LEMMA OtherContainers ==
    ASSUME TypeOK, ContainerInv,
           \/ CheckCreated \/ FindPort \/ CheckStarted \/ CheckRecreated \/ Start
           \/ WaitLog \/ WaitPort \/ Pausing \/ AwaitPaused
    PROVE  ContainerInv'
<1>1. SameContainers
  <2>1. CASE Start
    BY <2>1, OnlyIDs DEF Start, SameContainers, Exists, TypeOK, Container, Holders
  <2>2. ASSUME Running(api["paused"]), Pause(Stopped(api["paused"]))
        PROVE  SameContainers
    BY <2>2, OnlyIDs DEF Pause, Stopped, Running, SameContainers, Exists, TypeOK, Container, Holders
  <2>3. CASE Pausing
    BY <2>2, <2>3, SameEngine DEF Pausing, CheckPaused, InspectPaused, InspectAgain, Kill, Pause
  <2> QED BY <2>1, <2>3, SameEngine
          DEF CheckCreated, FindPort, CheckStarted, CheckRecreated, WaitLog, WaitPort, AwaitPaused
<1> USE DEF CheckCreated, FindPort, CheckStarted, CheckRecreated, Start, WaitLog, WaitPort, AwaitPaused,
            Pausing, CheckPaused, InspectPaused, InspectAgain, Kill, Pause
<1>2. script'.id = script.id
  BY DEF TypeOK, Process
<1>3. promise'["created"] = "unsaved" <=> promise["created"] = "unsaved"
  BY DEF At, Goto, TypeOK, Promises
<1>4. UNCHANGED <<receipt, adrift>>
  OBVIOUS
<1>5. promise'["started"] \in Remaking => promise["started"] \in Remaking \/ ~Exists(script.id)
  BY DEF At, Goto, TypeOK, Promises, Remaking
<1>6. Overtaken => Overtaken'
  BY DEF At, Goto, TypeOK, Promises, Overtaken
<1> QED BY <1>1, <1>2, <1>3, <1>4, <1>5, <1>6, NothingTold
-----------------------------------------------------------------------------
LEMMA NextIInv == IInv /\ [Next]_vars => IInv'
<1> SUFFICES ASSUME IInv, [Next]_vars PROVE IInv'
  OBVIOUS
<1>1. TypeOK /\ PromiseInv /\ ContainerInv
  BY DEF IInv, ContainerInv
<1>2. SUFFICES TypeOK' /\ PromiseInv' /\ ContainerInv'
  BY DEF IInv, ContainerInv
<1>3. CASE Construct \/ Signal \/ Exit \/ Crash \/ Asking
  BY <1>1, <1>3, ScriptTypes, ScriptPromises, ScriptContainers
<1>4. CASE Creating \/ Starting \/ Pausing \/ Removing
  <2>1. TypeOK' /\ PromiseInv'
    BY <1>1, <1>4, PromiseTypes, PromisesGoOn
  <2> QED BY <1>1, <1>4, <2>1, CheckAgainContainers, CreateContainers, SaveContainers,
             RecreateContainers, RemoveContainers, OtherContainers DEF Creating, Starting, Removing
<1>5. ASSUME NEW i \in IDs, InContainer(i)
      PROVE  TypeOK' /\ PromiseInv' /\ ContainerInv'
  <2>1. UNCHANGED <<script, promise, api, receipt, adrift, raced>>
    BY <1>5 DEF InContainer
  <2>2. PromiseInv'
    BY <1>1, <2>1 DEF PromiseInv, StartKnowsID, Idle, OneAtATime, HoldsKnown, Open
  <2> QED BY <1>1, <1>5, <2>1, <2>2, InContainerSteps, NothingTold DEF Overtaken
<1>6. CASE UNCHANGED vars
  <2>1. TypeOK'
    BY <1>1, <1>6 DEF vars, TypeOK
  <2>2. PromiseInv'
    BY <1>1, <1>6 DEF vars, PromiseInv, StartKnowsID, Idle, OneAtATime, HoldsKnown, Open
  <2>3. ContainerInv'
    BY <1>1, <1>6 DEF vars, ContainerInv, OneName, KnowsReceipt, GoneWhenRemade, Overtaken,
                      ReceiptNamesContainer, Exists
  <2> QED BY <2>1, <2>2, <2>3
<1> QED BY <1>3, <1>4, <1>5, <1>6 DEF Next

(* However processes follow each other and wherever they end, the devnet   *)
(* of the chain is found through the receipt, but for containers that      *)
(* nobody could be told of.                                                *)
THEOREM ReceiptAlwaysNames == Spec => []ReceiptNamesContainer
<1>1. IInv => ReceiptNamesContainer
  BY DEF IInv
<1> QED BY InitIInv, NextIInv, <1>1, PTL DEF Spec
-----------------------------------------------------------------------------
(* What the promises promise.                                              *)

\* Without a race, the chain's container is the one the process knows, or gone.
LEMMA OursIsKnown ==
    ASSUME IInv, ~raced, Open("paused") \/ Open("removed"), script.id # NoID,
           NEW i \in IDs, Exists(i), Ours(i)
    PROVE  i = script.id
<1>1. promise["created"] # "unsaved"
  BY DEF IInv, PromiseInv, OneAtATime, Open
<1>2. i = receipt
  BY <1>1 DEF IInv, ReceiptNamesContainer, Ours
<1> QED BY <1>1, <1>2 DEF IInv, KnowsReceipt, Overtaken

PromiseStep == ~raced' /\ script.id' # NoID =>
                 /\ Resolves("paused")  => ~\E i \in IDs : Ours(i)' /\ Running(i)'
                 /\ Resolves("removed") => ~\E i \in IDs : Ours(i)' /\ Exists(i)'
                 /\ Resolves("created") => Exists(receipt)' \/ script.id' \in adrift'

LEMMA WhoResolves ==
    ASSUME IInv, Next, NEW p \in {"created", "paused", "removed"}, Resolves(p)
    PROVE  /\ p = "created" => CheckCreated \/ CheckAgain \/ SaveReceipt
           /\ p = "paused"  => Pausing
           /\ p = "removed" => Remove
<1>1. promise \in [Promises -> Progress]
  BY DEF IInv, TypeOK
<1>2. ASSUME NEW q \in Promises \ {p}, NEW pc, Goto(q, pc)
      PROVE  FALSE
  BY <1>1, <1>2 DEF Goto, Resolves
<1>3. promise' # promise
  BY DEF Resolves
<1>4. ~(Construct \/ Signal \/ \E i \in IDs : InContainer(i))
  BY <1>3 DEF Construct, Signal, InContainer
<1>5. ~(Exit \/ Crash)
  BY DEF Exit, Crash, Die, Resolves, Promises
<1>6. ~Asking
  BY <1>1 DEF Asking, AskCreated, AskStarted, AskPaused, AskRemoved, Asks, Goto, Resolves, Promises
<1>7. ~Starting
  BY <1>2 DEF Starting, CheckStarted, CheckRecreated, Recreate, Start, WaitLog, WaitPort, Promises
<1>8. Creating => p = "created"
  BY <1>2 DEF Creating, CheckCreated, FindPort, CheckAgain, Create, SaveReceipt, Promises
<1>9. Pausing => p = "paused"
  BY <1>2 DEF Pausing, CheckPaused, InspectPaused, InspectAgain, Kill, Pause, Promises
<1>10. Removing => p = "removed"
  BY <1>2 DEF Removing, AwaitPaused, Remove, Promises
<1>11. ~AwaitPaused /\ ~FindPort /\ ~Create
  BY <1>1 DEF AwaitPaused, FindPort, Create, Goto, Resolves, Promises
<1> QED BY <1>4, <1>5, <1>6, <1>7, <1>8, <1>9, <1>10, <1>11 DEF Next, Creating, Removing

LEMMA PausedHolds ==
    ASSUME IInv, Pausing, Resolves("paused"), ~raced', script.id # NoID,
           NEW i \in IDs, Ours(i)', Running(i)'
    PROVE  FALSE
<1>1. ~raced /\ Open("paused") /\ adrift' = adrift
  <2>1. raced' = raced /\ adrift' = adrift
    BY DEF Pausing, CheckPaused, InspectPaused, InspectAgain, Kill
  <2>2. Open("paused")
    BY DEF Pausing, CheckPaused, InspectPaused, InspectAgain, Kill, At, Open
  <2> QED BY <2>1, <2>2
<1>2. Kill => api["paused"] = script.id
  BY <1>1 DEF Kill, At, IInv, PromiseInv, HoldsKnown
<1>3. \/ UNCHANGED engine /\ ~Running(script.id)
      \/ Running(script.id) /\ engine' = Stopped(script.id)
  BY <1>2 DEF Pausing, CheckPaused, InspectPaused, InspectAgain, Kill, Pause, Resolves, Goto,
              Exists, Running, IInv, TypeOK, Promises
<1>4. Exists(i) /\ Ours(i)
  <2>1. CASE UNCHANGED engine
    BY <1>1, <2>1 DEF Ours, Running, Exists
  <2>2. CASE Running(script.id) /\ engine' = Stopped(script.id)
    BY <1>1, <2>2, OnlyIDs DEF IInv, TypeOK, Container, Ours, Running, Exists, Stopped
  <2> QED BY <1>3, <2>1, <2>2
<1>5. i = script.id
  BY <1>1, <1>4, OursIsKnown
<1>6. CASE UNCHANGED engine /\ ~Running(script.id)
  BY <1>5, <1>6 DEF Running
<1>7. CASE Running(script.id) /\ engine' = Stopped(script.id)
  BY <1>5, <1>7, OnlyIDs DEF IInv, TypeOK, Container, Running, Stopped
<1> QED BY <1>3, <1>6, <1>7

LEMMA RemovedHolds ==
    ASSUME IInv, Remove, Resolves("removed"), ~raced', script.id # NoID,
           NEW i \in IDs, Ours(i)', Exists(i)'
    PROVE  FALSE
<1>1. ~raced /\ Open("removed") /\ adrift' = adrift
  BY DEF Remove, At, Open
<1>2. engine' = [engine EXCEPT ![script.id] = Absent]
  <2>1. engine' = [engine EXCEPT ![api["removed"]] = Absent]
    BY DEF Remove, Resolves, Goto, IInv, TypeOK, Promises
  <2>2. api["removed"] = script.id
    BY <1>1 DEF Remove, At, IInv, PromiseInv, HoldsKnown
  <2> QED BY <2>1, <2>2
<1>3. Exists(i) /\ Ours(i) /\ i # script.id
  BY <1>1, <1>2 DEF IInv, TypeOK, Ours, Exists, Absent
<1> QED BY <1>1, <1>3, OursIsKnown

LEMMA CreatedHolds ==
    ASSUME IInv, CheckCreated \/ CheckAgain \/ SaveReceipt, Resolves("created"), script'.id # NoID
    PROVE  Exists(receipt)' \/ script'.id \in adrift'
<1>1. CASE CheckCreated
  <2>1. Exists(script.id) /\ UNCHANGED <<script, engine, receipt, adrift>>
    BY <1>1 DEF CheckCreated, Resolves, Goto, IInv, TypeOK, Promises
  <2>2. promise["created"] # "unsaved"
    BY <1>1 DEF CheckCreated, At
  <2> QED BY <2>1, <2>2 DEF IInv, KnowsReceipt, Exists
<1>2. CASE CheckAgain
  BY <1>2 DEF CheckAgain, Resolves, Goto, IInv, TypeOK, Promises, Exists
<1>3. CASE SaveReceipt
  BY <1>3 DEF SaveReceipt, Exists
<1> QED BY <1>1, <1>2, <1>3

(* A promise that was awaited alone holds what it says about the container *)
(* of the chain, though its check and its effect are steps apart and other *)
(* processes came before.                                                  *)
THEOREM PromisesAlwaysHold == Spec => PromisesHold
<1>1. IInv /\ [Next]_vars => [PromiseStep]_vars
  <2> SUFFICES ASSUME IInv, Next, ~raced', script'.id # NoID
               PROVE  /\ Resolves("paused")  => ~\E i \in IDs : Ours(i)' /\ Running(i)'
                      /\ Resolves("removed") => ~\E i \in IDs : Ours(i)' /\ Exists(i)'
                      /\ Resolves("created") => Exists(receipt)' \/ script'.id \in adrift'
    BY DEF PromiseStep
  <2>1. ASSUME Resolves("paused") PROVE ~\E i \in IDs : Ours(i)' /\ Running(i)'
    <3>1. Pausing
      BY <2>1, WhoResolves
    <3>2. script'.id = script.id
      BY <3>1 DEF Pausing, CheckPaused, InspectPaused, InspectAgain, Kill, Pause, IInv, TypeOK, Process
    <3> QED BY <2>1, <3>1, <3>2, PausedHolds
  <2>2. ASSUME Resolves("removed") PROVE ~\E i \in IDs : Ours(i)' /\ Exists(i)'
    <3>1. Remove
      BY <2>2, WhoResolves
    <3> QED BY <2>2, <3>1, RemovedHolds DEF Remove
  <2>3. ASSUME Resolves("created") PROVE Exists(receipt)' \/ script'.id \in adrift'
    BY <2>3, WhoResolves, CreatedHolds
  <2> QED BY <2>1, <2>2, <2>3
<1> QED BY InitIInv, NextIInv, <1>1, PTL DEF Spec, PromisesHold, PromiseStep
=============================================================================
