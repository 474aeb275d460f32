------------------------------- MODULE Devnet -------------------------------
(***************************************************************************)
(* A local devnet (src/packages/devnet, src/packages/oci): the process of  *)
(* a script, which creates, starts, pauses and removes a container through *)
(* four memoized promises; the container engine; the script that runs      *)
(* inside the container (devnet.init.mjs); and the two files of the state  *)
(* directory through which they know of each other, the receipt with the   *)
(* container's id and the run file, whose deletion stops the node.         *)
(*                                                                         *)
(* Every await is a step of its own, so that the promises of one process   *)
(* interleave as they do there: a request to the engine is made and        *)
(* answered in one step, except the one that makes the chain's container,  *)
(* whose answer may be lost with the process.  (The wait for a container   *)
(* to stop or to go is part of the request that stops or removes it.)  A   *)
(* process may end at any await, with or without its exit handler, and     *)
(* another one may take over with the id in the receipt.                   *)
(***************************************************************************)
EXTENDS Naturals, FiniteSets

CONSTANT MaxProcesses     \* bound: processes of the script

DevnetAssumption == MaxProcesses \in Nat

VARIABLES script,     \* the process and its DevnetContainer object
          promise,    \* the four promises of the object, and where they wait
          api,        \* the containers that start(), kill() and remove() hold on to
          engine,     \* the containers
          receipt,    \* devnet.json: the id of a container, or NoID
          run_file,   \* devnet.run: is it there?
          adrift,     \* history: containers whose id no receipt could get
          raced,      \* history: was one promise asked for while another was open?
          ended       \* how the last process ended

vars == <<script, promise, api, engine, receipt, run_file, adrift, raced, ended>>

NoID == 0
IDs  == 1..(2 * MaxProcesses)     \* a process creates two containers at most
Promises == {"created", "started", "paused", "removed"}
Holders  == {"started", "paused", "removed"}
Modes    == {"remain", "pause", "remove"}   \* onScriptExit

\* A container is known by the chain's name and runs devnet.init.mjs, unless
\* start() made it for an object that had not been told a name.  `genesis` and
\* `said` (has the node logged waitString?) outlast a run; `phase` does not.
Absent == [status |-> "absent", named |-> FALSE, genesis |-> "missing",
           said |-> FALSE, phase |-> "off"]
Fresh(named) == [Absent EXCEPT !.status = "created", !.named = named]

Exists(id)  == id # NoID /\ engine[id].status # "absent"
Running(id) == id # NoID /\ engine[id].status = "running"
Taken       == \E i \in IDs : Exists(i) /\ engine[i].named
Unused      == {i \in IDs : ~Exists(i)}
                 \ (adrift \cup {receipt, script.id} \cup {api[p] : p \in Holders})
NewID       == CHOOSE i \in Unused : TRUE
Stopped(i)  == [engine EXCEPT ![i].status = "exited", ![i].phase = "off"]

NoScript == [alive |-> FALSE, mode |-> "remain", id |-> NoID, named |-> FALSE,
             running |-> FALSE, handler |-> "unset", number |-> 0]

Settled(p) == promise[p] \in {"resolved", "rejected"}
Open(p)    == promise[p] \notin {"unasked", "resolved", "rejected"}
At(p, pc)  == script.alive /\ promise[p] = pc
Goto(p, pc) == promise' = [promise EXCEPT ![p] = pc]

Init == /\ script = NoScript
        /\ promise = [p \in Promises |-> "unasked"]
        /\ api = [p \in Holders |-> NoID]
        /\ engine = [i \in IDs |-> Absent]
        /\ receipt = NoID
        /\ run_file = FALSE
        /\ adrift = {}
        /\ raced = FALSE
        /\ ended = "never"
-----------------------------------------------------------------------------
(* The process.                                                            *)

\* A script constructs a DevnetContainer, with the id in the receipt or
\* without one, and may declare that it is running.
Construct ==
  /\ ~script.alive /\ script.number < MaxProcesses
  /\ \E mode \in Modes, id \in {receipt, NoID}, running \in BOOLEAN :
        script' = [NoScript EXCEPT !.alive = TRUE, !.mode = mode, !.id = id,
                                   !.running = running, !.number = script.number + 1]
  /\ ended' = "never"
  /\ UNCHANGED <<promise, api, engine, receipt, run_file, adrift, raced>>

\* The exit handler does its work once, for whichever event comes first.
HandleExit ==
  run_file' = (run_file /\ ~(script.handler = "set" /\ script.mode # "remain"))

\* A signal, or a rejection that nobody handles: with the handler registered
\* for it, the process goes on.
Signal ==
  /\ script.alive /\ script.handler = "set"
  /\ HandleExit
  /\ script' = [script EXCEPT !.handler = "called"]
  /\ UNCHANGED <<promise, api, engine, receipt, adrift, raced, ended>>

\* What is gone with the process; an answer on its way to it is lost.
Die ==
  /\ script' = [NoScript EXCEPT !.number = script.number]
  /\ promise' = [p \in Promises |-> "unasked"]
  /\ api' = [p \in Holders |-> NoID]
  /\ raced' = FALSE
  /\ adrift' = adrift \cup {i \in IDs : Exists(i) /\ engine[i].named /\ promise["created"] = "unsaved"}

WasReady == promise["started"] = "resolved" /\ script.handler = "set"

Exit ==
  /\ script.alive
  /\ HandleExit
  /\ ended' = IF script.handler = "unset" \/ script.mode = "remain" THEN "quit"
              ELSE IF WasReady THEN "ready" ELSE "early"
  /\ Die
  /\ UNCHANGED <<engine, receipt>>

\* The process is killed, and no handler runs.
Crash ==
  /\ script.alive
  /\ ended' = "crashed"
  /\ Die
  /\ UNCHANGED <<engine, receipt, run_file>>
-----------------------------------------------------------------------------
(* The promises.  Each is asked for once per object: later requests get    *)
(* the same promise.                                                       *)

Asks(p) == script.alive /\ promise[p] = "unasked"
Racing  == raced' = (raced \/ \E q \in Promises : Open(q))

AskCreated ==
  /\ Asks("created") /\ Racing
  /\ Goto("created", "checking")
  /\ UNCHANGED <<script, api, engine, receipt, run_file, adrift, ended>>

\* exists(), and a free port when there is none.
CheckCreated ==
  /\ At("created", "checking")
  /\ Goto("created", IF Exists(script.id) THEN "resolved" ELSE "porting")
  /\ UNCHANGED <<script, api, engine, receipt, run_file, adrift, raced, ended>>

\* The container gets its name and its options.
FindPort ==
  /\ At("created", "porting")
  /\ script' = [script EXCEPT !.named = TRUE]
  /\ Goto("created", "creating")
  /\ UNCHANGED <<api, engine, receipt, run_file, adrift, raced, ended>>

\* create() checks again, in case start() has made the container meanwhile, and
\* then looks for the image.
CheckAgain ==
  /\ At("created", "creating")
  /\ \/ Exists(script.id) /\ receipt' = script.id /\ Goto("created", "resolved")
     \/ ~Exists(script.id) /\ Goto("created", "making") /\ UNCHANGED receipt
  /\ UNCHANGED <<script, api, engine, run_file, adrift, raced, ended>>

\* createContainer(): the engine refuses a name that is taken.
Create ==
  /\ At("created", "making")
  /\ \/ Taken /\ Goto("created", "rejected") /\ UNCHANGED engine
     \/ /\ ~Taken /\ Unused # {}
        /\ engine' = [engine EXCEPT ![NewID] = Fresh(TRUE)]
        /\ Goto("created", "unsaved")
  /\ UNCHANGED <<script, api, receipt, run_file, adrift, raced, ended>>

\* Fault: The receipt is saved from what was known before the request.
SaveReceiptStale ==
  /\ At("created", "unsaved")
  /\ \E i \in IDs : /\ Exists(i) /\ engine[i].named
                    /\ script' = [script EXCEPT !.id = i]
                    /\ receipt' = script.id
  /\ Goto("created", "resolved")
  /\ UNCHANGED <<api, engine, run_file, adrift, raced, ended>>

\* The answer arrives: the id is set and the receipt is saved.
SaveReceipt ==
  /\ At("created", "unsaved")
  /\ \E i \in IDs : /\ Exists(i) /\ engine[i].named
                    /\ script' = [script EXCEPT !.id = i]
                    /\ receipt' = i
  /\ Goto("created", "resolved")
  /\ UNCHANGED <<api, engine, run_file, adrift, raced, ended>>

\* The exit handler is set and the devnet is called running before anything is
\* known of the container.
AskStarted ==
  /\ Asks("started") /\ Racing
  /\ \/ script.running /\ Goto("started", "resolved") /\ UNCHANGED <<script, api>>
     \/ /\ ~script.running
        /\ script' = [script EXCEPT !.running = TRUE,
                        !.handler = IF @ = "unset" THEN "set" ELSE @]
        /\ api' = [api EXCEPT !["started"] = script.id]
        /\ Goto("started", IF script.id = NoID THEN "rejected" ELSE "checking")
  /\ UNCHANGED <<engine, receipt, run_file, adrift, ended>>

CheckStarted ==
  /\ At("started", "checking")
  /\ Goto("started", IF Exists(script.id) THEN "starting" ELSE "recreating")
  /\ UNCHANGED <<script, api, engine, receipt, run_file, adrift, raced, ended>>

\* start() of a container that is gone makes another one: create() checks again,
\* takes the name that is known by now, and looks for the image.
CheckRecreated ==
  /\ At("started", "recreating")
  /\ \/ Exists(script.id) /\ Goto("started", "starting")
     \/ ~Exists(script.id) /\ script.named /\ Goto("started", "remaking")
     \/ ~Exists(script.id) /\ ~script.named /\ Goto("started", "remaking unnamed")
  /\ UNCHANGED <<script, api, engine, receipt, run_file, adrift, raced, ended>>

\* Nobody saves the id of the new one, and it is the one that is gone that is
\* started next.
Recreate ==
  \E named \in BOOLEAN :
    /\ At("started", IF named THEN "remaking" ELSE "remaking unnamed")
    /\ \/ named /\ Taken /\ Goto("started", "rejected") /\ UNCHANGED <<script, engine, adrift>>
       \/ /\ ~(named /\ Taken) /\ Unused # {}
          /\ engine' = [engine EXCEPT ![NewID] = Fresh(named)]
          /\ script' = [script EXCEPT !.id = NewID]
          /\ adrift' = adrift \cup {NewID}
          /\ Goto("started", "starting")
    /\ UNCHANGED <<api, receipt, run_file, raced, ended>>

Start ==
  /\ At("started", "starting")
  /\ LET id == api["started"]
     IN \/ ~Exists(id) /\ Goto("started", "rejected") /\ UNCHANGED engine
        \/ Running(id) /\ Goto("started", "logging") /\ UNCHANGED engine
        \/ /\ Exists(id) /\ ~Running(id)
           /\ engine' = [engine EXCEPT ![id].status = "running", ![id].phase = "boot"]
           /\ Goto("started", "logging")
  /\ UNCHANGED <<script, api, receipt, run_file, adrift, raced, ended>>

\* Fault: The log is followed from now on: a node that is up has nothing more to say.
LogSaysAgain(id) == engine[id].said /\ engine[id].phase # "up"

\* waitLog() follows the whole log, that of earlier runs included.
LogSays(id) == engine[id].said

WaitLog ==
  /\ At("started", "logging") /\ LogSays(api["started"])
  /\ Goto("started", "opening")
  /\ UNCHANGED <<script, api, engine, receipt, run_file, adrift, raced, ended>>

WaitPort ==
  /\ At("started", "opening") /\ engine[api["started"]].phase = "up"
  /\ Goto("started", "resolved")
  /\ UNCHANGED <<script, api, engine, receipt, run_file, adrift, raced, ended>>

AskPaused ==
  /\ Asks("paused") /\ Racing
  /\ Goto("paused", "checking")
  /\ UNCHANGED <<script, api, engine, receipt, run_file, adrift, ended>>

\* The end of pauseDevnetContainer.
Pause(engine2) ==
  /\ engine' = engine2
  /\ script' = [script EXCEPT !.running = FALSE]
  /\ run_file' = FALSE
  /\ Goto("paused", "resolved")

\* exists(), isRunning(), and the isRunning() of kill(), which holds on to the
\* container that it is called for: a container that is gone or has stopped by
\* any of them is not killed.
CheckPaused ==
  /\ At("paused", "checking")
  /\ \/ ~Exists(script.id) /\ Pause(engine)
     \/ Exists(script.id) /\ Goto("paused", "inspecting") /\ UNCHANGED <<script, engine, run_file>>
  /\ UNCHANGED <<api, receipt, adrift, raced, ended>>

InspectPaused ==
  /\ At("paused", "inspecting")
  /\ \/ ~Running(script.id) /\ Pause(engine) /\ UNCHANGED api
     \/ /\ Running(script.id) /\ Goto("paused", "inspecting again")
        /\ api' = [api EXCEPT !["paused"] = script.id]
        /\ UNCHANGED <<script, engine, run_file>>
  /\ UNCHANGED <<receipt, adrift, raced, ended>>

InspectAgain ==
  /\ At("paused", "inspecting again")
  /\ \/ ~Running(script.id) /\ Pause(engine)
     \/ Running(script.id) /\ Goto("paused", "killing") /\ UNCHANGED <<script, engine, run_file>>
  /\ UNCHANGED <<api, receipt, adrift, raced, ended>>

\* The engine answers 404 when the container is gone, and 409 when it has
\* stopped since it was inspected; only the first is forgiven.
Kill ==
  /\ At("paused", "killing")
  /\ LET id == api["paused"]
     IN \/ Running(id) /\ Pause(Stopped(id))
        \/ ~Exists(id) /\ Pause(engine)
        \/ /\ Exists(id) /\ ~Running(id)
           /\ Goto("paused", "rejected")
           /\ UNCHANGED <<script, engine, run_file>>
  /\ UNCHANGED <<api, receipt, adrift, raced, ended>>

\* isRunning is not called here, and a function is always true: `removed`
\* always awaits the one promise `paused`.
AskRemoved ==
  /\ Asks("removed") /\ Racing
  /\ promise' = [promise EXCEPT !["removed"] = "pausing",
                                !["paused"] = IF @ = "unasked" THEN "checking" ELSE @]
  /\ UNCHANGED <<script, api, engine, receipt, run_file, adrift, ended>>

AwaitPaused ==
  /\ At("removed", "pausing") /\ Settled("paused")
  /\ \/ /\ promise["paused"] = "rejected" \/ script.id = NoID
        /\ Goto("removed", "rejected")
        /\ UNCHANGED api
     \/ /\ promise["paused"] = "resolved" /\ script.id # NoID
        /\ api' = [api EXCEPT !["removed"] = script.id]
        /\ Goto("removed", "removing")
  /\ UNCHANGED <<script, engine, receipt, run_file, adrift, raced, ended>>

\* Fault: every refusal is forgiven.
RemoveForgiving ==
  /\ At("removed", "removing")
  /\ engine' = IF Running(api["removed"])
               THEN engine
               ELSE [engine EXCEPT ![api["removed"]] = Absent]
  /\ Goto("removed", "resolved")
  /\ UNCHANGED <<script, api, receipt, run_file, adrift, raced, ended>>

\* 404 is forgiven; a running container is not removed.
Remove ==
  /\ At("removed", "removing")
  /\ LET id == api["removed"]
     IN \/ Running(id) /\ Goto("removed", "rejected") /\ UNCHANGED engine
        \/ /\ ~Running(id)
           /\ engine' = [engine EXCEPT ![id] = Absent]
           /\ Goto("removed", "resolved")
  /\ UNCHANGED <<script, api, receipt, run_file, adrift, raced, ended>>
-----------------------------------------------------------------------------
(* The script in the container.                                            *)

Phase(i, phases) == engine[i].status = "running" /\ engine[i].phase \in phases

\* genesis.json is there from `init` on, long before the chain is complete.
BeginGenesis(i) ==
  /\ Phase(i, {"boot"}) /\ engine[i].genesis = "missing"
  /\ engine' = [engine EXCEPT ![i].genesis = "partial", ![i].phase = "genesis"]
  /\ UNCHANGED run_file

EndGenesis(i) ==
  /\ Phase(i, {"genesis"})
  /\ engine' = [engine EXCEPT ![i].genesis = "done", ![i].phase = "booted"]
  /\ UNCHANGED run_file

ResumeGenesis(i) ==
  /\ Phase(i, {"boot"}) /\ engine[i].genesis # "missing"
  /\ engine' = [engine EXCEPT ![i].phase = "booted"]
  /\ UNCHANGED run_file

\* The node is spawned, the run file is written and watched.
SpawnNode(i) ==
  /\ Phase(i, {"booted"})
  /\ engine' = [engine EXCEPT ![i].phase = "watching"]
  /\ run_file' = TRUE

\* The node opens its ports and produces its first block ...
NodeUp(i) ==
  /\ Phase(i, {"watching"}) /\ engine[i].genesis = "done"
  /\ engine' = [engine EXCEPT ![i].phase = "up", ![i].said = TRUE]
  /\ UNCHANGED run_file

\* ... or exits, because its genesis was interrupted.
NodeFails(i) ==
  /\ Phase(i, {"watching"}) /\ engine[i].genesis = "partial"
  /\ engine' = Stopped(i)
  /\ UNCHANGED run_file

\* Fault: The run file is looked at until the node is up, and not any more after that.
WatchBeforeReady(i) ==
  /\ Phase(i, {"watching"}) /\ ~run_file
  /\ engine' = Stopped(i)
  /\ UNCHANGED run_file

\* The run file is gone: the node is killed, and with it the container ends.
Watch(i) ==
  /\ Phase(i, {"watching", "up"}) /\ ~run_file
  /\ engine' = Stopped(i)
  /\ UNCHANGED run_file

InContainer(i) ==
  /\ \/ BeginGenesis(i) \/ EndGenesis(i) \/ ResumeGenesis(i) \/ SpawnNode(i)
     \/ NodeUp(i) \/ NodeFails(i) \/ Watch(i)
  /\ UNCHANGED <<script, promise, api, receipt, adrift, raced, ended>>
-----------------------------------------------------------------------------
Asking     == AskCreated \/ AskStarted \/ AskPaused \/ AskRemoved
Creating   == CheckCreated \/ FindPort \/ CheckAgain \/ Create \/ SaveReceipt
Starting   == CheckStarted \/ CheckRecreated \/ Recreate \/ Start \/ WaitLog \/ WaitPort
Pausing    == CheckPaused \/ InspectPaused \/ InspectAgain \/ Kill
Removing   == AwaitPaused \/ Remove

Next == \/ Construct \/ Signal \/ Exit \/ Crash
        \/ Asking \/ Creating \/ Starting \/ Pausing \/ Removing
        \/ \E i \in IDs : InContainer(i)

\* The event loop of the process goes on with what the engine has answered, and
\* the script in the container runs; nothing makes a script ask or end.
Fairness == /\ WF_vars(Creating) /\ WF_vars(Starting)
            /\ WF_vars(Pausing) /\ WF_vars(Removing)
            /\ \A i \in IDs : WF_vars(InContainer(i))

Spec == Init /\ [][Next]_vars /\ Fairness
-----------------------------------------------------------------------------
\* The receipt is how another process finds the devnet: the container that
\* bears the chain's name is the one in the receipt, from the moment its
\* creation has been answered, through crashes, removals and restarts.  The
\* exceptions are a process that dies before the answer, and start(), which
\* makes containers that it tells nobody of.
ReceiptNamesContainer ==
  \A i \in IDs : Exists(i) /\ engine[i].named =>
     i = receipt \/ i \in adrift \/ promise["created"] = "unsaved"

\* What the promises promise to a script that knows its devnet and awaits them
\* one after another, in any order: when paused resolves, the chain's container
\* does not run, and when removed resolves, its name is free, whichever process
\* has made it; when created resolves, another process will find it, unless
\* start() has made it.
Resolves(p) == promise[p] # "resolved" /\ promise'[p] = "resolved"
Ours(i)     == engine[i].named /\ i \notin adrift

PromisesHold ==
  [][~raced' /\ script.id' # NoID =>
       /\ Resolves("paused")  => ~\E i \in IDs : Ours(i)' /\ Running(i)'
       /\ Resolves("removed") => ~\E i \in IDs : Ours(i)' /\ Exists(i)'
       /\ Resolves("created") => Exists(receipt)' \/ script.id' \in adrift']_vars

\* started waits for ever for one reason alone, that its container has stopped
\* before it was ready: not because the devnet was up already, with its log
\* written for an earlier process, and not because another promise raced it.
Awaiting == At("started", "logging") \/ At("started", "opening")

StartSettles ==
  (script.alive /\ Open("started")) ~>
     (Settled("started") \/ ~script.alive \/ (Awaiting /\ ~Running(api["started"])))

\* A process that ends through its handler after `started` has resolved stops
\* its devnet, if it is not to remain: the script in the container sees that
\* the run file is gone (unless another process takes the devnet over).
Down == \A i \in IDs : ~Running(i)

ReadyStopsOnExit == ended = "ready" ~> (Down \/ script.alive)

\* The comments on onScriptExit and on setExitHandler: whenever the process that
\* has started the devnet ends, the container is stopped.
StopsOnExit == ended \in {"ready", "early"} ~> (Down \/ script.alive)
=============================================================================
