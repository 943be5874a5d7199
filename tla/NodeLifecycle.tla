---------------------------- MODULE NodeLifecycle ----------------------------
(***************************************************************************)
(* The threads of a node from Application::initialize to the end of        *)
(* Application::shutdown: main, the periodic save, the RPC server, the     *)
(* miner, the transport, the timers' reactor and the NAT refresh.          *)
(*                                                                         *)
(* A thread is its program counter: "none" before it is started and after  *)
(* it is joined, "ended" in between, when only the join is left.  Of the   *)
(* chain there is the number of accepted headers, of headers.json the      *)
(* number it holds; what is in them is the subject of Chainstate.          *)
(***************************************************************************)
EXTENDS Integers

CONSTANTS
    MaxHeight,     \* bound: accepted headers
    GenerateCount  \* blocks asked of a generate command

ASSUME NodeAssumption ==
    MaxHeight \in Nat \ {0} /\ GenerateCount \in Nat \ {0}

NoTarget == -1

VARIABLES
    main,          \* where Application is
    running,       \* Application::running_
    requested,     \* shutdown_requested_
    save,          \* the periodic save thread
    rpc,           \* the RPC server's thread
    rpcRunning,    \* RPCServer::running_
    shuttingDown,  \* RPCServer::shutting_down_
    rpcOpen,       \* server_fd_ is open
    worker,        \* the miner's thread
    mining,        \* CPUMiner::mining_
    target,        \* target_height_
    transport,     \* the transport's thread
    reactor,       \* the thread of the timers
    netRunning,    \* NetworkManager::running_
    nat,           \* the NAT refresh thread
    natRunning,    \* NATManager::running_
    mapped,        \* port_mapped_
    height,        \* accepted headers
    disk,          \* headers in headers.json
    randomx,       \* g_randomx_initialized
    locked         \* this process holds the data directory

appVars == <<main, running, requested, save>>
rpcVars == <<rpc, rpcRunning, shuttingDown, rpcOpen>>
minerVars == <<worker, mining, target>>
netVars == <<transport, reactor, netRunning>>
natVars == <<nat, natRunning, mapped>>
dataVars == <<height, disk, randomx, locked>>
vars == <<appVars, rpcVars, minerVars, netVars, natVars, dataVars>>

TypeOK ==
    /\ main \in {"init", "start_net", "start_rpc", "run", "join_save", "stop_rpc",
                 "join_rpc", "stop_miner", "join_miner", "stop_net",
                 "join_transport", "stop_nat", "notify_nat", "join_nat",
                 "join_reactor", "save_headers", "release", "done", "aborted"}
    /\ save \in {"none", "sleep", "save", "ended"}
    /\ rpc \in {"none", "check", "accept", "blocked", "client", "recv", "stop",
                "startmining", "stopmining", "generate", "gen_start", "gen_wait",
                "join_worker", "gen_join", "ended"}
    /\ worker \in {"none", "check", "hash", "found", "ended"}
    /\ {transport, reactor} \subseteq {"none", "idle", "busy", "ended"}
    /\ nat \in {"none", "check", "armed", "waiting", "refresh", "ended"}
    /\ {running, requested, rpcRunning, shuttingDown, rpcOpen, mining, netRunning,
        natRunning, mapped, randomx, locked} \subseteq BOOLEAN
    /\ height \in 0..MaxHeight /\ disk \in 0..MaxHeight
    /\ target \in Nat \cup {NoTarget}

-----------------------------------------------------------------------------
(* The gateway: UPNP_AddPortMapping and UPNP_DeletePortMapping.            *)

MapPort == mapped' = TRUE

\* Best effort: what the gateway answers is not looked at.
UnmapPort == mapped' = FALSE

-----------------------------------------------------------------------------
(* The main thread: initialize, start, wait_for_shutdown.                  *)

\* initialize: another process may hold the directory.
Initialize ==
    /\ main = "init"
    /\ \/ /\ main' = "start_net"
          /\ locked' = TRUE /\ randomx' = TRUE
       \/ /\ main' = "aborted"
          /\ UNCHANGED <<locked, randomx>>
    /\ UNCHANGED <<running, requested, save, rpcVars, minerVars, netVars, natVars,
                   height, disk>>

\* NATManager::Start when DiscoverUPnPDevice finds a gateway: MapPort, and the
\* refresh thread.
StartNat ==
    /\ MapPort
    /\ natRunning' = TRUE /\ nat' = "check"

\* NetworkManager::start.  The listener or the gateway may be missing, and the
\* gateway may refuse.
StartNet ==
    /\ main = "start_net"
    /\ netRunning' = TRUE /\ transport' = "idle" /\ reactor' = "idle"
    /\ StartNat \/ UNCHANGED natVars
    /\ main' = "start_rpc"
    /\ UNCHANGED <<running, requested, save, rpcVars, minerVars, dataVars>>

\* RPCServer::Start; when it fails start returns before running_ is set, and
\* only the destructor of NetworkManager is left to stop the network.
StartRpc ==
    /\ main = "start_rpc"
    /\ \/ /\ rpcRunning' = TRUE /\ rpcOpen' = TRUE /\ rpc' = "check"
          /\ running' = TRUE /\ save' = "sleep"
          /\ main' = "run"
       \/ /\ main' = "stop_net"
          /\ UNCHANGED <<running, save, rpc, rpcRunning, rpcOpen>>
    /\ UNCHANGED <<requested, shuttingDown, minerVars, netVars, natVars, dataVars>>

\* SIGINT or SIGTERM; the handlers are set by start.
Signal ==
    /\ main \notin {"init", "done", "aborted"}
    /\ requested' = TRUE
    /\ UNCHANGED <<main, running, save, rpcVars, minerVars, netVars, natVars,
                   dataVars>>

Shutdown ==
    /\ main = "run" /\ requested
    /\ running' = FALSE
    /\ main' = "join_save"
    /\ UNCHANGED <<requested, save, rpcVars, minerVars, netVars, natVars, dataVars>>

JoinSave ==
    /\ main = "join_save" /\ save = "ended"
    /\ save' = "none"
    /\ main' = "stop_rpc"
    /\ UNCHANGED <<running, requested, rpcVars, minerVars, netVars, natVars,
                   dataVars>>

-----------------------------------------------------------------------------
(* periodic_save_loop.                                                     *)

SaveSleeps ==
    /\ save = "sleep"
    /\ save' = IF running THEN "save" ELSE "ended"
    /\ UNCHANGED <<main, running, requested, rpcVars, minerVars, netVars, natVars,
                   dataVars>>

\* The interval is over and the file is written, or not.
PeriodicSave ==
    /\ save = "save"
    /\ disk' \in {disk, height}
    /\ save' = "sleep"
    /\ UNCHANGED <<main, running, requested, rpcVars, minerVars, netVars, natVars,
                   height, randomx, locked>>

-----------------------------------------------------------------------------
(* The RPC server.                                                         *)

StopRpc ==
    /\ main = "stop_rpc"
    /\ shuttingDown' = TRUE /\ rpcRunning' = FALSE /\ rpcOpen' = FALSE
    /\ main' = "join_rpc"
    /\ UNCHANGED <<running, requested, save, rpc, minerVars, netVars, natVars,
                   dataVars>>

JoinRpc ==
    /\ main = "join_rpc" /\ rpc = "ended"
    /\ rpc' = "none"
    /\ main' = "stop_miner"
    /\ UNCHANGED <<running, requested, save, rpcRunning, shuttingDown, rpcOpen,
                   minerVars, netVars, natVars, dataVars>>

\* A step of the RPC thread that only moves it.
RpcStep(from, to) ==
    /\ rpc = from
    /\ rpc' = to
    /\ UNCHANGED <<appVars, rpcRunning, shuttingDown, rpcOpen, minerVars, netVars,
                   natVars, dataVars>>

ServerThread == RpcStep("check", IF rpcRunning THEN "accept" ELSE "ended")

\* accept fails at once on a closed descriptor.
Accept == RpcStep("accept", IF rpcOpen THEN "blocked" ELSE "check")

\* A thread that is inside accept when the descriptor is closed stays there on
\* Linux, and the next client is still its client; elsewhere it may return.
ClientConnects == RpcStep("blocked", "client")
AcceptInterrupted == ~rpcOpen /\ RpcStep("blocked", "check")

HandleClient == RpcStep("client", IF shuttingDown THEN "check" ELSE "recv")

\* The client leaves, or sends what is answered without a change of state (a
\* malformed or unknown command, a query), or one of the commands below.
Receive ==
    \E next \in {"check", "stop", "startmining", "stopmining", "generate"} :
        RpcStep("recv", next)

HandleStop ==
    /\ rpc = "stop"
    /\ shuttingDown' = TRUE /\ requested' = TRUE
    /\ rpc' = "check"
    /\ UNCHANGED <<main, running, save, rpcRunning, rpcOpen, minerVars, netVars,
                   natVars, dataVars>>

\* CPUMiner::Start, when the miner is not mining: a new worker.
MinerStarts(t) ==
    /\ worker \in {"none", "ended"}
    /\ mining' = TRUE /\ target' = t /\ worker' = "check"

HandleStartMining ==
    /\ rpc = "startmining"
    /\ \/ mining /\ UNCHANGED minerVars
       \/ ~mining /\ MinerStarts(NoTarget)
    /\ rpc' = "check"
    /\ UNCHANGED <<appVars, rpcRunning, shuttingDown, rpcOpen, netVars, natVars,
                   dataVars>>

\* The first half of CPUMiner::Stop; the worker is joined in JoinWorker.
HandleStopMining ==
    /\ rpc = "stopmining"
    /\ rpc' = IF mining THEN "join_worker" ELSE "check"
    /\ mining' = FALSE
    /\ UNCHANGED <<appVars, rpcRunning, shuttingDown, rpcOpen, worker, target,
                   netVars, natVars, dataVars>>

\* The second half of CPUMiner::Stop.
WorkerJoined ==
    /\ worker \in {"none", "ended"}
    /\ worker' = "none"

JoinWorker ==
    /\ rpc \in {"join_worker", "gen_join"}
    /\ WorkerJoined
    /\ rpc' = IF rpc = "gen_join" THEN "gen_start" ELSE "check"
    /\ UNCHANGED <<appVars, rpcRunning, shuttingDown, rpcOpen, mining, target,
                   netVars, natVars, dataVars>>

\* generate: stop, start with a target, wait for ten minutes at most, stop.
HandleGenerate ==
    /\ rpc = "generate"
    /\ mining' = FALSE
    /\ target' = height + GenerateCount
    /\ rpc' = "gen_join"
    /\ UNCHANGED <<appVars, rpcRunning, shuttingDown, rpcOpen, worker, netVars,
                   natVars, dataVars>>

GenerateStarts ==
    /\ rpc = "gen_start"
    /\ MinerStarts(target)
    /\ rpc' = "gen_wait"
    /\ UNCHANGED <<appVars, rpcRunning, shuttingDown, rpcOpen, netVars, natVars,
                   dataVars>>

\* Mutant: a target that was reached is taken for a miner that has stopped.
GenerateReturns ==
    /\ rpc = "gen_wait"
    /\ rpc' = IF mining THEN "join_worker" ELSE "check"
    /\ mining' = FALSE
    /\ UNCHANGED <<appVars, rpcRunning, shuttingDown, rpcOpen, worker, target,
                   netVars, natVars, dataVars>>

\* The target is reached, or the ten minutes are over.
GenerateWaits ==
    /\ rpc = "gen_wait"
    /\ rpc' = "join_worker"
    /\ mining' = FALSE
    /\ UNCHANGED <<appVars, rpcRunning, shuttingDown, rpcOpen, worker, target,
                   netVars, natVars, dataVars>>

-----------------------------------------------------------------------------
(* The miner.                                                              *)

\* shutdown asks IsMining before it stops the miner.
StopMiner ==
    /\ main = "stop_miner"
    /\ main' = IF mining THEN "join_miner" ELSE "stop_net"
    /\ mining' = FALSE
    /\ UNCHANGED <<running, requested, save, rpcVars, worker, target, netVars,
                   natVars, dataVars>>

JoinMiner ==
    /\ main = "join_miner"
    /\ WorkerJoined
    /\ main' = "stop_net"
    /\ UNCHANGED <<running, requested, save, rpcVars, mining, target, netVars,
                   natVars, dataVars>>

\* The head of the loop of MiningWorker.
MinerLoop ==
    /\ worker = "check"
    /\ worker' = IF mining THEN "hash" ELSE "ended"
    /\ UNCHANGED <<appVars, rpcVars, mining, target, netVars, natVars, dataVars>>

\* CheckProofOfWork, for one nonce.
Hash ==
    /\ worker = "hash"
    /\ worker' \in {"check", "found"}
    /\ UNCHANGED <<appVars, rpcVars, mining, target, netVars, natVars, dataVars>>

\* ProcessNewBlockHeader: a refused block is tried again with the same nonce,
\* an accepted one may be the last.
BlockFound ==
    /\ worker = "found"
    /\ \/ /\ worker' = "check"
          /\ UNCHANGED <<height, mining>>
       \/ /\ height < MaxHeight
          /\ height' = height + 1
          /\ IF target # NoTarget /\ height + 1 >= target
             THEN mining' = FALSE /\ worker' = "ended"
             ELSE worker' = "check" /\ UNCHANGED mining
    /\ UNCHANGED <<appVars, rpcVars, target, netVars, natVars, disk, randomx, locked>>

-----------------------------------------------------------------------------
(* The network's threads.                                                  *)

\* handle_message, up to the last check of running_.
HandleMessage ==
    /\ transport = "idle" /\ netRunning
    /\ transport' = "busy"
    /\ UNCHANGED <<appVars, rpcVars, minerVars, reactor, netRunning, natVars,
                   dataVars>>

\* The handler: headers are accepted or not, and a suspicious reorganisation or
\* an expired network asks for a shutdown.
Dispatch ==
    /\ transport = "busy"
    /\ transport' = "idle"
    /\ height' \in {height} \cup (height + 1 .. MaxHeight)
    /\ requested' \in {requested, TRUE}
    /\ UNCHANGED <<main, running, save, rpcVars, minerVars, reactor, netRunning,
                   natVars, disk, randomx, locked>>

\* run_maintenance, run_sendmessages, the connection attempts and the feelers.
TimerStarts ==
    /\ reactor = "idle" /\ netRunning
    /\ reactor' = "busy"
    /\ UNCHANGED <<appVars, rpcVars, minerVars, transport, netRunning, natVars,
                   dataVars>>

TimerEnds ==
    /\ reactor = "busy"
    /\ reactor' = "idle"
    /\ UNCHANGED <<appVars, rpcVars, minerVars, transport, netRunning, natVars,
                   dataVars>>

\* NetworkManager::stop, up to the join of the transport's thread.
StopNet ==
    /\ main = "stop_net"
    /\ netRunning' = FALSE
    /\ main' = "join_transport"
    /\ UNCHANGED <<running, requested, save, rpcVars, minerVars, transport, reactor,
                   natVars, dataVars>>

\* io_context::stop lets the handler that runs come to its end.
JoinTransport ==
    /\ main = "join_transport" /\ transport = "idle"
    /\ transport' = "none"
    /\ main' = "stop_nat"
    /\ UNCHANGED <<running, requested, save, rpcVars, minerVars, reactor, netRunning,
                   natVars, dataVars>>

JoinReactor ==
    /\ main = "join_reactor" /\ reactor = "idle"
    /\ reactor' = "none"
    /\ main' = IF shuttingDown THEN "save_headers" ELSE "aborted"
    /\ UNCHANGED <<running, requested, save, rpcVars, minerVars, transport,
                   netRunning, natVars, dataVars>>

-----------------------------------------------------------------------------
(* The NAT refresh.                                                        *)

\* NATManager::Stop clears running_ without refresh_mutex_ ...
StopNat ==
    /\ main = "stop_nat"
    /\ main' = IF natRunning THEN "notify_nat" ELSE "join_reactor"
    /\ natRunning' = FALSE
    /\ UNCHANGED <<running, requested, save, rpcVars, minerVars, netVars, nat,
                   mapped, dataVars>>

\* ... and wakes the thread only if it waits already.
NotifyNat ==
    /\ main = "notify_nat"
    /\ nat' = IF nat = "waiting" THEN "check" ELSE nat
    /\ main' = "join_nat"
    /\ UNCHANGED <<running, requested, save, rpcVars, minerVars, netVars, natRunning,
                   mapped, dataVars>>

\* The join, and UnmapPort.
JoinNat ==
    /\ main = "join_nat" /\ nat = "ended"
    /\ UnmapPort
    /\ nat' = "none"
    /\ main' = "join_reactor"
    /\ UNCHANGED <<running, requested, save, rpcVars, minerVars, netVars, natRunning,
                   dataVars>>

\* A step of the refresh thread that only moves it.
NatStep(from, to) ==
    /\ nat = from
    /\ nat' = to
    /\ UNCHANGED <<appVars, rpcVars, minerVars, netVars, natRunning, mapped, dataVars>>

\* The predicate of wait_for, and then the wait.
NatChecks == NatStep("check", IF natRunning THEN "armed" ELSE "ended")
NatWaits == NatStep("armed", "waiting")


NatTimesOut == NatStep("waiting", IF natRunning THEN "refresh" ELSE "ended")

\* The lease of a port that port_mapped_ says is mapped is extended.
RefreshMapping ==
    /\ nat = "refresh"
    /\ nat' = "check"
    /\ IF mapped THEN MapPort ELSE UNCHANGED mapped
    /\ UNCHANGED <<appVars, rpcVars, minerVars, netVars, natRunning, dataVars>>

-----------------------------------------------------------------------------
(* The end of shutdown.                                                    *)

\* The save may fail; shutdown goes on.
SaveHeaders ==
    /\ main = "save_headers"
    /\ disk' \in {disk, height}
    /\ main' = "release"
    /\ UNCHANGED <<running, requested, save, rpcVars, minerVars, netVars, natVars,
                   height, randomx, locked>>

\* ShutdownRandomX and UnlockDirectory.
Release ==
    /\ main = "release"
    /\ randomx' = FALSE /\ locked' = FALSE
    /\ main' = "done"
    /\ UNCHANGED <<running, requested, save, rpcVars, minerVars, netVars, natVars,
                   height, disk>>

Ended == main \in {"done", "aborted"} /\ UNCHANGED vars

-----------------------------------------------------------------------------
Init ==
    /\ main = "init" /\ running = FALSE /\ requested = FALSE /\ save = "none"
    /\ rpc = "none" /\ rpcRunning = FALSE /\ shuttingDown = FALSE /\ rpcOpen = FALSE
    /\ worker = "none" /\ mining = FALSE /\ target = NoTarget
    /\ transport = "none" /\ reactor = "none" /\ netRunning = FALSE
    /\ nat = "none" /\ natRunning = FALSE /\ mapped = FALSE
    /\ height = 0 /\ disk = 0 /\ randomx = FALSE /\ locked = FALSE

Main ==
    \/ Initialize \/ StartNet \/ StartRpc \/ Shutdown \/ JoinSave \/ StopRpc
    \/ JoinRpc \/ StopMiner \/ JoinMiner \/ StopNet \/ JoinTransport \/ StopNat
    \/ NotifyNat \/ JoinNat \/ JoinReactor \/ SaveHeaders \/ Release

SaveThread == SaveSleeps \/ PeriodicSave

RpcThread ==
    \/ ServerThread \/ Accept \/ HandleClient \/ HandleStop \/ HandleStartMining
    \/ HandleStopMining \/ JoinWorker \/ HandleGenerate \/ GenerateStarts
    \/ GenerateWaits

Worker == MinerLoop \/ Hash \/ BlockFound

NatThread == NatChecks \/ NatWaits \/ NatTimesOut \/ RefreshMapping

Next ==
    \/ Main \/ Signal \/ SaveThread \/ RpcThread \/ Worker \/ NatThread
    \/ ClientConnects \/ AcceptInterrupted \/ Receive
    \/ HandleMessage \/ Dispatch \/ TimerStarts \/ TimerEnds
    \/ Ended

Spec == Init /\ [][Next]_vars

\* Every thread goes on when it can.  The clients of the RPC server are outside
\* of the node and the system need not interrupt accept: nothing is assumed of
\* ClientConnects, Receive and AcceptInterrupted.
FairSpec ==
    /\ Spec
    /\ WF_vars(Main) /\ WF_vars(SaveThread) /\ WF_vars(RpcThread)
    /\ WF_vars(Worker) /\ WF_vars(NatThread)
    /\ WF_vars(Dispatch) /\ WF_vars(TimerEnds)

-----------------------------------------------------------------------------
(* Properties.                                                             *)

Joined(t) == t = "none"

\* From the last save of the headers on, no thread is left that could accept a
\* header, write the file, compute a RandomX hash or map the port again, though
\* shutdown only stops a miner that says it is mining.  What the last save
\* wrote is then all there is.
QuietAfterLastSave ==
    /\ main \in {"save_headers", "release", "done"} =>
          /\ \A t \in {save, rpc, worker, transport, reactor, nat} : Joined(t)
          /\ ~mapped
    /\ worker # "none" => randomx

\* Ctrl+C and the stop command end the node: one that is asked to stop releases
\* its directory in the end.  RPCServer::Stop closes the descriptor and joins a
\* thread that may be in accept, or in recv, and stays there.
ShutdownCompletes == (running /\ requested) ~> (main = "done" /\ ~locked)

WaitsForClient == main = "join_rpc" /\ rpc \in {"blocked", "recv"}

=============================================================================
