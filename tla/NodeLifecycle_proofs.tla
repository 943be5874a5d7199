------------------------ MODULE NodeLifecycle_proofs ------------------------
(***************************************************************************)
(* Nothing runs beside the last save, whatever the number of headers and   *)
(* the target of a generate command.                                       *)
(*                                                                         *)
(* That a thread is joined is a fact of where main is, except for two: a   *)
(* miner is joined by the RPC thread or by main, whichever stopped it, and *)
(* the NAT refresh only if running_ says that there is one.                *)
(***************************************************************************)
EXTENDS NodeLifecycle, TLAPS

\* Where main is while a thread may exist.
SavePhase  == {"run", "join_save"}
RpcPhase   == SavePhase \cup {"stop_rpc", "join_rpc"}
MinerPhase == RpcPhase \cup {"stop_miner", "join_miner"}
NatPhase   == MinerPhase \cup {"start_rpc", "stop_net", "join_transport", "stop_nat"}

\* The RPC thread is about to join the worker, which may have ended by itself
\* or been told to.
Joining == {"gen_wait", "join_worker", "gen_join"}

\* A worker without a miner that says it is mining has someone to join it.
MinerOK ==
    /\ worker # "none" => main \in MinerPhase
    /\ worker # "none" /\ ~mining => rpc \in Joining \/ main = "join_miner"
    /\ worker # "none" /\ target # NoTarget => rpc \in Joining
    /\ rpc \in {"join_worker", "gen_join", "gen_start"} => ~mining

\* A refresh thread or a mapped port without running_ is main's to clean up.
NatOK ==
    /\ nat # "none" \/ mapped => natRunning \/ main \in {"notify_nat", "join_nat"}
    /\ natRunning => main \in NatPhase

ThreadsOK ==
    /\ save # "none" => main \in SavePhase
    /\ rpc # "none" => main \in RpcPhase
    /\ transport # "none" => main \in NatPhase \ {"stop_nat"}
    /\ reactor # "none" =>
          main \in NatPhase \cup {"notify_nat", "join_nat", "join_reactor"}
    /\ main \notin {"init", "done", "aborted"} => randomx

\* The inductive invariant.
QuietInv == MinerOK /\ NatOK /\ ThreadsOK

LEMMA QuietInit == Init => QuietInv
BY DEF Init, QuietInv, MinerOK, NatOK, ThreadsOK, SavePhase, RpcPhase, MinerPhase,
       NatPhase, Joining

-----------------------------------------------------------------------------
(* The steps of main, in the order of its life.                            *)

LEMMA StartSteps ==
    ASSUME QuietInv, Initialize \/ StartNet \/ StartRpc
    PROVE  QuietInv'
<1> USE DEF QuietInv, MinerOK, NatOK, ThreadsOK, SavePhase, RpcPhase, MinerPhase,
            NatPhase, Joining, rpcVars, minerVars, netVars, natVars, dataVars
<1>1. CASE Initialize
  BY <1>1 DEF Initialize
<1>2. CASE StartNet
  BY <1>2 DEF StartNet, StartNat, MapPort
<1>3. CASE StartRpc
  BY <1>3 DEF StartRpc
<1> QED
  BY <1>1, <1>2, <1>3

LEMMA StopSteps ==
    ASSUME QuietInv,
           \/ Shutdown \/ JoinSave \/ StopRpc \/ JoinRpc \/ StopMiner \/ JoinMiner
           \/ StopNet \/ JoinTransport
    PROVE  QuietInv'
<1> USE DEF QuietInv, MinerOK, NatOK, ThreadsOK, SavePhase, RpcPhase, MinerPhase,
            NatPhase, Joining, rpcVars, minerVars, netVars, natVars, dataVars
<1>1. CASE Shutdown
  BY <1>1 DEF Shutdown
<1>2. CASE JoinSave
  BY <1>2 DEF JoinSave
<1>3. CASE StopRpc
  BY <1>3 DEF StopRpc
<1>4. CASE JoinRpc
  BY <1>4 DEF JoinRpc
<1>5. CASE StopMiner
  BY <1>5 DEF StopMiner
<1>6. CASE JoinMiner
  BY <1>6 DEF JoinMiner, WorkerJoined
<1>7. CASE StopNet
  BY <1>7 DEF StopNet
<1>8. CASE JoinTransport
  BY <1>8 DEF JoinTransport
<1> QED
  BY <1>1, <1>2, <1>3, <1>4, <1>5, <1>6, <1>7, <1>8

LEMMA EndSteps ==
    ASSUME QuietInv,
           \/ StopNat \/ NotifyNat \/ JoinNat \/ JoinReactor \/ SaveHeaders \/ Release
    PROVE  QuietInv'
<1> USE DEF QuietInv, MinerOK, NatOK, ThreadsOK, SavePhase, RpcPhase, MinerPhase,
            NatPhase, Joining, rpcVars, minerVars, netVars, natVars, dataVars
<1>1. CASE StopNat
  BY <1>1 DEF StopNat
<1>2. CASE NotifyNat
  BY <1>2 DEF NotifyNat
<1>3. CASE JoinNat
  BY <1>3 DEF JoinNat, UnmapPort
<1>4. CASE JoinReactor
  BY <1>4 DEF JoinReactor
<1>5. CASE SaveHeaders
  BY <1>5 DEF SaveHeaders
<1>6. CASE Release
  BY <1>6 DEF Release
<1> QED
  BY <1>1, <1>2, <1>3, <1>4, <1>5, <1>6

-----------------------------------------------------------------------------
(* The other threads.                                                      *)

\* The RPC thread moves without touching the miner.  It neither comes to be
\* nor goes away, and it does not leave a join behind.
LEMMA RpcMoves ==
    ASSUME QuietInv, NEW from \in {"check", "accept", "blocked", "client", "recv"},
           NEW to \in {"check", "accept", "blocked", "client", "recv", "stop",
                       "startmining", "stopmining", "generate", "ended"},
           RpcStep(from, to)
    PROVE  QuietInv'
BY DEF RpcStep, QuietInv, MinerOK, NatOK, ThreadsOK, SavePhase, RpcPhase, MinerPhase,
       NatPhase, Joining, appVars, minerVars, netVars, natVars, dataVars

LEMMA RpcSteps ==
    ASSUME QuietInv, RpcThread \/ ClientConnects \/ AcceptInterrupted \/ Receive
    PROVE  QuietInv'
<1> USE DEF QuietInv, MinerOK, NatOK, ThreadsOK, SavePhase, RpcPhase, MinerPhase,
            NatPhase, Joining, appVars, minerVars, netVars, natVars, dataVars
<1>1. CASE \/ ServerThread \/ Accept \/ HandleClient \/ ClientConnects
           \/ AcceptInterrupted \/ Receive
  BY <1>1, RpcMoves DEF ServerThread, Accept, HandleClient, ClientConnects,
     AcceptInterrupted, Receive
<1>2. CASE HandleStop
  BY <1>2 DEF HandleStop
<1>3. CASE HandleStartMining
  BY <1>3 DEF HandleStartMining, MinerStarts
<1>4. CASE HandleStopMining
  BY <1>4 DEF HandleStopMining
<1>5. CASE JoinWorker
  BY <1>5 DEF JoinWorker, WorkerJoined
<1>6. CASE HandleGenerate
  BY <1>6 DEF HandleGenerate
<1>7. CASE GenerateStarts
  BY <1>7 DEF GenerateStarts, MinerStarts
<1>8. CASE GenerateWaits
  BY <1>8 DEF GenerateWaits
<1> QED
  BY <1>1, <1>2, <1>3, <1>4, <1>5, <1>6, <1>7, <1>8 DEF RpcThread

LEMMA OtherSteps ==
    ASSUME QuietInv,
           \/ SaveThread \/ Worker \/ NatThread \/ Signal \/ HandleMessage
           \/ Dispatch \/ TimerStarts \/ TimerEnds \/ UNCHANGED vars
    PROVE  QuietInv'
<1> USE DEF QuietInv, MinerOK, NatOK, ThreadsOK, SavePhase, RpcPhase, MinerPhase,
            NatPhase, Joining, appVars, rpcVars, minerVars, netVars, natVars, dataVars
<1>1. CASE SaveThread
  BY <1>1 DEF SaveThread, SaveSleeps, PeriodicSave
<1>2. CASE MinerLoop \/ Hash
  BY <1>2 DEF MinerLoop, Hash
<1>3. CASE BlockFound
  <2>1. /\ worker = "found" /\ worker' \in {"check", "ended"}
        /\ mining' = mining \/ (mining' = FALSE /\ target # NoTarget)
    BY <1>3 DEF BlockFound
  <2>2. UNCHANGED <<main, save, rpc, target, transport, reactor, nat, natRunning,
                    mapped, randomx>>
    BY <1>3 DEF BlockFound
  <2>3. CASE mining' = mining
    BY <2>1, <2>2, <2>3
  <2>4. CASE mining' = FALSE /\ target # NoTarget
    <3>1. rpc \in Joining /\ main \in MinerPhase
      BY <2>1, <2>4
    <3>2. MinerOK'
      BY <2>1, <2>2, <2>4, <3>1
    <3> QED
      BY <2>2, <3>2
  <2> QED
    BY <2>1, <2>3, <2>4
<1>4. CASE NatChecks \/ NatWaits \/ NatTimesOut
  BY <1>4 DEF NatChecks, NatWaits, NatTimesOut, NatStep
<1>5. CASE RefreshMapping
  BY <1>5 DEF RefreshMapping, MapPort
<1>6. CASE Signal \/ HandleMessage \/ Dispatch
  <2>1. /\ UNCHANGED <<main, save, rpc, worker, mining, target, reactor, nat,
                       natRunning, mapped, randomx>>
        /\ transport # "none" \/ transport' = transport
    BY <1>6 DEF Signal, HandleMessage, Dispatch
  <2> QED
    BY <2>1
<1>7. CASE TimerStarts \/ TimerEnds
  BY <1>7 DEF TimerStarts, TimerEnds
<1>8. CASE UNCHANGED vars
  BY <1>8 DEF vars
<1> QED
  BY <1>1, <1>2, <1>3, <1>4, <1>5, <1>6, <1>7, <1>8 DEF Worker, NatThread

LEMMA QuietStep == QuietInv /\ [Next]_vars => QuietInv'
<1> SUFFICES ASSUME QuietInv, [Next]_vars PROVE QuietInv'
  OBVIOUS
<1>1. CASE Main
  BY <1>1, StartSteps, StopSteps, EndSteps DEF Main
<1>2. CASE RpcThread \/ ClientConnects \/ AcceptInterrupted \/ Receive
  BY <1>2, RpcSteps
<1>3. CASE \/ SaveThread \/ Worker \/ NatThread \/ Signal \/ HandleMessage
           \/ Dispatch \/ TimerStarts \/ TimerEnds \/ UNCHANGED vars
  BY <1>3, OtherSteps
<1> QED
  BY <1>1, <1>2, <1>3 DEF Next, Ended

-----------------------------------------------------------------------------
\* Application::shutdown joins every thread before its last save, also the
\* miner that generate started and that shutdown does not ask, and the
\* workers hash only while RandomX is initialised, for any number of headers
\* and any target.
THEOREM QuietAlways == Spec => []QuietAfterLastSave
<1>1. QuietInv => QuietAfterLastSave
  BY DEF QuietInv, MinerOK, NatOK, ThreadsOK, SavePhase, RpcPhase, MinerPhase,
         NatPhase, QuietAfterLastSave, Joined
<1> QED
  BY <1>1, QuietInit, QuietStep, PTL DEF Spec
=============================================================================
