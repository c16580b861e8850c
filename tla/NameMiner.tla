----------------------------- MODULE NameMiner -----------------------------
(***************************************************************************)
(* The bitname proof-of-work miner, src/src/bitname/bitname_miner.cpp.     *)
(*                                                                         *)
(* Three kinds of actors share the miner's state:                          *)
(*  - fibers of the main fc thread, which call the public API (start,      *)
(*    stop, set_name_header, ...).  fc threads are cooperative: a fiber    *)
(*    runs without interruption until it waits on a future, and while it   *)
(*    waits other fibers of the thread may run;                            *)
(*  - the worker threads, each running start_mining_in_mining_thread on a  *)
(*    copy of the block under a generation number ("version");             *)
(*  - the callback thread (the thread that built the miner), which runs    *)
(*    the found_name_block callbacks posted by the workers, in order.      *)
(* They coordinate only through _block_version, a volatile (not atomic)    *)
(* uint64_t.  A worker's "++_block_version" is a load and a store, which   *)
(* are two steps here; the main thread's increments are one step each,     *)
(* which loses no interleaving of the two read-modify-writes.              *)
(*                                                                         *)
(* Data is abstracted: a hash is modelled by the value it is taken of      *)
(* (an injective function), a difficulty by a small number, a name hash    *)
(* by a model value, and the nonce/time search by a nondeterministic       *)
(* choice of the difficulty a nonce reaches.                               *)
(***************************************************************************)
EXTENDS Naturals, Sequences, FiniteSets

CONSTANTS
    Threads,            \* worker thread ids (DEFAULT_MINING_THREADS of them)
    Fibers,             \* fibers of the main thread that call the API
    Names,              \* non-zero name hashes
    NoName,             \* name_hash == 0: "not mining"
    Prevs,              \* ids of previous name blocks
    ZeroId,             \* the default (all zero) name_id_type
    TrxDifficulties,    \* difficulties a name_trx may have
    HashDifficulties,   \* difficulties the hash of one nonce may reach
    BlockTargets,       \* arguments of set_block_target
    MinNameDifficulty,  \* min_name_difficulty()
    Efforts,            \* arguments of start (0 or a positive effort)
    Delegates,          \* arguments of set_delegate (TRUE: non-null)
    WellBehavedClient,  \* the caller sets delegate and header before start
    MaxCalls,           \* bound on the number of API calls
    VersionMax          \* uint64_t(-1), the largest _block_version

ASSUME
    /\ Threads # {} /\ Fibers # {}
    /\ NoName \notin Names /\ ZeroId \notin Prevs
    /\ MinNameDifficulty \in Nat
    /\ Efforts \subseteq Nat /\ Delegates \subseteq BOOLEAN
    /\ WellBehavedClient \in BOOLEAN /\ MaxCalls \in Nat
    /\ VersionMax \in Nat

VARIABLES
    blockVersion,   \* _block_version
    curEffort,      \* _cur_effort (0 or the positive effort)
    curBlock,       \* _cur_block
    callbackDel,    \* _callback_del # nullptr
    blockTarget,    \* _block_target
    nameTrxTarget,  \* _name_trx_target
    inStartNewBlock,\* the function-static in_start_new_block
    worker,         \* per thread: its task (_mining_complete[i] and locals)
    fiber,          \* per main-thread fiber: where it is waiting, if at all
    callbacks,      \* found_name_block calls posted to the callback thread
    fault,          \* the undefined behaviour the process ran into, if any
    calls,          \* number of API calls made (bound)
    destroyed,      \* ~name_miner_impl has run
    lateCallback    \* history: a found_name_block ran after the destructor

vars == <<blockVersion, curEffort, curBlock, callbackDel, blockTarget,
          nameTrxTarget, inStartNewBlock, worker, fiber, callbacks, fault,
          calls, destroyed, lateCallback>>

-----------------------------------------------------------------------------
(* Data *)

Header(n, p) == [name_hash |-> n, prev |-> p]

NameTrx == [name_hash : Names, prev : Prevs, diff : TrxDifficulties]

NoHash == <<>>   \* the default-constructed trxs_hash

\* name_block::calc_trxs_hash: a hash of prev and name_trxs.
calc_trxs_hash(b) == <<b.prev, b.trxs>>

\* name_block(name_header): the header with no transactions.
NameBlock(h) == [name_hash |-> h.name_hash, prev |-> h.prev,
                 trxs |-> <<>>, trxs_hash |-> NoHash]

HeaderOf(b) == Header(b.name_hash, b.prev)

TaskPcs == {"none", "mine", "claim", "bump", "done"}
\* "none": _mining_complete[i] was never assigned (an invalid future);
\* "claim"/"bump": the load and the store of the winner's ++_block_version.
Running(i) == worker[i].pc \in {"mine", "claim", "bump"}

Faults == {"none", "wait_on_invalid_future", "null_delegate_call"}

\* ++ on the uint64_t _block_version, which wraps after uint64_t(-1).
Inc(v) == (v + 1) % (VersionMax + 1)

-----------------------------------------------------------------------------
Init ==
    /\ blockVersion = 0
    /\ curEffort = 0
    /\ curBlock = NameBlock(Header(NoName, ZeroId))
    /\ callbackDel = FALSE
    /\ blockTarget = MinNameDifficulty
    /\ nameTrxTarget = MinNameDifficulty
    /\ inStartNewBlock = FALSE
    /\ worker = [i \in Threads |->
                   [pc |-> "none", gen |-> 0, blk |-> curBlock, read |-> 0]]
    /\ fiber = [f \in Fibers |-> [pc |-> "idle", next |-> 0]]
    /\ callbacks = <<>>
    /\ fault = "none"
    /\ calls = 0
    /\ destroyed = FALSE
    /\ lateCallback = FALSE

\* An API call starts on an idle fiber of a live process and miner.
Call(f) ==
    /\ fault = "none"
    /\ ~destroyed
    /\ fiber[f].pc = "idle"
    /\ calls < MaxCalls
    /\ calls' = calls + 1

-----------------------------------------------------------------------------
(* The API, run by a fiber of the main thread *)

\* name_miner::set_delegate
set_delegate(f, d) ==
    /\ Call(f)
    /\ callbackDel' = d
    /\ UNCHANGED <<destroyed, lateCallback, blockVersion, curEffort, curBlock, blockTarget,
                   nameTrxTarget, inStartNewBlock, worker, fiber, callbacks,
                   fault>>

\* Mutant: the target is not raised to min_name_difficulty().
set_block_target_nomin(f, t) ==
    /\ Call(f)
    /\ blockTarget' = t
    /\ nameTrxTarget' = t \div 10000
    /\ UNCHANGED <<destroyed, lateCallback, blockVersion, curEffort, curBlock, callbackDel,
                   inStartNewBlock, worker, fiber, callbacks, fault>>

\* name_miner::set_block_target
set_block_target(f, t) ==
    /\ Call(f)
    /\ blockTarget' = t
    /\ nameTrxTarget' = IF t \div 10000 > MinNameDifficulty
                        THEN t \div 10000 ELSE MinNameDifficulty
    /\ UNCHANGED <<destroyed, lateCallback, blockVersion, curEffort, curBlock, callbackDel,
                   inStartNewBlock, worker, fiber, callbacks, fault>>

\* name_miner::add_name_trx.  Ignored when not mining, throws when the
\* prev differs, ignored for the block's own name; otherwise replaces a
\* transaction of the same name when harder, or is appended.
add_name_trx(f, t) ==
    /\ Call(f)
    /\ LET trxs == curBlock.trxs
           same == {k \in DOMAIN trxs : trxs[k].name_hash = t.name_hash}
       IN  curBlock' =
             IF \/ curBlock.name_hash = NoName
                \/ t.prev # curBlock.prev
                \/ t.name_hash = curBlock.name_hash
             THEN curBlock
             ELSE IF same = {}
             THEN [curBlock EXCEPT !.trxs = Append(trxs, t)]
             ELSE LET k == CHOOSE k \in same : TRUE
                  IN  IF t.diff > trxs[k].diff
                      THEN [curBlock EXCEPT !.trxs[k] = t]
                      ELSE curBlock
    /\ UNCHANGED <<destroyed, lateCallback, blockVersion, curEffort, callbackDel, blockTarget,
                   nameTrxTarget, inStartNewBlock, worker, fiber, callbacks,
                   fault>>

\* name_miner::set_name_header: replaces the block; the restart of the
\* workers is commented out in the code.
set_name_header(f, h) ==
    /\ Call(f)
    /\ curBlock' = NameBlock(h)
    /\ UNCHANGED <<destroyed, lateCallback, blockVersion, curEffort, callbackDel, blockTarget,
                   nameTrxTarget, inStartNewBlock, worker, fiber, callbacks,
                   fault>>

\* The copies of the block start_new_block hands to the threads, under
\* version v; none when the block has no name.
LaunchWorkers(b, v) ==
    IF b.name_hash # NoName
    THEN [i \in Threads |-> [pc |-> "mine", gen |-> v, blk |-> b, read |-> 0]]
    ELSE worker

\* Mutant: start_new_block waits for the workers without ++_block_version.
start_nobump(f, e) ==
    /\ Call(f)
    /\ WellBehavedClient => callbackDel /\ curBlock.name_hash # NoName
    /\ curEffort' = e
    /\ IF e # 0 /\ ~inStartNewBlock
       THEN IF callbackDel
            THEN LET b == [curBlock EXCEPT !.trxs_hash = calc_trxs_hash(curBlock)]
                     v == blockVersion
                 IN  /\ curBlock' = b
                     /\ blockVersion' = v
                     /\ IF \E i \in Threads : Running(i)
                        THEN /\ inStartNewBlock' = TRUE
                             /\ fiber' = [fiber EXCEPT ![f] =
                                            [pc |-> "snb_wait", next |-> v]]
                             /\ UNCHANGED worker
                        ELSE /\ worker' = LaunchWorkers(b, v)
                             /\ UNCHANGED <<destroyed, lateCallback, inStartNewBlock, fiber>>
            ELSE /\ inStartNewBlock' = TRUE
                 /\ UNCHANGED <<destroyed, lateCallback, curBlock, blockVersion, fiber, worker>>
       ELSE UNCHANGED <<destroyed, lateCallback, inStartNewBlock, curBlock, blockVersion, fiber, worker>>
    /\ UNCHANGED <<destroyed, lateCallback, callbackDel, blockTarget, nameTrxTarget, callbacks, fault>>

\* name_miner::start and start_new_block.  start_new_block returns at once
\* when another call of it is in progress; its FC_ASSERT on the delegate
\* throws after the static flag was set.  It then waits for every valid
\* _mining_complete future: the fiber yields only when a task is still
\* running, and start_new_block_launch is the rest of it.
start(f, e) ==
    /\ Call(f)
    /\ WellBehavedClient => callbackDel /\ curBlock.name_hash # NoName
    /\ curEffort' = e
    /\ IF e # 0 /\ ~inStartNewBlock
       THEN IF callbackDel
            THEN LET b == [curBlock EXCEPT !.trxs_hash = calc_trxs_hash(curBlock)]
                     v == Inc(blockVersion)
                 IN  /\ curBlock' = b
                     /\ blockVersion' = v
                     /\ IF \E i \in Threads : Running(i)
                        THEN /\ inStartNewBlock' = TRUE
                             /\ fiber' = [fiber EXCEPT ![f] =
                                            [pc |-> "snb_wait", next |-> v]]
                             /\ UNCHANGED worker
                        ELSE /\ worker' = LaunchWorkers(b, v)
                             /\ UNCHANGED <<destroyed, lateCallback, inStartNewBlock, fiber>>
            ELSE /\ inStartNewBlock' = TRUE
                 /\ UNCHANGED <<destroyed, lateCallback, curBlock, blockVersion, fiber, worker>>
       ELSE UNCHANGED <<destroyed, lateCallback, inStartNewBlock, curBlock, blockVersion, fiber, worker>>
    /\ UNCHANGED <<destroyed, lateCallback, callbackDel, blockTarget, nameTrxTarget, callbacks, fault>>

\* The rest of start_new_block, once the running tasks have returned: the
\* copy is of the block as it is now, under the version taken before the
\* wait.
start_new_block_launch(f) ==
    /\ fault = "none"
    /\ fiber[f].pc = "snb_wait"
    /\ \A i \in Threads : ~Running(i)
    /\ worker' = LaunchWorkers(curBlock, fiber[f].next)
    /\ inStartNewBlock' = FALSE
    /\ fiber' = [fiber EXCEPT ![f] = [pc |-> "idle", next |-> 0]]
    /\ UNCHANGED <<destroyed, lateCallback, blockVersion, curEffort, curBlock, callbackDel, blockTarget,
                   nameTrxTarget, callbacks, fault, calls>>

\* Mutant: stop() waits without incrementing the version.
stop_nobump(f) ==
    /\ Call(f)
    /\ curEffort' = 0
    /\ IF curEffort > 0 /\ \E i \in Threads : Running(i)
       THEN fiber' = [fiber EXCEPT ![f].pc = "stop_wait"]
       ELSE UNCHANGED fiber
    /\ UNCHANGED <<destroyed, lateCallback, blockVersion, curBlock, callbackDel, blockTarget,
                   nameTrxTarget, inStartNewBlock, worker, callbacks, fault>>

\* name_miner::stop.  It waits for the workers only when the effort was
\* > 0, and then on every _mining_complete future, valid or not: the
\* futures are all assigned or none is, and waiting on one that never was
\* is undefined.  The fiber yields only while a task is still running.
stop(f) ==
    /\ Call(f)
    /\ curEffort' = 0
    /\ blockVersion' = Inc(blockVersion)
    /\ IF curEffort > 0 /\ \E i \in Threads : worker[i].pc = "none"
       THEN /\ fault' = "wait_on_invalid_future"
            /\ UNCHANGED <<destroyed, lateCallback, fiber>>
       ELSE IF curEffort > 0 /\ \E i \in Threads : Running(i)
       THEN /\ fiber' = [fiber EXCEPT ![f].pc = "stop_wait"]
            /\ UNCHANGED <<destroyed, lateCallback, fault>>
       ELSE UNCHANGED <<destroyed, lateCallback, fault, fiber>>
    /\ UNCHANGED <<destroyed, lateCallback, curBlock, callbackDel, blockTarget, nameTrxTarget,
                   inStartNewBlock, worker, callbacks>>

\* stop() resumes once every task has returned.
stop_wait(f) ==
    /\ fault = "none"
    /\ fiber[f].pc = "stop_wait"
    /\ \A i \in Threads : ~Running(i)
    /\ fiber' = [fiber EXCEPT ![f].pc = "idle"]
    /\ UNCHANGED <<destroyed, lateCallback, blockVersion, curEffort, curBlock, callbackDel, blockTarget,
                   nameTrxTarget, inStartNewBlock, worker, callbacks, fault,
                   calls>>

\* Mutant: the destructor leaves _block_version alone.
destroy_noversion(f) ==
    /\ Call(f)
    /\ \A g \in Fibers : fiber[g].pc = "idle"
    /\ destroyed' = TRUE
    /\ UNCHANGED <<lateCallback, blockVersion, curEffort, curBlock, callbackDel, blockTarget,
                   nameTrxTarget, inStartNewBlock, worker, fiber, callbacks,
                   fault>>

\* ~name_miner_impl, run by the owner once no call is in progress: the
\* version becomes uint64_t(-1) so that every worker sees it moved on, and
\* the threads are told to quit; it does not wait for the workers, and a
\* callback they post later finds the miner gone.
destroy(f) ==
    /\ Call(f)
    /\ \A g \in Fibers : fiber[g].pc = "idle"
    /\ blockVersion' = VersionMax
    /\ destroyed' = TRUE
    /\ UNCHANGED <<lateCallback, curEffort, curBlock, callbackDel, blockTarget,
                   nameTrxTarget, inStartNewBlock, worker, fiber, callbacks,
                   fault>>

-----------------------------------------------------------------------------
(* start_mining_in_mining_thread, run by worker thread i *)

\* The loop ends when the block has no name or the version has moved on.
mining_exit(i) ==
    /\ fault = "none"
    /\ worker[i].pc = "mine"
    /\ \/ worker[i].blk.name_hash = NoName
       \/ worker[i].gen < blockVersion
    /\ worker' = [worker EXCEPT ![i].pc = "done"]
    /\ UNCHANGED <<destroyed, lateCallback, blockVersion, curEffort, curBlock, callbackDel, blockTarget,
                   nameTrxTarget, inStartNewBlock, fiber, callbacks, fault,
                   calls>>

\* A nonce whose header difficulty beats _name_trx_target: the thread claims
\* the block if its version is still current, and returns either way.
mining_found(i) ==
    /\ fault = "none"
    /\ worker[i].pc = "mine"
    /\ worker[i].blk.name_hash # NoName
    /\ worker[i].gen >= blockVersion
    /\ \E d \in HashDifficulties : d > nameTrxTarget
    /\ worker' = [worker EXCEPT ![i].pc =
                    IF worker[i].gen = blockVersion THEN "claim" ELSE "done"]
    /\ UNCHANGED <<destroyed, lateCallback, blockVersion, curEffort, curBlock, callbackDel, blockTarget,
                   nameTrxTarget, inStartNewBlock, fiber, callbacks, fault,
                   calls>>

\* ++_block_version: the load ...
claim_load(i) ==
    /\ fault = "none"
    /\ worker[i].pc = "claim"
    /\ worker' = [worker EXCEPT ![i].pc = "bump", ![i].read = blockVersion]
    /\ UNCHANGED <<destroyed, lateCallback, blockVersion, curEffort, curBlock, callbackDel, blockTarget,
                   nameTrxTarget, inStartNewBlock, fiber, callbacks, fault,
                   calls>>

\* ... the store, and the post of found_name_block(b) to the callback thread.
claim_store(i) ==
    /\ fault = "none"
    /\ worker[i].pc = "bump"
    /\ blockVersion' = Inc(worker[i].read)
    /\ callbacks' = Append(callbacks, worker[i].blk)
    /\ worker' = [worker EXCEPT ![i].pc = "done"]
    /\ UNCHANGED <<destroyed, lateCallback, curEffort, curBlock, callbackDel, blockTarget,
                   nameTrxTarget, inStartNewBlock, fiber, fault, calls>>

\* The callback thread runs the posted lambda, which reads _callback_del.
\* After the destructor that read is of freed memory; the model takes the
\* outcome in which it still finds the delegate.
deliver_found ==
    /\ fault = "none"
    /\ callbacks # <<>>
    /\ callbacks' = Tail(callbacks)
    /\ fault' = IF callbackDel THEN "none" ELSE "null_delegate_call"
    /\ lateCallback' = (lateCallback \/ destroyed)
    /\ UNCHANGED <<destroyed, blockVersion, curEffort, curBlock, callbackDel, blockTarget,
                   nameTrxTarget, inStartNewBlock, worker, fiber, calls>>

-----------------------------------------------------------------------------
Next ==
    \/ \E f \in Fibers :
          \/ \E d \in Delegates : set_delegate(f, d)
          \/ \E t \in BlockTargets : set_block_target(f, t)
          \/ \E t \in NameTrx : add_name_trx(f, t)
          \/ \E n \in Names, p \in Prevs : set_name_header(f, Header(n, p))
          \/ \E e \in Efforts : start(f, e)
          \/ start_new_block_launch(f)
          \/ stop(f)
          \/ stop_wait(f)
          \/ destroy(f)
    \/ \E i \in Threads :
          \/ mining_exit(i)
          \/ mining_found(i)
          \/ claim_load(i)
          \/ claim_store(i)
    \/ deliver_found

\* The worker threads, the waits of the main thread and the callback thread
\* are scheduled by the OS and fc; finding a nonce and calling the API are
\* not guaranteed to happen.
Fairness ==
    /\ \A i \in Threads : /\ WF_vars(mining_exit(i))
                          /\ WF_vars(claim_load(i))
                          /\ WF_vars(claim_store(i))
    /\ \A f \in Fibers : /\ WF_vars(start_new_block_launch(f))
                         /\ WF_vars(stop_wait(f))
    /\ WF_vars(deliver_found)

Spec == Init /\ [][Next]_vars /\ Fairness

-----------------------------------------------------------------------------
(* Properties *)

TypeOK ==
    /\ blockVersion \in 0..VersionMax
    /\ curEffort \in Efforts \cup {0}
    /\ curBlock.name_hash \in Names \cup {NoName}
    /\ curBlock.prev \in Prevs \cup {ZeroId}
    /\ curBlock.trxs \in Seq(NameTrx)
    /\ callbackDel \in BOOLEAN
    /\ nameTrxTarget >= MinNameDifficulty
    /\ inStartNewBlock \in BOOLEAN
    /\ \A i \in Threads : worker[i].pc \in TaskPcs /\ worker[i].gen \in Nat
    /\ \A f \in Fibers : fiber[f].pc \in {"idle", "snb_wait", "stop_wait"}
    /\ fault \in Faults
    /\ calls \in 0..MaxCalls
    /\ destroyed \in BOOLEAN
    /\ lateCallback \in BOOLEAN

\* Every block handed to a worker, and every block posted to the delegate,
\* carries the trxs_hash of its own prev and name transactions: the hash
\* start_new_block computes before its wait is still the hash of the block
\* it copies after the wait.
LaunchedBlockConsistent ==
    /\ \A i \in Threads :
          Running(i) => worker[i].blk.trxs_hash = calc_trxs_hash(worker[i].blk)
    /\ \A k \in DOMAIN callbacks :
          callbacks[k].trxs_hash = calc_trxs_hash(callbacks[k])

\* A worker only wins for the header the miner currently holds: a change
\* of the header stops the workers mining the old one (spec 4.6, 8.5).
WinsOnlyForCurrentHeader ==
    [][\A i \in Threads :
          (worker[i].pc = "mine" /\ worker'[i].pc = "claim")
             => HeaderOf(worker[i].blk) = HeaderOf(curBlock)]_vars

\* The static in_start_new_block flag is only set while a start_new_block
\* is in progress; otherwise every later start() is silently ignored.
StartNewBlockReleased ==
    (\A f \in Fibers : fiber[f].pc # "snb_wait") => ~inStartNewBlock

\* A start() that found workers still running, and so waits in
\* start_new_block for their _mining_complete futures, eventually launches
\* the new workers and returns: its ++_block_version before the wait puts
\* every running worker behind, whatever a winner's load and store of the
\* version do in between.  Until then the static in_start_new_block flag
\* makes every other start() a no-op.
StartNewBlockReturns ==
    \A f \in Fibers : fiber[f].pc = "snb_wait" ~> fiber[f].pc = "idle"

\* A stop() eventually returns: its increment of the version makes every
\* worker it waits for return.
StopReturns ==
    \A f \in Fibers : fiber[f].pc = "stop_wait" ~> fiber[f].pc = "idle"

\* Once the miner is destroyed every worker eventually returns: the
\* destructor's store of uint64_t(-1) puts every worker's version behind.  A winner whose
\* ++ loads that value stores 0 instead, and then a worker of any version
\* keeps mining the freed miner.
DestroyStopsWorkers ==
    destroyed ~> \A i \in Threads : ~Running(i)

\* No found_name_block callback runs after the miner is destroyed: the
\* lambda posted to the callback thread captures the miner and reads its
\* _callback_del.
NoCallbackAfterDestroy ==
    ~lateCallback

=============================================================================
