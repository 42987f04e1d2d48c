----------------------------- MODULE KeeperJobs -----------------------------
(***************************************************************************)
(* The keeper's execution jobs and the chain they run against.  A job is   *)
(* one accepted POST /api/execute: it proves, submits and retries, in the  *)
(* background and only in memory.  Of the chain this module keeps what the *)
(* off-chain services see: the status of each order's commitment, its      *)
(* transactions in flight and the events not yet indexed.                  *)
(***************************************************************************)
EXTENDS Integers, FiniteSets

CONSTANTS
  Orders,      \* commitment hashes, all of them registered on chain
  Jobs,        \* identities for jobs that run at the same time (a bound)
  MaxRetries,  \* config.maxRetries
  Callbacks,   \* the settings of "config.backendUrl is set" to consider
  NoOrder

ASSUME JobAssumption == /\ MaxRetries \in Nat \ {0} /\ NoOrder \notin Orders
                        /\ Callbacks \subseteq BOOLEAN

VARIABLES
  chain,    \* chain[o]: the commitment's status in the registry
  past,     \* the orders whose expiry has passed
  mempool,  \* the orders with an execution transaction in flight
  job,      \* job[j]: what a job is doing
  logs,     \* the orders with a terminal event not yet indexed
  notices,  \* the orders with a `done' callback in flight
  callbacks \* config.backendUrl is set

jobVars == <<chain, past, mempool, job, logs, notices, callbacks>>

ChainStatus == {"PENDING", "EXECUTED", "CANCELLED", "EXPIRED"}

NoJob == [pc |-> "off", order |-> NoOrder, attempt |-> 0]
JobRecord == [pc : {"off", "attempt", "sent"}, order : Orders \cup {NoOrder},
              attempt : 0..MaxRetries]

JobTypeOK ==
  /\ chain \in [Orders -> ChainStatus]
  /\ job \in [Jobs -> JobRecord]
  /\ past \subseteq Orders /\ mempool \subseteq Orders
  /\ logs \subseteq Orders /\ notices \subseteq Orders
  /\ callbacks \in Callbacks

JobInit ==
  /\ chain = [o \in Orders |-> "PENDING"]
  /\ job = [j \in Jobs |-> NoJob]
  /\ past = {} /\ mempool = {} /\ logs = {} /\ notices = {}
  /\ callbacks \in Callbacks

-----------------------------------------------------------------------------
(* The chain. *)

Executable(o) == chain[o] = "PENDING" /\ o \notin past

Finish(o, newStatus) ==
  /\ chain' = [chain EXCEPT ![o] = newStatus]
  /\ logs' = logs \cup {o}

PassExpiry(o) == /\ o \notin past
                 /\ past' = past \cup {o}
                 /\ UNCHANGED <<chain, mempool, job, logs, notices, callbacks>>

\* The owner cancels or executes himself, or somebody sweeps.
FinishElsewhere(o) ==
  /\ chain[o] = "PENDING"
  /\ \/ Finish(o, "CANCELLED")
     \/ o \notin past /\ Finish(o, "EXECUTED")
     \/ o \in past /\ Finish(o, "EXPIRED")
  /\ UNCHANGED <<past, mempool, job, notices, callbacks>>

\* A transaction is mined: it executes the order, or it reverts.
MineTx(o) ==
  /\ o \in mempool
  /\ mempool' = mempool \ {o}
  /\ \/ Executable(o) /\ Finish(o, "EXECUTED")
     \/ UNCHANGED <<chain, logs>>
  /\ UNCHANGED <<past, job, notices, callbacks>>

-----------------------------------------------------------------------------
(* submitExecution. *)

Accept(j, o) ==
  /\ job[j].pc = "off"
  /\ job' = [job EXCEPT ![j] = [pc |-> "attempt", order |-> o, attempt |-> 1]]

\* estimateGas succeeds, so the call does not revert now; then it is sent.
SendTx(j) ==
  /\ job[j].pc = "attempt"
  /\ Executable(job[j].order)
  /\ mempool' = mempool \cup {job[j].order}
  /\ job' = [job EXCEPT ![j].pc = "sent"]
  /\ UNCHANGED <<chain, past, logs, notices, callbacks>>

\* The receipt says success.
Succeed(j) ==
  /\ job[j].pc = "sent"
  /\ chain[job[j].order] = "EXECUTED"
  /\ job' = [job EXCEPT ![j] = NoJob]
  /\ UNCHANGED <<chain, past, mempool, logs, notices, callbacks>>

\* notifyBackendDone, then the job ends.
GiveUp(j) ==
  /\ notices' = IF callbacks THEN notices \cup {job[j].order} ELSE notices
  /\ job' = [job EXCEPT ![j] = NoJob]

\* Variant with a fault: one attempt too many.
RetryOnceMore(j) ==
  /\ job[j].pc # "off"
  /\ IF job[j].attempt <= MaxRetries
     THEN /\ job' = [job EXCEPT ![j].pc = "attempt", ![j].attempt = @ + 1]
          /\ UNCHANGED notices
     ELSE GiveUp(j)
  /\ UNCHANGED <<chain, past, mempool, logs, callbacks>>

\* An RPC or proving error, before or after the transaction was sent: try
\* again, or give up when the budget is used.
FailTransiently(j) ==
  /\ job[j].pc # "off"
  /\ IF job[j].attempt < MaxRetries
     THEN /\ job' = [job EXCEPT ![j].pc = "attempt", ![j].attempt = @ + 1]
          /\ UNCHANGED notices
     ELSE GiveUp(j)
  /\ UNCHANGED <<chain, past, mempool, logs, callbacks>>

\* A revert no retry can help with, among them `paused' and `not pending'.
FailDefinitively(j) ==
  /\ job[j].pc # "off"
  /\ GiveUp(j)
  /\ UNCHANGED <<chain, past, mempool, logs, callbacks>>

\* An empty gas tank ends the job without a word to the backend, and so does
\* a restart of the keeper.
EndSilently(j) ==
  /\ job[j].pc # "off"
  /\ job' = [job EXCEPT ![j] = NoJob]
  /\ UNCHANGED <<chain, past, mempool, logs, notices, callbacks>>

LoseNotice(o) ==
  /\ o \in notices
  /\ notices' = notices \ {o}
  /\ UNCHANGED <<chain, past, mempool, job, logs, callbacks>>

JobStep(j) == \/ SendTx(j) \/ Succeed(j) \/ FailTransiently(j)
              \/ FailDefinitively(j) \/ EndSilently(j)

OutsideStep(o) == \/ PassExpiry(o) \/ FinishElsewhere(o) \/ MineTx(o) \/ LoseNotice(o)
=============================================================================
