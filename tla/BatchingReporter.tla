-------------------------- MODULE BatchingReporter --------------------------
(***************************************************************************)
(* nac_test/pyats_core/reporting/batching_reporter.py: the messages of test *)
(* steps are accumulated into batches and handed to the PyATS reporter,     *)
(* directly, or in a burst through a bounded queue that a worker thread     *)
(* drains.  The callback that sends a batch is _send_batch_to_pyats of      *)
(* common/base_test.py.                                                     *)
(*                                                                         *)
(* Two threads: the test, which buffers the messages and shuts the reporter *)
(* down at its end, and the worker.  A message is its sequence number; the  *)
(* size of a message in memory is one unit.                                 *)
(***************************************************************************)
EXTENDS Naturals, Sequences, FiniteSets, SequencesExt

CONSTANTS
    BatchSize,     \* batch size of the accumulator and of the worker
    QueueSize,     \* max_size of the overflow queue
    MemoryLimit,   \* memory_limit_bytes of the overflow queue
    MaxMessages    \* bound: messages of the test

ASSUME SizesAssumption ==
    BatchSize \in Nat \ {0} /\ QueueSize \in Nat \ {0} /\ MemoryLimit \in Nat
ASSUME BoundAssumption == MaxMessages \in Nat

Messages == 1 .. MaxMessages

VARIABLES
    \* BatchAccumulator
    count,       \* sequence_counter
    messages,    \* messages, those already handed on by a flush removed
    queueMode,   \* queue_mode_active
    \* BatchingReporter and its OverflowQueue
    overflow,    \* overflow_mode_active
    queue,       \* the queue
    memory,      \* estimated_memory
    \* the threads
    test,        \* what the test thread is doing
    gaveUp,      \* did shutdown() run out of time?
    worker,      \* what the worker thread is doing
    batch,       \* messages the worker took off the queue
    stop,        \* stop_event
    \* where messages end up
    reported,    \* messages the PyATS reporter accepted, in order
    refused,     \* messages it did not accept in a batch it accepted in part
    collected,   \* step results in the ResultCollector
    disk,        \* messages in overflow files
    dumps,       \* messages in emergency dumps of earlier seconds
    dump,        \* messages in the emergency dump named by this second
    overwritten  \* messages in dumps that were overwritten

accumulatorVars == <<count, messages, queueMode>>
queueVars  == <<queue, memory, disk>>
workerVars == <<worker, batch, stop>>
sendVars   == <<reported, refused, collected, dumps, dump, overwritten>>
vars == <<accumulatorVars, overflow, queueVars, test, gaveUp, workerVars,
          sendVars>>

TypeOK ==
    /\ count \in 0 .. MaxMessages
    /\ messages \in Seq(Messages) /\ Len(messages) <= BatchSize
    /\ queueMode \in BOOLEAN /\ overflow \in BOOLEAN
    /\ queue \in Seq(Messages) /\ Len(queue) <= QueueSize
    /\ memory \in 0 .. MemoryLimit
    /\ test \in {"run", "flush", "lastFlush", "drain", "join", "down"}
    /\ gaveUp \in BOOLEAN
    /\ worker \in {"none", "top", "take", "account", "more", "ended"}
    /\ batch \in Seq(Messages) /\ Len(batch) <= BatchSize
    /\ stop \in BOOLEAN
    /\ reported \in Seq(Messages)
    /\ \A set \in {refused, collected, disk, dumps, dump, overwritten} :
           set \subseteq Messages

Init ==
    /\ count = 0 /\ messages = <<>> /\ queueMode = FALSE
    /\ overflow = FALSE /\ queue = <<>> /\ memory = 0
    /\ test = "run" /\ gaveUp = FALSE /\ worker = "none" /\ batch = <<>> /\ stop = FALSE
    /\ reported = <<>> /\ refused = {} /\ collected = {}
    /\ disk = {} /\ dumps = {} /\ dump = {} /\ overwritten = {}
-----------------------------------------------------------------------------
(* The messages: the interceptor buffers a step_start and a step_stop in     *)
(* turn.  What it buffers as the message is the dictionary of the step; the *)
(* type goes into the metadata.                                             *)

TypeOf(m) == IF m % 2 = 1 THEN "step_start" ELSE "step_stop"

KeysOf(m) ==
    IF TypeOf(m) = "step_start" THEN {"name", "uid", "source", "parent"}
    ELSE {"name", "uid", "result", "exc_type", "exc_value"}

\* message.get("message_type", "")
TypeSeen(m) == IF "message_type" \in KeysOf(m) THEN TypeOf(m) ELSE ""
-----------------------------------------------------------------------------
(* _send_batch_to_pyats: the reporter accepts at least one message, or the   *)
(* batch is dumped to a file named by test, process and second.  Only a     *)
(* batch that made the callback raise is not offered to the collector.      *)

\* Batch b without some of its messages, if any are left.
Parts(b) ==
    UNION {{[i \in 1 .. n |-> b[kept[i]]] :
                kept \in {f \in [1 .. n -> DOMAIN b] :
                             \A i, j \in 1 .. n : i < j => f[i] < f[j]}} :
           n \in 1 .. Len(b)}

\* The reporter is given one message after the other and accepts some of them.
Report(b) ==
    /\ \E accepted \in Parts(b) :
           /\ reported' = reported \o accepted
           /\ refused' = refused \cup (ToSet(b) \ ToSet(accepted))
    /\ collected' = collected \cup {m \in ToSet(b) : TypeSeen(m) = "step_stop"}
    /\ UNCHANGED <<dumps, dump, overwritten>>

\* _emergency_dump_messages, by the callback itself or, if it raised, by
\* error_callback.
Dump(b) ==
    /\ dump' = ToSet(b)
    /\ overwritten' = overwritten \cup dump
    /\ collected' \in {collected,
           collected \cup {m \in ToSet(b) : TypeSeen(m) = "step_stop"}}
    /\ UNCHANGED <<reported, refused, dumps>>

Send(b) == Report(b) \/ Dump(b)
-----------------------------------------------------------------------------
(* The test thread: add_message.                                            *)

\* _handle_overflow_detected, when a burst begins: queue and worker are made
\* on the first burst; a flush from now on goes to the queue, for good.
HandleOverflow(burst) ==
    IF burst /\ ~queueMode
    THEN /\ overflow' = TRUE
         /\ worker' = IF worker = "none" THEN "top" ELSE worker
    ELSE UNCHANGED <<overflow, worker>>

\* A message joins the batch.  The detector says whether the rate is that of a
\* burst.  A full batch is flushed; one older than flush_timeout too.
AddMessage(burst, late) ==
    /\ test = "run" /\ count < MaxMessages
    /\ count' = count + 1
    /\ messages' = Append(messages, count + 1)
    /\ queueMode' = burst
    /\ HandleOverflow(burst)
    /\ test' = IF late \/ Len(messages) + 1 >= BatchSize THEN "flush" ELSE "run"
    /\ UNCHANGED <<queueVars, gaveUp, batch, stop, sendVars>>

Flushing == test \in {"flush", "lastFlush"}

\* In normal mode the batch is sent by the test thread.
FlushDirectly ==
    /\ Flushing /\ ~overflow /\ messages # <<>>
    /\ Send(messages)
    /\ messages' = <<>>
    /\ UNCHANGED <<count, queueMode, overflow, queueVars, test, gaveUp,
                   workerVars>>

\* In overflow mode each message of the batch goes to the queue, or to a file
\* when the queue has too many messages or bytes.
Enqueue ==
    /\ Flushing /\ overflow /\ messages # <<>>
    /\ messages' = Tail(messages)
    /\ IF memory + 1 > MemoryLimit \/ Len(queue) >= QueueSize
       THEN /\ disk' = disk \cup {Head(messages)}
            /\ UNCHANGED <<queue, memory>>
       ELSE /\ queue' = Append(queue, Head(messages))
            /\ memory' = memory + 1
            /\ UNCHANGED disk
    /\ UNCHANGED <<count, queueMode, overflow, test, gaveUp, workerVars,
                   sendVars>>

\* Mutant: the direct path is taken again as soon as a batch is flushed.
FlushedResetsMode ==
    /\ Flushing /\ messages = <<>>
    /\ test' = CASE test = "flush" -> "run"
                 [] test = "lastFlush" /\ worker = "none" -> "down"
                 [] OTHER -> "drain"
    /\ overflow' = queueMode
    /\ UNCHANGED <<accumulatorVars, queueVars, gaveUp, workerVars, sendVars>>

Flushed ==
    /\ Flushing /\ messages = <<>>
    /\ test' = CASE test = "flush" -> "run"
                 [] test = "lastFlush" /\ worker = "none" -> "down"
                 [] OTHER -> "drain"
    /\ UNCHANGED <<accumulatorVars, overflow, queueVars, gaveUp, workerVars,
                   sendVars>>
-----------------------------------------------------------------------------
(* The test thread: shutdown, called by the cleanup of the test.            *)

Shutdown ==
    /\ test = "run"
    /\ test' = "lastFlush"
    /\ UNCHANGED <<accumulatorVars, overflow, queueVars, gaveUp, workerVars,
                   sendVars>>

\* Mutant: the worker is not told to stop.
StopWorkerUnsignalled ==
    /\ test = "drain" /\ queue = <<>>
    /\ test' = "join"
    /\ UNCHANGED <<accumulatorVars, overflow, queueVars, gaveUp, workerVars,
                   sendVars>>

\* Mutant: the worker is stopped at once.
StopWorkerAtOnce ==
    /\ test = "drain"
    /\ stop' = TRUE
    /\ test' = "join"
    /\ UNCHANGED <<accumulatorVars, overflow, queueVars, gaveUp, worker, batch,
                   sendVars>>

\* The queue is empty: the worker is told to stop.
StopWorker ==
    /\ test = "drain" /\ queue = <<>>
    /\ stop' = TRUE
    /\ test' = "join"
    /\ UNCHANGED <<accumulatorVars, overflow, queueVars, gaveUp, worker, batch,
                   sendVars>>

\* The worker has ended, and thread.join(timeout) returns.
Join ==
    /\ test = "join" /\ worker = "ended"
    /\ test' = "down"
    /\ UNCHANGED <<accumulatorVars, overflow, queueVars, gaveUp, workerVars,
                   sendVars>>

\* Both waits have a timeout, after which shutdown() goes on all the same.
GiveUpDraining ==
    /\ test = "drain" /\ queue # <<>>
    /\ gaveUp' = TRUE
    /\ stop' = TRUE
    /\ test' = "join"
    /\ UNCHANGED <<accumulatorVars, overflow, queueVars, worker, batch,
                   sendVars>>

GiveUpJoining ==
    /\ test = "join" /\ worker # "ended"
    /\ gaveUp' = TRUE
    /\ test' = "down"
    /\ UNCHANGED <<accumulatorVars, overflow, queueVars, workerVars, sendVars>>
-----------------------------------------------------------------------------
(* The worker thread: _drain_loop with dequeue_batch and dequeue.           *)

\* The top of the loop: the stop event is looked at before the queue is.
GoOn ==
    /\ worker = "top" /\ ~stop
    /\ worker' = "take"
    /\ UNCHANGED <<accumulatorVars, overflow, queueVars, test, gaveUp, batch,
                   stop, sendVars>>

\* No message within the timeout: back to the top after a pause.
NothingThere ==
    /\ worker = "take" /\ queue = <<>>
    /\ worker' = "top"
    /\ UNCHANGED <<accumulatorVars, overflow, queueVars, test, gaveUp, batch,
                   stop, sendVars>>

\* A message is taken off the queue, the first one of a batch or one more.
Take ==
    /\ \/ worker = "take"
       \/ worker = "more" /\ Len(batch) < BatchSize
    /\ queue # <<>>
    /\ batch' = Append(batch, Head(queue))
    /\ queue' = Tail(queue)
    /\ worker' = "account"
    /\ UNCHANGED <<accumulatorVars, overflow, memory, disk, test, gaveUp, stop,
                   sendVars>>

\* Mutant: the memory of a dequeued message is not given back.
AccountNothing ==
    /\ worker = "account"
    /\ worker' = "more"
    /\ UNCHANGED <<accumulatorVars, overflow, queueVars, test, gaveUp, batch,
                   stop, sendVars>>

\* Its memory is given back in a step of its own, under the queue's lock.
Account ==
    /\ worker = "account"
    /\ memory' = memory - 1
    /\ worker' = "more"
    /\ UNCHANGED <<accumulatorVars, overflow, queue, disk, test, gaveUp, batch,
                   stop, sendVars>>

\* Mutant: the batch of the worker is appended to, and never cleared.
SendBatchAgain ==
    /\ worker = "more" /\ (Len(batch) = BatchSize \/ queue = <<>>)
    /\ Send(batch)
    /\ worker' = "top"
    /\ UNCHANGED <<accumulatorVars, overflow, queueVars, test, gaveUp, batch,
                   stop>>

\* The batch is full, or no more messages were there.
SendBatch ==
    /\ worker = "more" /\ (Len(batch) = BatchSize \/ queue = <<>>)
    /\ Send(batch)
    /\ batch' = <<>>
    /\ worker' = "top"
    /\ UNCHANGED <<accumulatorVars, overflow, queueVars, test, gaveUp, stop>>

WorkerEnds ==
    /\ worker = "top" /\ stop
    /\ worker' = "ended"
    /\ UNCHANGED <<accumulatorVars, overflow, queueVars, test, gaveUp, batch,
                   stop, sendVars>>

\* The next second: an emergency dump gets a new name.
Tick ==
    /\ dump # {}
    /\ dumps' = dumps \cup dump
    /\ dump' = {}
    /\ UNCHANGED <<accumulatorVars, overflow, queueVars, test, gaveUp,
                   workerVars, reported, refused, collected, overwritten>>
-----------------------------------------------------------------------------
TestStep   == FlushDirectly \/ Enqueue \/ Flushed \/ StopWorker \/ Join
WorkerStep ==
    GoOn \/ NothingThere \/ Take \/ Account \/ SendBatch \/ WorkerEnds

Next ==
    \/ \E burst, late \in BOOLEAN : AddMessage(burst, late)
    \/ TestStep \/ Shutdown \/ GiveUpDraining \/ GiveUpJoining
    \/ WorkerStep \/ Tick

Spec == Init /\ [][Next]_vars

\* Both threads run, and a send ends; the test need not buffer or shut down, and
\* no timeout is counted on.
FairSpec == Spec /\ WF_vars(TestStep) /\ WF_vars(WorkerStep)
-----------------------------------------------------------------------------
\* The reporter gets messages in the order they were buffered, each at most
\* once, whichever thread sends them ("Monotonic sequence number for ordering").
InOrder == \A i, j \in 1 .. Len(reported) : i < j => reported[i] < reported[j]

Places ==
    <<ToSet(messages), ToSet(queue), ToSet(batch), ToSet(reported), refused,
      disk, dumps, dump, overwritten>>

\* Every buffered message is in one place: still to be sent, or sent, dumped or
\* overflowed; no handover between the threads loses or duplicates one.
EachInOnePlace ==
    \A m \in 1 .. count : \E i \in DOMAIN Places :
        /\ m \in Places[i]
        /\ \A j \in DOMAIN Places \ {i} : m \notin Places[j]

\* The memory estimate is that of the queue, plus the message the worker has
\* taken but not accounted for: it does not drift, however the threads mix.
MemoryIsAccounted ==
    memory = Len(queue) + (IF worker = "account" THEN 1 ELSE 0)

\* "Graceful shutdown - ensure all messages are processed": a shutdown() that
\* got its queue empty and its worker ended in time leaves nothing to be sent,
\* neither in a buffer nor in the hands of the worker.
ShutdownProcessesAll ==
    test = "down" /\ ~gaveUp => messages = <<>> /\ queue = <<>> /\ batch = <<>>

\* shutdown() ends: the queue gets empty and the worker stops, without the help
\* of the timeouts.
ShutdownReturns == test = "lastFlush" ~> test = "down"

\* "PATH 2: Always Update ResultCollector": the result of a step whose batch was
\* sent is collected.  Violated: the type is not looked up where it is stored.
ResultsCollected ==
    \A m \in ToSet(reported) \cup refused :
        TypeOf(m) = "step_stop" => m \in collected
=============================================================================
