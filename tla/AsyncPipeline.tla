---------------------------- MODULE AsyncPipeline ---------------------------
(***************************************************************************)
(* AsyncPipeline: a source feeds packets to the AsyncGraphProcessor under  *)
(* backpressure, a consumer takes them out, run() waits for both threads   *)
(* and stop() interrupts them.                                             *)
(*                                                                         *)
(* The graph execution appears as what TaskScheduler promises: every       *)
(* active packet is handed to the completion callback once, some time      *)
(* later and in any order.                                                 *)
(***************************************************************************)
EXTENDS Integers, Sequences, FiniteSets

CONSTANTS
    NumPackets,       \* packets the source has, numbered in order
    MaxActivePackets, \* maxActivePackets_
    MayFail,          \* packets whose isFailed() may be true at the end
    MaxRuns,          \* bound: how often run() is called
    StopAllowed       \* whether stop() may be called

Packets  == 1 .. NumPackets
NoPacket == 0

ASSUME PipelineAssumption ==
    /\ NumPackets \in Nat
    /\ MaxActivePackets \in Nat \ {0}
    /\ MayFail \subseteq Packets
    /\ MaxRuns \in Nat
    /\ StopAllowed \in BOOLEAN

VARIABLES
    \* AsyncPipeline and AsyncGraphProcessor
    running, producerDone, isRunning, activePackets, outputQueue,
    \* the packet of the callback that holds activePacketsMutex_
    completing,
    \* the source: packets produced so far, and hasMore_
    produced, hasMore,
    \* packets whose isFailed() is true
    failed,
    \* program counters of the two threads, of run() and of stop(), the
    \* producer's packet and the calls of run() so far
    producer, consumer, runner, stopper, packet, runs,
    \* history: packets given to the consumer, dropped by the consumer
    \* thread as failed, and refused by submitPacket; whether stop() was
    \* called
    consumed, dropped, refused, stopped

flags    == <<running, producerDone, isRunning>>
packets  == <<activePackets, outputQueue, completing, failed>>
source   == <<produced, hasMore>>
fates    == <<consumed, dropped, refused>>
counters == <<producer, consumer, runner, stopper, packet, runs>>
vars == <<flags, packets, source, counters, fates, stopped>>

\* "ended" also stands for a thread that was not started or was joined.
Init ==
    /\ running = FALSE /\ producerDone = FALSE /\ isRunning = FALSE
    /\ activePackets = {} /\ outputQueue = <<>> /\ completing = NoPacket
    /\ produced = 0 /\ hasMore = (NumPackets > 0)
    /\ failed = {}
    /\ producer = "ended" /\ consumer = "ended"
    /\ runner = "idle" /\ stopper = "idle"
    /\ packet = NoPacket /\ runs = 0
    /\ consumed = <<>> /\ dropped = {} /\ refused = {}
    /\ stopped = FALSE

MutexFree == completing = NoPacket
ActiveCount == Cardinality(activePackets)
-----------------------------------------------------------------------------
(* producerThread.                                                         *)
ProducerGoto(label) == producer' = label

ProducerLoop ==
    /\ producer = "loop"
    /\ ProducerGoto(IF running /\ hasMore THEN "throttle" ELSE "finish")
    /\ UNCHANGED <<flags, packets, source, consumer, runner, stopper, packet,
                   runs, fates, stopped>>

MutantAdmitOneMore == ActiveCount <= MaxActivePackets

Admit == ActiveCount < MaxActivePackets

(* The yield loop: left when stopped or when there is room.                *)
ProducerThrottle ==
    /\ producer = "throttle"
    /\ ~ running \/ (MutexFree /\ Admit)
    /\ ProducerGoto("checkRunning")
    /\ UNCHANGED <<flags, packets, source, consumer, runner, stopper, packet,
                   runs, fates, stopped>>

ProducerCheckRunning ==
    /\ producer = "checkRunning"
    /\ ProducerGoto(IF running THEN "produce" ELSE "finish")
    /\ UNCHANGED <<flags, packets, source, consumer, runner, stopper, packet,
                   runs, fates, stopped>>

SourceHasPacket == produced < NumPackets

(* A source notices its end with the last packet or one call later, when   *)
(* it returns no packet.                                                   *)
Produce ==
    /\ producer = "produce"
    /\ IF SourceHasPacket
       THEN /\ produced' = produced + 1
            /\ packet' = produced + 1
            /\ hasMore' \in IF produced' = NumPackets THEN BOOLEAN ELSE {TRUE}
            /\ ProducerGoto("submit")
       ELSE /\ hasMore' = FALSE
            /\ ProducerGoto("loop")
            /\ UNCHANGED <<produced, packet>>
    /\ UNCHANGED <<flags, packets, consumer, runner, stopper, runs, fates, stopped>>

SubmitPacket ==
    /\ producer = "submit"
    /\ IF isRunning
       THEN /\ MutexFree
            /\ activePackets' = activePackets \cup {packet}
            /\ UNCHANGED refused
       ELSE /\ refused' = refused \cup {packet}
            /\ UNCHANGED activePackets
    /\ packet' = NoPacket
    /\ ProducerGoto("loop")
    /\ UNCHANGED <<flags, outputQueue, completing, failed, source, consumer,
                   runner, stopper, runs, consumed, dropped, stopped>>

MutantDoneAtOnce ==
    /\ producer = "finish"
    /\ UNCHANGED producerDone
    /\ ProducerGoto("ended")
    /\ UNCHANGED <<running, isRunning, packets, source, consumer, runner,
                   stopper, packet, runs, fates, stopped>>

ProducerFinish ==
    /\ producer = "finish"
    /\ producerDone' = TRUE
    /\ ProducerGoto("ended")
    /\ UNCHANGED <<running, isRunning, packets, source, consumer, runner,
                   stopper, packet, runs, fates, stopped>>

Producer ==
    \/ ProducerLoop \/ ProducerThrottle \/ ProducerCheckRunning \/ Produce
    \/ SubmitPacket \/ ProducerFinish
-----------------------------------------------------------------------------
(* The completion callback: the packet enters the output queue and then    *)
(* leaves activePackets_, under activePacketsMutex_, which tryGetOutput    *)
(* does not take.                                                          *)
PushOutput(p) ==
    /\ MutexFree
    /\ p \in activePackets
    /\ completing' = p
    /\ outputQueue' = Append(outputQueue, p)
    /\ failed' \in {failed} \cup (IF p \in MayFail THEN {failed \cup {p}} ELSE {})
    /\ UNCHANGED <<flags, activePackets, source, counters, fates, stopped>>

EraseActive ==
    /\ completing # NoPacket
    /\ activePackets' = activePackets \ {completing}
    /\ completing' = NoPacket
    /\ UNCHANGED <<flags, outputQueue, failed, source, counters, fates, stopped>>

Processor == (\E p \in Packets : PushOutput(p)) \/ EraseActive
-----------------------------------------------------------------------------
(* consumerThread.                                                         *)
ConsumerGoto(label) == consumer' = label

ConsumerLoop ==
    /\ consumer = "loop"
    /\ ConsumerGoto(IF running THEN "pop" ELSE "ended")
    /\ UNCHANGED <<flags, packets, source, producer, runner, stopper, packet,
                   runs, fates, stopped>>

MutantPeek == UNCHANGED outputQueue

PopOutput == outputQueue' = Tail(outputQueue)

TryGetOutput ==
    /\ consumer = "pop"
    /\ outputQueue # <<>>
    /\ PopOutput
    /\ IF Head(outputQueue) \in failed
       THEN dropped' = dropped \cup {Head(outputQueue)} /\ UNCHANGED consumed
       ELSE consumed' = Append(consumed, Head(outputQueue)) /\ UNCHANGED dropped
    /\ ConsumerGoto("loop")
    /\ UNCHANGED <<flags, activePackets, completing, failed, source, producer,
                   runner, stopper, packet, runs, refused, stopped>>

TryGetNothing ==
    /\ consumer = "pop"
    /\ outputQueue = <<>>
    /\ ConsumerGoto("checkDone")
    /\ UNCHANGED <<flags, packets, source, producer, runner, stopper, packet,
                   runs, fates, stopped>>

MutantDoneIsEnough ==
    /\ consumer = "checkDone"
    /\ ConsumerGoto(IF producerDone THEN "ended" ELSE "loop")
    /\ UNCHANGED <<flags, packets, source, producer, runner, stopper, packet,
                   runs, fates, stopped>>

CheckProducerDone ==
    /\ consumer = "checkDone"
    /\ ConsumerGoto(IF producerDone THEN "checkActive" ELSE "loop")
    /\ UNCHANGED <<flags, packets, source, producer, runner, stopper, packet,
                   runs, fates, stopped>>

CheckActive ==
    /\ consumer = "checkActive"
    /\ MutexFree
    /\ ConsumerGoto(IF ActiveCount = 0 THEN "ended" ELSE "loop")
    /\ UNCHANGED <<flags, packets, source, producer, runner, stopper, packet,
                   runs, fates, stopped>>

Consumer ==
    \/ ConsumerLoop \/ TryGetOutput \/ TryGetNothing \/ CheckProducerDone
    \/ CheckActive
-----------------------------------------------------------------------------
(* run(), called by one thread at a time, and not while stop() is joining: *)
(* the code makes no provision for a join that finds other threads.        *)
RunnerGoto(label) == runner' = label

Run ==
    /\ runner = "idle"
    /\ runs < MaxRuns
    /\ ~ running
    /\ stopper \in {"idle", "returned"}
    /\ runs' = runs + 1
    /\ running' = TRUE
    /\ RunnerGoto("start")
    /\ UNCHANGED <<producerDone, isRunning, packets, source, producer, consumer,
                   stopper, packet, fates, stopped>>

StartThreads ==
    /\ runner = "start"
    /\ producerDone' = FALSE
    /\ isRunning' = TRUE
    /\ ProducerGoto("loop")
    /\ ConsumerGoto("loop")
    /\ RunnerGoto("join")
    /\ UNCHANGED <<running, packets, source, stopper, packet, runs, fates, stopped>>

MutantJoinConsumerOnly == consumer = "ended"

ThreadsEnded == producer = "ended" /\ consumer = "ended"

RunJoin ==
    /\ runner = "join"
    /\ ThreadsEnded
    /\ RunnerGoto("stopProcessor")
    /\ UNCHANGED <<flags, packets, source, producer, consumer, stopper, packet,
                   runs, fates, stopped>>

RunStopProcessor ==
    /\ runner = "stopProcessor"
    /\ isRunning' = FALSE
    /\ RunnerGoto("return")
    /\ UNCHANGED <<running, producerDone, packets, source, producer, consumer,
                   stopper, packet, runs, fates, stopped>>

RunReturn ==
    /\ runner = "return"
    /\ running' = FALSE
    /\ RunnerGoto("idle")
    /\ UNCHANGED <<producerDone, isRunning, packets, source, producer, consumer,
                   stopper, packet, runs, fates, stopped>>

Runner == Run \/ StartThreads \/ RunJoin \/ RunStopProcessor \/ RunReturn
-----------------------------------------------------------------------------
(* stop(), called by another thread (once): it waits for the two threads,  *)
(* as far as they were started.                                            *)
StopperGoto(label) == stopper' = label

Stop ==
    /\ StopAllowed
    /\ stopper = "idle"
    /\ running
    /\ stopped' = TRUE
    /\ running' = FALSE
    /\ StopperGoto("join")
    /\ UNCHANGED <<producerDone, isRunning, packets, source, producer, consumer,
                   runner, packet, runs, fates>>

StopJoin ==
    /\ stopper = "join"
    /\ ThreadsEnded
    /\ StopperGoto("stopProcessor")
    /\ UNCHANGED <<flags, packets, source, producer, consumer, runner, packet,
                   runs, fates, stopped>>

StopStopProcessor ==
    /\ stopper = "stopProcessor"
    /\ isRunning' = FALSE
    /\ StopperGoto("returned")
    /\ UNCHANGED <<running, producerDone, packets, source, producer, consumer,
                   runner, packet, runs, fates, stopped>>

Stopper == Stop \/ StopJoin \/ StopStopProcessor
-----------------------------------------------------------------------------
Idle == runner = "idle" /\ stopper \in {"idle", "returned"} /\ ThreadsEnded

Done ==
    /\ Idle
    /\ runs = MaxRuns
    /\ activePackets = {}
    /\ UNCHANGED vars

Next == Producer \/ Processor \/ Consumer \/ Runner \/ Stopper \/ Done

Spec == Init /\ [][Next]_vars

(* The four threads are scheduled, produce and consume return, and every   *)
(* active packet gets to its callback (Delivery of TaskScheduler).  Calls  *)
(* of run and stop are up to the application.                              *)
FairSpec ==
    /\ Spec
    /\ WF_vars(Producer) /\ WF_vars(Consumer)
    /\ \A p \in Packets : WF_vars(PushOutput(p))
    /\ WF_vars(EraseActive)
    /\ WF_vars(StartThreads \/ RunJoin \/ RunStopProcessor \/ RunReturn)
    /\ WF_vars(StopJoin \/ StopStopProcessor)
-----------------------------------------------------------------------------
(* Properties.                                                             *)

(* Every variable has its type.                                            *)
TypeOK ==
    /\ running \in BOOLEAN /\ producerDone \in BOOLEAN /\ isRunning \in BOOLEAN
    /\ activePackets \in SUBSET Packets
    /\ outputQueue \in Seq(Packets)
    /\ completing \in Packets \cup {NoPacket}
    /\ produced \in 0 .. NumPackets /\ hasMore \in BOOLEAN
    /\ failed \in SUBSET Packets
    /\ producer \in {"loop", "throttle", "checkRunning", "produce", "submit",
                     "finish", "ended"}
    /\ consumer \in {"loop", "pop", "checkDone", "checkActive", "ended"}
    /\ runner \in {"idle", "start", "join", "stopProcessor", "return"}
    /\ stopper \in {"idle", "join", "stopProcessor", "returned"}
    /\ packet \in Packets \cup {NoPacket}
    /\ runs \in 0 .. MaxRuns
    /\ consumed \in Seq(Packets)
    /\ dropped \in SUBSET Packets /\ refused \in SUBSET Packets
    /\ stopped \in BOOLEAN

Queued == {outputQueue[i] : i \in DOMAIN outputQueue}
Served == {consumed[i] : i \in DOMAIN consumed}

(* Backpressure: at most MaxActivePackets packets are in the graph, also   *)
(* counting the one the producer is about to submit, although the count is *)
(* read long before the packet is inserted.                                *)
Backpressure ==
    Cardinality(activePackets \cup ({packet} \ {NoPacket})) <= MaxActivePackets

(* Nothing is lost or consumed twice while it travels: a produced packet   *)
(* is with the producer, in the graph, in the output queue, consumed or    *)
(* dropped, and in one of these places only; only the callback that is     *)
(* under way may have a packet in two.                                     *)
Accounted ==
    LET inGraph == activePackets \ {completing}
        places  == <<{packet} \ {NoPacket}, inGraph, Queued, Served, dropped>>
    IN  /\ 1 .. produced = UNION {places[i] : i \in 1 .. 5} \cup refused
        /\ \A i, j \in 1 .. 5 : i # j => places[i] \cap places[j] = {}
        /\ Len(outputQueue) = Cardinality(Queued)
        /\ Len(consumed) = Cardinality(Served)

(* submitPacket never refuses a packet of a run: the processor is stopped  *)
(* only when the producer is over.                                         *)
NothingRefused == refused = {}

(* A run that was not stopped returns only when the source is exhausted    *)
(* and no packet is left in the graph.                                     *)
RunReturned == runs > 0 /\ runner \in {"stopProcessor", "return", "idle"}

GraphDrained ==
    RunReturned /\ ~ stopped => ~ hasMore /\ activePackets = {}

(* async_pipeline.h:74: run() has processed all the data of the source     *)
(* when it returns.                                                        *)
RunDrains ==
    RunReturned /\ ~ stopped =>
        ~ hasMore /\ Packets = Served \cup dropped

(* async_pipeline.h:81: stop() waits for the current packets.              *)
StopDrains == stopper = "returned" => activePackets = {}

(* run() returns: when the source is exhausted, or earlier after stop().   *)
RunReturns == runner # "idle" ~> runner = "idle"
=============================================================================
