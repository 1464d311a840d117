------------------------ MODULE AsyncPipelineProofs -------------------------
(***************************************************************************)
(* Proofs about AsyncPipeline, for a source of any length, any limit of    *)
(* active packets, and any number of runs interrupted by stop or not.      *)
(***************************************************************************)
EXTENDS AsyncPipeline, FiniteSetTheorems, SequenceTheorems, TLAPS

(* Who is alive when: the threads only between StartThreads and RunJoin,   *)
(* and running is false from a stop to the end of the run it interrupts.   *)
Lifetimes ==
    /\ ~ ThreadsEnded => runner = "join"
    /\ running => runner # "idle"
    /\ stopper \in {"join", "stopProcessor"} => ~ running
    /\ stopper = "stopProcessor" => producer \in {"loop", "finish", "ended"}
    /\ runner \in {"start", "join"} /\ running => stopper \in {"idle", "returned"}
    /\ producer = "loop" /\ running => isRunning
    /\ producer \in {"throttle", "checkRunning", "produce", "submit"} => isRunning
    /\ packet # NoPacket <=> producer = "submit"

(* The submitting thread found room, and nobody else has used it up.       *)
Room ==
    /\ ActiveCount <= MaxActivePackets
    /\ producer = "checkRunning" => ~ running \/ ActiveCount < MaxActivePackets
    /\ producer \in {"produce", "submit"} => ActiveCount < MaxActivePackets

Control == TypeOK /\ Lifetimes /\ Room /\ NothingRefused

(* The initial state satisfies the invariant.                              *)
LEMMA InitControl == Init => Control
<1>1. ASSUME Init PROVE TypeOK
  <2>1. /\ running \in BOOLEAN /\ producerDone \in BOOLEAN
        /\ isRunning \in BOOLEAN /\ stopped \in BOOLEAN
        /\ hasMore = (NumPackets > 0)
    BY <1>1, Zenon DEF Init
  <2>2. hasMore \in BOOLEAN  BY <2>1
  <2>3. consumed \in Seq(Packets) /\ outputQueue \in Seq(Packets)
    BY <1>1 DEF Init
  <2>4. produced \in 0 .. NumPackets /\ runs \in 0 .. MaxRuns
    BY <1>1, PipelineAssumption DEF Init
  <2>. QED  BY <1>1, <2>1, <2>2, <2>3, <2>4 DEF Init, TypeOK
<1>2. Init => Lifetimes  BY DEF Init, Lifetimes, ThreadsEnded
<1>3. ASSUME Init PROVE Room
  <2>1. ActiveCount = 0  BY <1>3, FS_EmptySet DEF Init, ActiveCount
  <2>. QED  BY <1>3, <2>1, PipelineAssumption DEF Init, Room
<1>4. Init => NothingRefused  BY DEF Init, NothingRefused
<1>. QED  BY <1>1, <1>2, <1>3, <1>4 DEF Control

(* Every action keeps the types.                                           *)
LEMMA TypeStep == ASSUME TypeOK, Lifetimes, [Next]_vars PROVE TypeOK'
<1>. USE DEF TypeOK, flags, packets, source, fates
<1>1. CASE Producer
  <2>1. CASE ProducerLoop
    BY <2>1 DEF ProducerLoop, ProducerGoto
  <2>2. CASE ProducerThrottle
    BY <2>2 DEF ProducerThrottle, ProducerGoto
  <2>3. CASE ProducerCheckRunning
    BY <2>3 DEF ProducerCheckRunning, ProducerGoto
  <2>4. CASE Produce
    <3>1. CASE SourceHasPacket
      <4>1. produced + 1 \in Packets /\ produced + 1 \in 0 .. NumPackets
        BY <3>1, PipelineAssumption DEF SourceHasPacket, Packets
      <4>2. hasMore' \in BOOLEAN  BY <2>4, <3>1 DEF Produce
      <4>. QED  BY <2>4, <3>1, <4>1, <4>2 DEF Produce, ProducerGoto
    <3>2. CASE ~ SourceHasPacket
      <4>1. hasMore' \in BOOLEAN  BY <2>4, <3>2, Zenon DEF Produce
      <4>. QED  BY <2>4, <3>2, <4>1 DEF Produce, ProducerGoto
    <3>. QED  BY <3>1, <3>2
  <2>5. CASE SubmitPacket
    <3>1. packet \in Packets  BY <2>5 DEF SubmitPacket, Lifetimes
    <3>. QED  BY <2>5, <3>1 DEF SubmitPacket, ProducerGoto
  <2>6. CASE ProducerFinish
    BY <2>6 DEF ProducerFinish, ProducerGoto
  <2>. QED  BY <1>1, <2>1, <2>2, <2>3, <2>4, <2>5, <2>6 DEF Producer
<1>2. CASE Processor
  <2>1. CASE (\E p \in Packets : PushOutput(p))
    BY <2>1 DEF PushOutput, counters
  <2>2. CASE EraseActive
    BY <2>2 DEF EraseActive, counters
  <2>. QED  BY <1>2, <2>1, <2>2 DEF Processor
<1>3. CASE Consumer
  <2>1. CASE ConsumerLoop
    BY <2>1 DEF ConsumerLoop, ConsumerGoto
  <2>2. CASE TryGetOutput
    <3>1. /\ Head(outputQueue) \in Packets
          /\ Tail(outputQueue) \in Seq(Packets)
      BY <2>2, HeadTailProperties DEF TryGetOutput
    <3>2. Append(consumed, Head(outputQueue)) \in Seq(Packets)
      BY <3>1, AppendProperties
    <3>3. /\ outputQueue' \in Seq(Packets) /\ consumed' \in Seq(Packets)
          /\ dropped' \in SUBSET Packets
      BY <2>2, <3>1, <3>2 DEF TryGetOutput, PopOutput
    <3>. HIDE DEF PopOutput
    <3>. QED  BY <2>2, <3>3 DEF TryGetOutput, ConsumerGoto
  <2>3. CASE TryGetNothing
    BY <2>3 DEF TryGetNothing, ConsumerGoto
  <2>4. CASE CheckProducerDone
    BY <2>4 DEF CheckProducerDone, ConsumerGoto
  <2>5. CASE CheckActive
    BY <2>5 DEF CheckActive, ConsumerGoto
  <2>. QED  BY <1>3, <2>1, <2>2, <2>3, <2>4, <2>5 DEF Consumer
<1>4. CASE Runner
  <2>1. CASE Run
    <3>1. running' \in BOOLEAN  BY <2>1, Zenon DEF Run
    <3>2. runs' \in 0 .. MaxRuns  BY <2>1, PipelineAssumption DEF Run
    <3>. QED  BY <2>1, <3>1, <3>2 DEF Run, RunnerGoto
  <2>2. CASE StartThreads
    BY <2>2 DEF StartThreads, RunnerGoto, ProducerGoto, ConsumerGoto
  <2>3. CASE RunJoin
    BY <2>3 DEF RunJoin, RunnerGoto
  <2>4. CASE RunStopProcessor
    <3>1. isRunning' \in BOOLEAN  BY <2>4, Zenon DEF RunStopProcessor
    <3>. QED  BY <2>4, <3>1 DEF RunStopProcessor, RunnerGoto
  <2>5. CASE RunReturn
    <3>1. running' \in BOOLEAN  BY <2>5, Zenon DEF RunReturn
    <3>. QED  BY <2>5, <3>1 DEF RunReturn, RunnerGoto
  <2>. QED  BY <1>4, <2>1, <2>2, <2>3, <2>4, <2>5 DEF Runner
<1>5. CASE Stopper
  <2>1. CASE Stop
    <3>1. running' \in BOOLEAN /\ stopped' \in BOOLEAN
      BY <2>1, Zenon DEF Stop
    <3>. QED  BY <2>1, <3>1 DEF Stop, StopperGoto
  <2>2. CASE StopJoin
    BY <2>2 DEF StopJoin, StopperGoto
  <2>3. CASE StopStopProcessor
    <3>1. isRunning' \in BOOLEAN  BY <2>3, Zenon DEF StopStopProcessor
    <3>. QED  BY <2>3, <3>1 DEF StopStopProcessor, StopperGoto
  <2>. QED  BY <1>5, <2>1, <2>2, <2>3 DEF Stopper
<1>6. CASE Done \/ UNCHANGED vars
  BY <1>6 DEF Done, vars, counters
<1>. QED  BY <1>1, <1>2, <1>3, <1>4, <1>5, <1>6 DEF Next

(* Every action keeps the lifetimes.                                       *)
LEMMA LifetimesStep == ASSUME TypeOK, Lifetimes, [Next]_vars PROVE Lifetimes'
<1>. USE DEF Lifetimes, ThreadsEnded, flags, packets, source, fates
<1>. producer \in {"loop", "throttle", "checkRunning", "produce", "submit",
                   "finish", "ended"}
  BY DEF TypeOK
<1>. runner \in {"idle", "start", "join", "stopProcessor", "return"}
  BY DEF TypeOK
<1>. stopper \in {"idle", "join", "stopProcessor", "returned"}
  BY DEF TypeOK
<1>1. CASE Producer
  <2>1. CASE ProducerLoop
    BY <2>1 DEF ProducerLoop, ProducerGoto
  <2>2. CASE ProducerThrottle
    BY <2>2 DEF ProducerThrottle, ProducerGoto
  <2>3. CASE ProducerCheckRunning
    BY <2>3 DEF ProducerCheckRunning, ProducerGoto
  <2>4. CASE Produce
    <3>1. CASE SourceHasPacket
      <4>1. produced + 1 # NoPacket
        BY PipelineAssumption DEF TypeOK, NoPacket
      <4>. QED  BY <2>4, <3>1, <4>1 DEF Produce, ProducerGoto
    <3>2. CASE ~ SourceHasPacket
      BY <2>4, <3>2 DEF Produce, ProducerGoto
    <3>. QED  BY <3>1, <3>2
  <2>5. CASE SubmitPacket
    BY <2>5 DEF SubmitPacket, ProducerGoto
  <2>6. CASE ProducerFinish
    BY <2>6 DEF ProducerFinish, ProducerGoto
  <2>. QED  BY <1>1, <2>1, <2>2, <2>3, <2>4, <2>5, <2>6 DEF Producer
<1>2. CASE Processor
  <2>1. CASE (\E p \in Packets : PushOutput(p))
    BY <2>1 DEF PushOutput, counters
  <2>2. CASE EraseActive
    BY <2>2 DEF EraseActive, counters
  <2>. QED  BY <1>2, <2>1, <2>2 DEF Processor
<1>3. CASE Consumer
  <2>1. CASE ConsumerLoop
    BY <2>1 DEF ConsumerLoop, ConsumerGoto
  <2>2. CASE TryGetOutput
    BY <2>2 DEF TryGetOutput, ConsumerGoto, PopOutput
  <2>3. CASE TryGetNothing
    BY <2>3 DEF TryGetNothing, ConsumerGoto
  <2>4. CASE CheckProducerDone
    BY <2>4 DEF CheckProducerDone, ConsumerGoto
  <2>5. CASE CheckActive
    BY <2>5 DEF CheckActive, ConsumerGoto
  <2>. QED  BY <1>3, <2>1, <2>2, <2>3, <2>4, <2>5 DEF Consumer
<1>4. CASE Runner
  <2>1. CASE Run
    BY <2>1 DEF Run, RunnerGoto
  <2>2. CASE StartThreads
    BY <2>2 DEF StartThreads, RunnerGoto, ProducerGoto, ConsumerGoto
  <2>3. CASE RunJoin
    BY <2>3 DEF RunJoin, RunnerGoto
  <2>4. CASE RunStopProcessor
    BY <2>4 DEF RunStopProcessor, RunnerGoto
  <2>5. CASE RunReturn
    BY <2>5 DEF RunReturn, RunnerGoto
  <2>. QED  BY <1>4, <2>1, <2>2, <2>3, <2>4, <2>5 DEF Runner
<1>5. CASE Stopper
  <2>1. CASE Stop
    BY <2>1 DEF Stop, StopperGoto
  <2>2. CASE StopJoin
    BY <2>2 DEF StopJoin, StopperGoto
  <2>3. CASE StopStopProcessor
    BY <2>3 DEF StopStopProcessor, StopperGoto
  <2>. QED  BY <1>5, <2>1, <2>2, <2>3 DEF Stopper
<1>6. CASE Done \/ UNCHANGED vars
  BY <1>6 DEF Done, vars, counters
<1>. QED  BY <1>1, <1>2, <1>3, <1>4, <1>5, <1>6 DEF Next

(* The packets in the graph can be counted.                                *)
LEMMA GraphFinite == ASSUME TypeOK PROVE IsFiniteSet(activePackets)
<1>1. IsFiniteSet(1 .. NumPackets)  BY FS_Interval, PipelineAssumption
<1>. QED  BY <1>1, FS_Subset DEF TypeOK, Packets

(* A step that lets nobody into the graph and nobody past the throttle.    *)
LEMMA RoomKept ==
    ASSUME TypeOK, Room, activePackets' = activePackets,
           \/ producer' = producer /\ (running' => running)
           \/ producer' \in {"loop", "throttle", "finish", "ended"}
           \/ producer' = "submit" /\ producer = "produce"
    PROVE  Room'
<1>1. ActiveCount' = ActiveCount  BY DEF ActiveCount
<1>. QED  BY <1>1 DEF Room

(* Every action keeps the bound on the packets in the graph.               *)
LEMMA RoomStep ==
    ASSUME TypeOK, Lifetimes, Room, [Next]_vars
    PROVE  Room'
<1>. USE DEF flags, packets, source, fates, ProducerGoto
<1>. IsFiniteSet(activePackets)  BY GraphFinite
<1>. ActiveCount \in Nat /\ MaxActivePackets \in Nat
  BY FS_CardinalityType, PipelineAssumption DEF ActiveCount
<1>1. CASE Producer
  <2>1. CASE ProducerLoop
    BY <2>1, RoomKept DEF ProducerLoop
  <2>2. CASE ProducerThrottle
    <3>1. ~ running \/ ActiveCount < MaxActivePackets
      BY <2>2 DEF ProducerThrottle, Admit
    <3>2. ActiveCount' = ActiveCount  BY <2>2 DEF ProducerThrottle, ActiveCount
    <3>. QED  BY <2>2, <3>1, <3>2 DEF ProducerThrottle, Room
  <2>3. CASE ProducerCheckRunning
    <3>1. ActiveCount' = ActiveCount
      BY <2>3 DEF ProducerCheckRunning, ActiveCount
    <3>. QED  BY <2>3, <3>1 DEF ProducerCheckRunning, Room
  <2>4. CASE Produce
    BY <2>4, RoomKept DEF Produce
  <2>5. CASE SubmitPacket
    <3>1. ActiveCount' <= ActiveCount + 1
      BY <2>5, FS_AddElement DEF SubmitPacket, ActiveCount
    <3>2. ActiveCount' \in Nat
      BY <2>5, FS_AddElement, FS_CardinalityType DEF SubmitPacket, ActiveCount
    <3>. QED  BY <2>5, <3>1, <3>2 DEF SubmitPacket, Room
  <2>6. CASE ProducerFinish
    BY <2>6, RoomKept DEF ProducerFinish
  <2>. QED  BY <1>1, <2>1, <2>2, <2>3, <2>4, <2>5, <2>6 DEF Producer
<1>2. CASE Processor
  <2>1. CASE (\E p \in Packets : PushOutput(p))
    BY <2>1, RoomKept DEF PushOutput, counters
  <2>2. CASE EraseActive
    <3>0. activePackets' = activePackets \ {completing}
      BY <2>2 DEF EraseActive
    <3>1. /\ Cardinality(activePackets \ {completing}) \in Nat
          /\ Cardinality(activePackets \ {completing}) <= ActiveCount
      <4>1. IsFiniteSet(activePackets \ {completing})  BY FS_RemoveElement
      <4>2. Cardinality(activePackets \ {completing}) \in Nat
        BY <4>1, FS_CardinalityType
      <4>. QED  BY <4>2, FS_RemoveElement DEF ActiveCount
    <3>. QED  BY <2>2, <3>0, <3>1 DEF EraseActive, counters, Room, ActiveCount
  <2>. QED  BY <1>2, <2>1, <2>2 DEF Processor
<1>3. CASE Consumer
  <2>1. UNCHANGED <<activePackets, producer, running>>
    BY <1>3 DEF Consumer, ConsumerLoop, TryGetOutput, TryGetNothing,
                CheckProducerDone, CheckActive
  <2>. QED  BY <2>1, RoomKept
<1>4. CASE Runner
  <2>1. CASE Run
    <3>1. producer = "ended"  BY <2>1 DEF Run, Lifetimes, ThreadsEnded
    <3>. QED  BY <2>1, <3>1, RoomKept DEF Run
  <2>2. CASE StartThreads
    BY <2>2, RoomKept DEF StartThreads
  <2>3. CASE RunJoin \/ RunStopProcessor \/ RunReturn
    BY <2>3, RoomKept DEF RunJoin, RunStopProcessor, RunReturn
  <2>. QED  BY <1>4, <2>1, <2>2, <2>3 DEF Runner
<1>5. CASE Stopper
  BY <1>5, RoomKept DEF Stopper, Stop, StopJoin, StopStopProcessor
<1>6. CASE Done \/ UNCHANGED vars
  BY <1>6, RoomKept DEF Done, vars, counters
<1>. QED  BY <1>1, <1>2, <1>3, <1>4, <1>5, <1>6 DEF Next

(* A packet is submitted only while the processor runs.                    *)
LEMMA RefusedStep ==
    ASSUME Lifetimes, NothingRefused, [Next]_vars
    PROVE  NothingRefused'
<1>. USE DEF NothingRefused, flags, packets, source, fates
<1>1. CASE Producer
  <2>1. CASE SubmitPacket
    BY <2>1 DEF SubmitPacket, Lifetimes
  <2>. QED
    BY <1>1, <2>1 DEF Producer, ProducerLoop, ProducerThrottle,
                      ProducerCheckRunning, Produce, ProducerFinish
<1>2. CASE Processor
  BY <1>2 DEF Processor, PushOutput, EraseActive
<1>3. CASE Consumer
  BY <1>3 DEF Consumer, ConsumerLoop, TryGetOutput, TryGetNothing,
              CheckProducerDone, CheckActive
<1>4. CASE Runner
  BY <1>4 DEF Runner, Run, StartThreads, RunJoin, RunStopProcessor, RunReturn
<1>5. CASE Stopper
  BY <1>5 DEF Stopper, Stop, StopJoin, StopStopProcessor
<1>6. CASE Done \/ UNCHANGED vars
  BY <1>6 DEF Done, vars
<1>. QED  BY <1>1, <1>2, <1>3, <1>4, <1>5, <1>6 DEF Next

(* The invariant of the threads and the flags holds in every state.        *)
THEOREM ControlInvariance == Spec => []Control
<1>1. Control /\ [Next]_vars => Control'
  BY TypeStep, LifetimesStep, RoomStep, RefusedStep DEF Control
<1>. QED  BY InitControl, <1>1, PTL DEF Spec

(* Every variable keeps its type.                                          *)
THEOREM TypeCorrect == Spec => []TypeOK
<1>1. Control => TypeOK  BY DEF Control
<1>. QED  BY ControlInvariance, <1>1, PTL

(* There are never more packets in the graph than the limit, counting the  *)
(* one on its way: the producer alone adds, after it has seen room.        *)
THEOREM BackpressureCorrect == Spec => []Backpressure
<1>1. ASSUME Control PROVE Backpressure
  <2>. IsFiniteSet(activePackets)  BY <1>1, GraphFinite DEF Control
  <2>. ActiveCount \in Nat /\ MaxActivePackets \in Nat
    BY FS_CardinalityType, PipelineAssumption DEF ActiveCount
  <2>1. CASE packet = NoPacket
    <3>1. activePackets \cup ({packet} \ {NoPacket}) = activePackets  BY <2>1
    <3>. QED  BY <1>1, <3>1 DEF Control, Room, Backpressure, ActiveCount
  <2>2. CASE packet # NoPacket
    <3>1. activePackets \cup ({packet} \ {NoPacket}) = activePackets \cup {packet}
      BY <2>2
    <3>2. Cardinality(activePackets \cup {packet}) <= ActiveCount + 1
      BY FS_AddElement DEF ActiveCount
    <3>3. ActiveCount < MaxActivePackets
      BY <1>1, <2>2 DEF Control, Lifetimes, Room
    <3>4. Cardinality(activePackets \cup {packet}) \in Nat
      <4>1. IsFiniteSet(activePackets \cup {packet})  BY FS_AddElement
      <4>. QED  BY <4>1, FS_CardinalityType
    <3>5. Cardinality(activePackets \cup {packet}) <= MaxActivePackets
      BY <3>2, <3>3, <3>4
    <3>. QED  BY <3>1, <3>5, Zenon DEF Backpressure
  <2>. QED  BY <2>1, <2>2
<1>. QED  BY ControlInvariance, <1>1, PTL

(* No packet of a run is refused, also when stop interrupts the run.       *)
THEOREM RefusedCorrect == Spec => []NothingRefused
<1>1. Control => NothingRefused  BY DEF Control
<1>. QED  BY ControlInvariance, <1>1, PTL

(* A run that is not stopped: the producer leaves at the end of the source *)
(* and the consumer after it, when the graph is empty.                     *)
Drain ==
    \/ stopped
    \/ /\ runner \in {"start", "join", "stopProcessor", "return"} => running
       /\ producer = "finish" => ~ hasMore
       /\ consumer = "checkActive" => producerDone
       /\ runner = "join" /\ producerDone => producer = "ended"
       /\ runner = "join" /\ producer = "ended" => ~ hasMore
       /\ runner = "join" /\ consumer = "ended" =>
              producer = "ended" /\ activePackets = {}
       /\ RunReturned => ~ hasMore /\ activePackets = {}

(* Every action keeps this.                                                *)
LEMMA DrainStep ==
    ASSUME TypeOK, Lifetimes, Drain, [Next]_vars
    PROVE  Drain'
<1>. USE DEF Drain, RunReturned, Lifetimes, ThreadsEnded, flags, packets, source,
             fates
<1>. producer \in {"loop", "throttle", "checkRunning", "produce", "submit",
                   "finish", "ended"}
  BY DEF TypeOK
<1>. runner \in {"idle", "start", "join", "stopProcessor", "return"}
  BY DEF TypeOK
<1>1. CASE Producer
  <2>1. CASE ProducerLoop
    BY <2>1 DEF ProducerLoop, ProducerGoto
  <2>2. CASE ProducerThrottle
    BY <2>2 DEF ProducerThrottle, ProducerGoto
  <2>3. CASE ProducerCheckRunning
    BY <2>3 DEF ProducerCheckRunning, ProducerGoto
  <2>4. CASE Produce
    BY <2>4 DEF Produce, ProducerGoto
  <2>5. CASE SubmitPacket
    BY <2>5 DEF SubmitPacket, ProducerGoto
  <2>6. CASE ProducerFinish
    BY <2>6 DEF ProducerFinish, ProducerGoto
  <2>. QED  BY <1>1, <2>1, <2>2, <2>3, <2>4, <2>5, <2>6 DEF Producer
<1>2. CASE Processor
  <2>1. CASE (\E p \in Packets : PushOutput(p))
    BY <2>1 DEF PushOutput, counters
  <2>2. CASE EraseActive
    BY <2>2 DEF EraseActive, counters
  <2>. QED  BY <1>2, <2>1, <2>2 DEF Processor
<1>3. CASE Consumer
  <2>1. CASE ConsumerLoop
    BY <2>1 DEF ConsumerLoop, ConsumerGoto
  <2>2. CASE TryGetOutput
    BY <2>2 DEF TryGetOutput, ConsumerGoto
  <2>3. CASE TryGetNothing
    BY <2>3 DEF TryGetNothing, ConsumerGoto
  <2>4. CASE CheckProducerDone
    BY <2>4 DEF CheckProducerDone, ConsumerGoto
  <2>5. CASE CheckActive
    <3>1. ActiveCount = 0 => activePackets = {}
      BY GraphFinite, FS_EmptySet DEF ActiveCount
    <3>. QED  BY <2>5, <3>1 DEF CheckActive, ConsumerGoto
  <2>. QED  BY <1>3, <2>1, <2>2, <2>3, <2>4, <2>5 DEF Consumer
<1>4. CASE Runner
  <2>1. CASE Run
    BY <2>1 DEF Run, RunnerGoto
  <2>2. CASE StartThreads
    BY <2>2 DEF StartThreads, RunnerGoto, ProducerGoto, ConsumerGoto
  <2>3. CASE RunJoin
    BY <2>3 DEF RunJoin, RunnerGoto
  <2>4. CASE RunStopProcessor
    BY <2>4 DEF RunStopProcessor, RunnerGoto
  <2>5. CASE RunReturn
    BY <2>5 DEF RunReturn, RunnerGoto
  <2>. QED  BY <1>4, <2>1, <2>2, <2>3, <2>4, <2>5 DEF Runner
<1>5. CASE Stopper
  <2>1. CASE Stop
    BY <2>1 DEF Stop, StopperGoto
  <2>2. CASE StopJoin
    BY <2>2 DEF StopJoin, StopperGoto
  <2>3. CASE StopStopProcessor
    BY <2>3 DEF StopStopProcessor, StopperGoto
  <2>. QED  BY <1>5, <2>1, <2>2, <2>3 DEF Stopper
<1>6. CASE Done \/ UNCHANGED vars
  BY <1>6 DEF Done, vars, counters
<1>. QED  BY <1>1, <1>2, <1>3, <1>4, <1>5, <1>6 DEF Next

(* A run that was not stopped returns only with the source exhausted and   *)
(* no packet in the graph.                                                 *)
THEOREM DrainCorrect == Spec => []GraphDrained
<1>1. Init => Drain
  BY DEF Init, Drain, RunReturned
<1>2. Drain => GraphDrained
  BY DEF Drain, GraphDrained
<1>3. Control /\ Drain /\ [Next]_vars => Drain'
  BY DrainStep DEF Control
<1>. QED  BY ControlInvariance, <1>1, <1>2, <1>3, PTL DEF Spec
-----------------------------------------------------------------------------
(* Sequences without repetition: appending a new element, removing the     *)
(* first one, and their length.                                            *)
LEMMA AppendRange ==
    ASSUME NEW S, NEW s \in Seq(S), NEW e \in S, IsInjective(s), e \notin Range(s)
    PROVE  /\ Range(Append(s, e)) = Range(s) \cup {e}
           /\ IsInjective(Append(s, e))
<1>. DEFINE t == Append(s, e)
<1>1. /\ t \in Seq(S) /\ Len(t) = Len(s) + 1
      /\ \A i \in 1 .. Len(s) : t[i] = s[i]
      /\ t[Len(s) + 1] = e
  BY AppendProperties
<1>2. /\ DOMAIN s = 1 .. Len(s) /\ DOMAIN t = 1 .. Len(s) + 1
      /\ Len(s) \in Nat
  BY <1>1, LenProperties
<1>3. 1 .. Len(s) + 1 = (1 .. Len(s)) \cup {Len(s) + 1}  BY <1>2
<1>. HIDE DEF t
<1>4. \A i \in 1 .. Len(s) : s[i] \in Range(s) /\ s[i] # e
  BY <1>2 DEF Range
<1>5. Range(t) = Range(s) \cup {e}
  BY <1>1, <1>2, <1>3 DEF Range
<1>6. IsInjective(t)
  BY <1>1, <1>2, <1>3, <1>4 DEF IsInjective
<1>. QED  BY <1>5, <1>6 DEF t

LEMMA TailRange ==
    ASSUME NEW S, NEW s \in Seq(S), s # <<>>, IsInjective(s)
    PROVE  /\ Head(s) \in Range(s)
           /\ Range(Tail(s)) = Range(s) \ {Head(s)}
           /\ IsInjective(Tail(s))
<1>. DEFINE t == Tail(s)
<1>1. /\ t \in Seq(S) /\ Len(t) = Len(s) - 1
      /\ \A i \in 1 .. Len(t) : t[i] = s[i + 1]
  BY HeadTailProperties
<1>2. /\ DOMAIN s = 1 .. Len(s) /\ DOMAIN t = 1 .. Len(s) - 1
      /\ Len(s) \in Nat \ {0}
  BY <1>1, LenProperties, EmptySeq
<1>3. Head(s) = s[1]  OBVIOUS
<1>. HIDE DEF t
<1>4. \A i \in 1 .. Len(s) : i = 1 \/ (i - 1 \in 1 .. Len(s) - 1 /\ t[i - 1] = s[i])
  BY <1>1, <1>2
<1>5. \A i \in 1 .. Len(s) - 1 :
          i + 1 \in 1 .. Len(s) /\ i + 1 # 1 /\ t[i] = s[i + 1]
  BY <1>1, <1>2
<1>6. 1 \in 1 .. Len(s)  BY <1>2
<1>7. Range(t) = Range(s) \ {Head(s)}
  <2>1. ASSUME NEW x \in Range(t) PROVE x \in Range(s) /\ x # s[1]
    <3>1. PICK i \in 1 .. Len(s) - 1 : x = t[i]  BY <1>2 DEF Range
    <3>2. x = s[i + 1]  BY <3>1, <1>5
    <3>. QED  BY <3>2, <1>2, <1>5, <1>6 DEF Range, IsInjective
  <2>2. ASSUME NEW x \in Range(s), x # s[1] PROVE x \in Range(t)
    <3>1. PICK i \in 1 .. Len(s) : x = s[i]  BY <1>2 DEF Range
    <3>2. i - 1 \in DOMAIN t /\ x = t[i - 1]  BY <2>2, <3>1, <1>2, <1>4
    <3>. QED  BY <3>2 DEF Range
  <2>. QED  BY <2>1, <2>2, <1>3
<1>8. IsInjective(t)
  <2>1. SUFFICES ASSUME NEW i \in DOMAIN t, NEW j \in DOMAIN t, t[i] = t[j]
                 PROVE  i = j
    BY DEF IsInjective
  <2>2. i + 1 = j + 1  BY <2>1, <1>2, <1>5 DEF IsInjective
  <2>. QED  BY <2>2, <1>2
<1>9. Head(s) \in Range(s)  BY <1>2, <1>3, <1>6 DEF Range
<1>. QED  BY <1>7, <1>8, <1>9 DEF t

LEMMA InjectiveLength ==
    ASSUME NEW S, NEW s \in Seq(S), IsInjective(s)
    PROVE  Len(s) = Cardinality(Range(s))
<1>1. Len(s) \in Nat /\ s \in [1 .. Len(s) -> Range(s)]
  BY LenProperties DEF Range
<1>2. s \in Bijection(1 .. Len(s), Range(s))
  BY <1>1 DEF Bijection, Injection, Surjection, IsInjective, Range
<1>3. ExistsBijection(1 .. Len(s), Range(s))
  BY <1>2 DEF ExistsBijection
<1>. QED  BY <1>1, <1>3, FS_CountingElements

(* The whereabouts of one packet: the places it can be in, and that it is  *)
(* in one place only.                                                      *)
InGraph == activePackets \ {completing}

Somewhere(p) ==
    p = packet \/ p \in InGraph \/ p \in Queued \/ p \in Served \/ p \in dropped

OnePlace(p) ==
    /\ p = packet => p \notin InGraph /\ p \notin Queued /\ p \notin Served
                     /\ p \notin dropped
    /\ p \in InGraph => p \notin Queued /\ p \notin Served /\ p \notin dropped
    /\ p \in Queued => p \notin Served /\ p \notin dropped
    /\ p \in Served => p \notin dropped

Tracked ==
    /\ \A p \in Packets : p <= produced <=> Somewhere(p)
    /\ \A p \in Packets : OnePlace(p)
    /\ IsInjective(outputQueue) /\ IsInjective(consumed)

(* The properties of the runs follow.                                      *)
LEMMA TrackedAccounted ==
    ASSUME TypeOK, NothingRefused, Tracked
    PROVE  Accounted
<1>. DEFINE places == <<{packet} \ {NoPacket}, InGraph, Queued, Served, dropped>>
<1>1. /\ Queued = Range(outputQueue) /\ Served = Range(consumed)
  BY DEF Queued, Served, Range
<1>2. /\ Queued \subseteq Packets /\ Served \subseteq Packets
  BY LenProperties DEF Queued, Served, TypeOK
<1>3. /\ {packet} \ {NoPacket} \subseteq Packets
      /\ InGraph \subseteq Packets /\ dropped \subseteq Packets
  BY DEF TypeOK, InGraph
<1>4. Len(outputQueue) = Cardinality(Queued) /\ Len(consumed) = Cardinality(Served)
  BY <1>1, InjectiveLength DEF Tracked, TypeOK
<1>5. 1 .. produced = {p \in Packets : p <= produced}
  BY PipelineAssumption DEF TypeOK, Packets
<1>6. NoPacket \notin Packets  BY PipelineAssumption DEF Packets, NoPacket
<1>7. UNION {places[i] : i \in 1 .. 5}
        = ({packet} \ {NoPacket}) \cup InGraph \cup Queued \cup Served \cup dropped
  <2>1. 1 .. 5 = {1, 2, 3, 4, 5}  OBVIOUS
  <2>. QED  BY <2>1
<1>8. 1 .. produced = UNION {places[i] : i \in 1 .. 5} \cup refused
  BY <1>2, <1>3, <1>5, <1>6, <1>7 DEF Tracked, Somewhere, NothingRefused
<1>9. ASSUME NEW i \in 1 .. 5, NEW j \in 1 .. 5, i # j
      PROVE  places[i] \cap places[j] = {}
  <2>. DEFINE held == {packet} \ {NoPacket}
  <2>1. /\ held \cap InGraph = {} /\ held \cap Queued = {}
        /\ held \cap Served = {} /\ held \cap dropped = {}
        /\ InGraph \cap Queued = {} /\ InGraph \cap Served = {}
        /\ InGraph \cap dropped = {} /\ Queued \cap Served = {}
        /\ Queued \cap dropped = {} /\ Served \cap dropped = {}
    BY <1>2, <1>3 DEF Tracked, OnePlace
  <2>2. i \in {1, 2, 3, 4, 5} /\ j \in {1, 2, 3, 4, 5}  OBVIOUS
  <2>. QED  BY <1>9, <2>1, <2>2
<1>. QED  BY <1>4, <1>8, <1>9, Zenon DEF Accounted, InGraph

(* A step that moves no packet.                                            *)
LEMMA TrackedKept ==
    ASSUME Tracked,
           UNCHANGED <<activePackets, outputQueue, completing, produced, packet,
                       consumed, dropped>>
    PROVE  Tracked'
BY DEF Tracked, Somewhere, OnePlace, InGraph, Queued, Served

(* Every action moves at most one packet, from one place to the next.      *)
LEMMA TrackedStep ==
    ASSUME TypeOK, Lifetimes, Tracked, [Next]_vars
    PROVE  Tracked'
<1>. USE DEF flags, packets, source, fates
<1>. DEFINE Unmoved == UNCHANGED <<activePackets, outputQueue, completing, produced,
                                   packet, consumed, dropped>>
<1>. NoPacket \notin Packets  BY PipelineAssumption DEF Packets, NoPacket
<1>. Queued = Range(outputQueue) /\ Served = Range(consumed)
  BY DEF Queued, Served, Range
<1>. Queued' = Range(outputQueue)' /\ Served' = Range(consumed)'
  BY DEF Queued, Served, Range
<1>1. CASE Producer
  <2>1. CASE Produce /\ SourceHasPacket
    <3>1. packet = NoPacket  BY <2>1 DEF Produce, Lifetimes
    <3>2. /\ packet' = produced + 1 /\ produced' = produced + 1
          /\ UNCHANGED <<activePackets, outputQueue, completing, consumed, dropped>>
      BY <2>1 DEF Produce
    <3>3. Queued' = Queued /\ Served' = Served /\ InGraph' = InGraph
      BY <3>2 DEF Queued, Served, InGraph
    <3>4. \A p \in Packets : p <= produced + 1 <=> p <= produced \/ p = produced + 1
      BY PipelineAssumption DEF TypeOK, Packets
    <3>5. produced + 1 \in Packets /\ ~ (produced + 1 <= produced)
      BY <2>1, PipelineAssumption DEF SourceHasPacket, TypeOK, Packets
    <3>. HIDE DEF Packets
    <3>6. \A p \in Packets : p <= produced' <=> Somewhere(p)'
      BY <3>1, <3>2, <3>3, <3>4 DEF Tracked, Somewhere
    <3>7. \A p \in Packets : OnePlace(p)'
      BY <3>1, <3>2, <3>3, <3>5 DEF Tracked, OnePlace, Somewhere
    <3>. QED  BY <3>2, <3>6, <3>7 DEF Tracked
  <2>2. CASE SubmitPacket
    <3>1. packet \in Packets /\ isRunning
      BY <2>2 DEF SubmitPacket, Lifetimes, TypeOK
    <3>2. /\ completing = NoPacket /\ packet' = NoPacket
          /\ activePackets' = activePackets \cup {packet}
          /\ UNCHANGED <<outputQueue, completing, produced, consumed, dropped>>
      BY <2>2, <3>1 DEF SubmitPacket, MutexFree
    <3>3. Queued' = Queued /\ Served' = Served /\ InGraph' = InGraph \cup {packet}
      BY <3>1, <3>2 DEF Queued, Served, InGraph
    <3>4. \A p \in Packets : Somewhere(p)' <=> Somewhere(p)
      BY <3>2, <3>3 DEF Somewhere
    <3>5. \A p \in Packets : OnePlace(p)'
      BY <3>2, <3>3 DEF Tracked, OnePlace
    <3>. QED  BY <3>2, <3>4, <3>5 DEF Tracked
  <2>. QED
    <3>1. Unmoved \/ (Produce /\ SourceHasPacket) \/ SubmitPacket
      BY <1>1 DEF Producer, ProducerLoop, ProducerThrottle, ProducerCheckRunning,
                  Produce, ProducerFinish
    <3>. QED  BY <2>1, <2>2, <3>1, TrackedKept
<1>2. CASE Processor
  <2>1. ASSUME NEW p \in Packets, PushOutput(p) PROVE Tracked'
    <3>1. /\ completing = NoPacket /\ completing' = p /\ p \in activePackets
          /\ outputQueue' = Append(outputQueue, p)
          /\ UNCHANGED <<activePackets, produced, packet, consumed, dropped>>
      BY <2>1 DEF PushOutput, MutexFree, counters
    <3>2. p \in InGraph /\ InGraph' = InGraph \ {p}
      BY <3>1 DEF InGraph, TypeOK
    <3>3. p \notin Queued  BY <3>2 DEF Tracked, OnePlace
    <3>4. Queued' = Queued \cup {p} /\ IsInjective(outputQueue)'
      BY <3>1, <3>3, AppendRange DEF Tracked, TypeOK
    <3>5. Served' = Served  BY <3>1 DEF Served
    <3>6. \A q \in Packets : Somewhere(q)' <=> Somewhere(q)
      BY <3>1, <3>2, <3>4, <3>5 DEF Somewhere
    <3>7. \A q \in Packets : OnePlace(q)'
      BY <3>1, <3>2, <3>4, <3>5 DEF Tracked, OnePlace
    <3>. QED  BY <3>1, <3>4, <3>6, <3>7 DEF Tracked
  <2>2. CASE EraseActive
    <3>1. /\ InGraph' = InGraph
          /\ UNCHANGED <<outputQueue, produced, packet, consumed, dropped>>
      BY <2>2 DEF EraseActive, InGraph, counters, TypeOK
    <3>. QED
      BY <3>1 DEF Tracked, Somewhere, OnePlace, Queued, Served
  <2>. QED  BY <1>2, <2>1, <2>2 DEF Processor
<1>3. CASE Consumer
  <2>1. CASE TryGetOutput
    <3>. DEFINE p == Head(outputQueue)
    <3>1. /\ p \in Packets /\ p \in Queued
          /\ Range(Tail(outputQueue)) = Queued \ {p}
          /\ IsInjective(Tail(outputQueue))
      BY <2>1, TailRange, HeadTailProperties DEF TryGetOutput, Tracked, TypeOK
    <3>2. /\ outputQueue' = Tail(outputQueue)
          /\ UNCHANGED <<activePackets, completing, produced, packet>>
      BY <2>1 DEF TryGetOutput, PopOutput
    <3>3. InGraph' = InGraph  BY <3>2 DEF InGraph
    <3>4. Queued' = Queued \ {p} /\ IsInjective(outputQueue)'  BY <3>1, <3>2
    <3>5. p \notin Served /\ p \notin dropped /\ p \notin InGraph /\ p # packet
      BY <3>1 DEF Tracked, OnePlace
    <3>6. \/ dropped' = dropped \cup {p} /\ consumed' = consumed
          \/ consumed' = Append(consumed, p) /\ dropped' = dropped
      BY <2>1 DEF TryGetOutput
    <3>7. /\ IsInjective(consumed)'
          /\ \/ dropped' = dropped \cup {p} /\ Served' = Served
             \/ Served' = Served \cup {p} /\ dropped' = dropped
      <4>1. /\ Range(Append(consumed, p)) = Served \cup {p}
            /\ IsInjective(Append(consumed, p))
        BY <3>1, <3>5, AppendRange DEF Tracked, TypeOK
      <4>2. CASE consumed' = consumed /\ dropped' = dropped \cup {p}
        BY <4>2 DEF Tracked
      <4>3. CASE consumed' = Append(consumed, p) /\ dropped' = dropped
        BY <4>1, <4>3
      <4>. QED  BY <3>6, <4>2, <4>3
    <3>. HIDE DEF p
    <3>8. \A q \in Packets : Somewhere(q)' <=> Somewhere(q)
      BY <3>1, <3>2, <3>3, <3>4, <3>7 DEF Somewhere
    <3>9. \A q \in Packets : OnePlace(q)'
      BY <3>2, <3>3, <3>4, <3>5, <3>7 DEF Tracked, OnePlace
    <3>. QED  BY <3>2, <3>4, <3>7, <3>8, <3>9 DEF Tracked
  <2>. QED
    <3>1. Unmoved \/ TryGetOutput
      BY <1>3 DEF Consumer, ConsumerLoop, TryGetNothing, CheckProducerDone, CheckActive
    <3>. QED  BY <2>1, <3>1, TrackedKept
<1>4. CASE Runner
  <2>1. Unmoved
    BY <1>4 DEF Runner, Run, StartThreads, RunJoin, RunStopProcessor, RunReturn
  <2>. QED  BY <2>1, TrackedKept
<1>5. CASE Stopper
  <2>1. Unmoved  BY <1>5 DEF Stopper, Stop, StopJoin, StopStopProcessor
  <2>. QED  BY <2>1, TrackedKept
<1>6. CASE Done \/ UNCHANGED vars
  <2>1. Unmoved  BY <1>6 DEF Done, vars, counters
  <2>. QED  BY <2>1, TrackedKept
<1>. QED  BY <1>1, <1>2, <1>3, <1>4, <1>5, <1>6 DEF Next

(* Nothing is lost and nothing is consumed twice.                          *)
THEOREM AccountedCorrect == Spec => []Accounted
<1>1. ASSUME Init PROVE Tracked
  <2>1. /\ outputQueue = <<>> /\ consumed = <<>> /\ dropped = {} /\ produced = 0
        /\ activePackets = {} /\ packet = NoPacket
    BY <1>1 DEF Init
  <2>2. Queued = {} /\ Served = {} /\ InGraph = {}
    BY <2>1 DEF Queued, Served, InGraph
  <2>3. \A p \in Packets : p # NoPacket /\ ~ (p <= produced)
    BY <2>1, PipelineAssumption DEF Packets, NoPacket
  <2>4. IsInjective(outputQueue) /\ IsInjective(consumed)
    BY <2>1 DEF IsInjective
  <2>. QED  BY <2>1, <2>2, <2>3, <2>4 DEF Tracked, Somewhere, OnePlace
<1>2. Control /\ Tracked => Accounted
  BY TrackedAccounted DEF Control
<1>3. Control /\ Tracked /\ [Next]_vars => Tracked'
  BY TrackedStep DEF Control
<1>. QED  BY ControlInvariance, <1>1, <1>2, <1>3, PTL DEF Spec
=============================================================================
