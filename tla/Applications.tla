---------------------------- MODULE Applications ----------------------------
(***************************************************************************)
(* The applications that ship with the framework: the template that each   *)
(* main program builds (through TemplateBuilder), the resources it         *)
(* registers, and what the nodes do to the fields of one packet, executed  *)
(* in every order the template permits.  TaskScheduler has the counting    *)
(* that implements this order; here a node starts when its predecessors    *)
(* are done and its execute is one step that ends later.                   *)
(***************************************************************************)
EXTENDS TemplateBuilder, FiniteSets, Postprocess

CONSTANTS
    Apps,       \* applications examined
    PacketIds,  \* ids of example packets
    Cells,      \* bound: grid cells of the detector's output
    MaxScore,   \* bound: scores of a cell; 0 is below the threshold
    Classes,    \* class ids of detections
    Capacity    \* max_detection_capacity, and the slots of the ReID vectors

VARIABLES
    app,     \* the application, or "any": a user's own template
    running, \* nodes inside execute
    done,    \* nodes that notified their successors
    failed,  \* the packet is marked failed
    written, \* fields of the packet that have been assigned
    packet   \* the values of those fields the properties look at

nodeVars == <<running, done, failed, written, packet>>
appVars  == <<vars, app, nodeVars>>

Yolox    == {"yolox_detection_310p", "yolox_detection_orin"}
Deepsort == {"deepsort_track_310p", "deepsort_track_orin"}
Fusion   == {"image_fusion_310p", "image_fusion_orin"}

ASSUME ApplicationsAssumption ==
    /\ Apps \subseteq {"any", "example"} \cup Yolox \cup Deepsort \cup Fusion
    /\ PacketIds \subseteq Int
    /\ {Cells, MaxScore, Capacity} \subseteq Nat
    /\ Classes # {}

(* No resource is taken, no context is cast.                               *)
None == ""

InputCall(class) ==
    [type |-> "Input", id |-> "input", class |-> class, resource |-> None, preds |-> <<>>]
Call(id, class, resource, preds) ==
    [type |-> "Task", id |-> id, class |-> class, resource |-> resource, preds |-> preds]
OutputCall(class, preds) ==
    [type |-> "Output", id |-> "output", class |-> class, resource |-> None, preds |-> preds]
-----------------------------------------------------------------------------
(* The templates, as the calls of the buildOnce callbacks.                 *)

ExampleGraph == <<
    InputCall("InputNode"),
    Call("b_mul", "BMulConstNode", "multiplier", <<"input">>),
    Call("c_sub", "CSubConstNode", None, <<"input">>),
    Call("d_mul", "DMulConstNode", "multiplier", <<"input">>),
    Call("e_div", "EDivConstNode", None, <<"b_mul">>),
    Call("f_mul", "FMulConstNode", "multiplier", <<"b_mul">>),
    Call("g_add", "GAddNode", "adder", <<"b_mul", "c_sub", "d_mul">>),
    Call("h_add", "HAddNode", "adder", <<"e_div", "f_mul", "g_add">>),
    Call("i_add", "IAddNode", "adder", <<"h_add", "d_mul">>),
    OutputCall("OutputNode", <<"i_add">>)>>

MutantEdgeForgotten == [ExampleGraph EXCEPT ![7].preds = <<"b_mul", "d_mul">>]
ExampleTemplate     == ExampleGraph

Chain4 == <<
    InputCall("InputNode"),
    Call("preprocess", "PreprocessNode", None, <<"input">>),
    Call("inference", "InferenceNode", "npu", <<"preprocess">>),
    Call("postprocess", "PostprocessNode", None, <<"inference">>),
    OutputCall("OutputNode", <<"postprocess">>)>>

Yolox310pTemplate  == Chain4
YoloxOrinTemplate  == Chain4
Fusion310pTemplate == Chain4
FusionOrinTemplate == Chain4

DeepsortChain == <<
    InputCall("InputNode"),
    Call("preprocess", "PreprocessNode", None, <<"input">>),
    Call("detection_inference", "DetectionInferenceNode", "detector_npu", <<"preprocess">>),
    Call("postprocess", "PostprocessNode", None, <<"detection_inference">>),
    Call("reid_preprocess", "ReidPreprocessNode", None, <<"postprocess">>),
    Call("reid_inference", "ReidInferenceNode", "reid_npu", <<"reid_preprocess">>),
    OutputCall("OutputNode", <<"reid_inference">>)>>

MutantWrongPool      == [DeepsortChain EXCEPT ![3].resource = "reid_npu"]
Deepsort310pTemplate == DeepsortChain
DeepsortOrinTemplate == DeepsortChain

Template ==
    CASE app = "example"              -> ExampleTemplate
      [] app = "yolox_detection_310p" -> Yolox310pTemplate
      [] app = "yolox_detection_orin" -> YoloxOrinTemplate
      [] app = "deepsort_track_310p"  -> Deepsort310pTemplate
      [] app = "deepsort_track_orin"  -> DeepsortOrinTemplate
      [] app = "image_fusion_310p"    -> Fusion310pTemplate
      [] app = "image_fusion_orin"    -> FusionOrinTemplate
      [] OTHER                        -> <<>>

(* registerResourceType: the class of the contexts under each name.        *)
ExampleResources  == [adder |-> "AdderContext", multiplier |-> "MultiplierContext"]
ChainResources    == [npu |-> "InferContext"]
DeepsortResources == [detector_npu |-> "InferContext", reid_npu |-> "ReidContext"]

Resources ==
    CASE app = "example"   -> ExampleResources
      [] app \in Deepsort  -> DeepsortResources
      [] OTHER             -> ChainResources

ClassOf(n)    == Template[n + 1].class
ResourceOf(n) == Template[n + 1].resource
-----------------------------------------------------------------------------
(* What execute of each node class reads and writes, and the class it      *)
(* casts its context to, None if it leaves the context alone.              *)

Access(context, reads, writes) == [context |-> context, reads |-> reads, writes |-> writes]

ExampleAccess == [
    InputNode     |-> Access(None, {"id"}, {"a"}),
    BMulConstNode |-> Access("MultiplierContext", {"a"}, {"b"}),
    CSubConstNode |-> Access(None, {"a"}, {"c"}),
    DMulConstNode |-> Access("MultiplierContext", {"a"}, {"d"}),
    EDivConstNode |-> Access(None, {"b"}, {"e"}),
    FMulConstNode |-> Access("MultiplierContext", {"b"}, {"f"}),
    GAddNode      |-> Access("AdderContext", {"b", "c", "d"}, {"g"}),
    HAddNode      |-> Access("AdderContext", {"e", "f", "g"}, {"h"}),
    IAddNode      |-> Access("AdderContext", {"h", "d"}, {"i"}),
    OutputNode    |-> Access(None, {"i"}, {"j"})]

YoloxAccess == [
    InputNode       |-> Access(None, {"original_image"}, {"detections"}),
    PreprocessNode  |-> Access(None, {"original_image"}, {"preproc_data"}),
    InferenceNode   |-> Access("InferContext", {"preproc_data"}, {"infer_outputs"}),
    PostprocessNode |-> Access(None, {"infer_outputs", "preproc_data"}, {"detections"}),
    OutputNode      |-> Access(None, {"detections"}, {})]

ReidFields == {"reid_crop_valid_flags", "active_reid_crop_count", "active_reid_feature_count"}

DeepsortAccess == [
    InputNode              |-> Access(None, {"original_image"},
                                      {"detections", "active_tracks"} \cup ReidFields),
    PreprocessNode         |-> Access(None, {"original_image"}, {"preproc_data"}),
    DetectionInferenceNode |-> Access("InferContext", {"preproc_data"}, {"infer_outputs"}),
    PostprocessNode        |-> Access(None, {"infer_outputs", "preproc_data"}, {"detections"}),
    ReidPreprocessNode     |-> Access(None, {"detections", "original_image"},
                                      {"reid_preproc_crops", "reid_crop_valid_flags",
                                       "active_reid_crop_count"}),
    ReidInferenceNode      |-> Access("ReidContext",
                                      {"reid_preproc_crops", "reid_crop_valid_flags",
                                       "active_reid_crop_count"},
                                      {"reid_features", "active_reid_feature_count"}),
    OutputNode             |-> Access(None, {"detections", "active_reid_feature_count"}, {})]

RawImages == {"vis_raw_bgr", "ir_raw_gray"}

FusionAccess == [
    InputNode       |-> Access(None, RawImages, {}),
    PreprocessNode  |-> Access(None, RawImages, {"vis_y_float", "ir_float", "vis_cr", "vis_cb"}),
    InferenceNode   |-> Access("InferContext", {"vis_y_float", "ir_float"}, {"fused_y_float"}),
    PostprocessNode |-> Access(None, {"fused_y_float", "vis_cr", "vis_cb"}, {"fused_result"}),
    OutputNode      |-> Access(None, {"filename"}, {})]

(* What the source assigns before it hands the packet over, and what the   *)
(* consumer reads of a packet that comes out of the graph.                 *)
ExampleProduced  == {"id"}
DetectorProduced == {"frame_id", "original_image"}
FusionProduced   == {"packet_idx", "filename"} \cup RawImages

Produced ==
    CASE app = "example"              -> ExampleProduced
      [] app \in Yolox \cup Deepsort  -> DetectorProduced
      [] app \in Fusion               -> FusionProduced
      [] OTHER                        -> {}

ExampleConsumed  == {"id", "j"}
YoloxConsumed    == {"original_image", "detections"}
DeepsortConsumed == {"frame_id", "original_image", "detections", "reid_features",
                     "active_reid_feature_count"}
FusionConsumed   == {"packet_idx", "filename", "fused_result"}

Consumed ==
    CASE app = "example"   -> ExampleConsumed
      [] app \in Yolox     -> YoloxConsumed
      [] app \in Deepsort  -> DeepsortConsumed
      [] app \in Fusion    -> FusionConsumed
      [] OTHER             -> {}

AccessOf(n) ==
    CASE app = "example"  -> ExampleAccess[ClassOf(n)]
      [] app \in Yolox    -> YoloxAccess[ClassOf(n)]
      [] app \in Deepsort -> DeepsortAccess[ClassOf(n)]
      [] app \in Fusion   -> FusionAccess[ClassOf(n)]
-----------------------------------------------------------------------------
(* A packet as its constructor leaves it: the vectors of the example hold  *)
(* zeros, those of the ReID stage have one slot per detection.             *)
Vectors == {"a", "b", "c", "d", "e", "f", "g", "h", "i", "j"}
NoCrop  == 0

NewPacket(id) ==
    [id |-> id, value |-> [x \in Vectors |-> 0],
     cells |-> <<>>, overlap |-> {}, degenerate |-> {}, detections |-> <<>>,
     crops |-> [s \in 1 .. Capacity |-> NoCrop], valid |-> [s \in 1 .. Capacity |-> FALSE],
     features |-> [s \in 1 .. Capacity |-> NoCrop],
     cropCount |-> 0, featureCount |-> 0]

AppInit ==
    /\ Init
    /\ app \in Apps
    /\ running = {}
    /\ done = {}
    /\ failed = FALSE
    /\ written = Produced
    /\ packet \in IF app = "example" THEN {NewPacket(id) : id \in PacketIds}
                                     ELSE {NewPacket(0)}

(* buildOnce runs the callback of the application, call by call.           *)
BuildCall ==
    /\ app # "any"
    /\ Len(tasks) < Len(Template)
    /\ LET call == Template[Len(tasks) + 1]
       IN  AddTaskDef(call.type, call.id, call.preds)
    /\ UNCHANGED <<app, nodeVars>>

BuildAny   == app = "any" /\ AnyCall /\ UNCHANGED <<app, nodeVars>>
BuildEnds  == FinalizeBuild /\ Len(tasks) >= Len(Template) /\ UNCHANGED <<app, nodeVars>>

Startable(n) ==
    /\ built /\ app # "any"
    /\ n \notin running \cup done
    /\ \A i \in DOMAIN Parents(n) : Parents(n)[i] \in done

Start(n) ==
    /\ Startable(n)
    /\ ~ failed
    /\ running' = running \cup {n}
    /\ UNCHANGED <<vars, app, done, failed, written, packet>>

(* A node of a failed packet notifies its successors without executing.    *)
Skip(n) ==
    /\ Startable(n)
    /\ failed
    /\ done' = done \cup {n}
    /\ UNCHANGED <<vars, app, running, failed, written, packet>>

Executes(n, apps, class) == n \in running /\ app \in apps /\ ClassOf(n) = class

Leave(n) ==
    /\ running' = running \ {n}
    /\ done' = done \cup {n}
    /\ UNCHANGED <<vars, app>>

Succeed(n, p) ==
    /\ Leave(n)
    /\ packet' = p
    /\ written' = written \cup AccessOf(n).writes
    /\ UNCHANGED failed

(* An execute of which only the fields it assigns matter here.             *)
Plain(n, a, class) == Executes(n, {a}, class) /\ Succeed(n, packet)

(* markFailed, or an exception that executeNode turns into it.             *)
Fail(n) ==
    /\ Leave(n)
    /\ failed' = TRUE
    /\ UNCHANGED <<written, packet>>
-----------------------------------------------------------------------------
(* execute of the nodes of the example: sums and products of vectors of    *)
(* one repeated number.  c_sub and g_add throw at random.                  *)
Set(x, v) == [packet EXCEPT !.value[x] = v]
Val(x)    == packet.value[x]

ExampleInput(n) ==
    /\ Executes(n, {"example"}, "InputNode")
    /\ Succeed(n, Set("a", packet.id))
BMulConst(n) ==
    /\ Executes(n, {"example"}, "BMulConstNode")
    /\ Succeed(n, Set("b", Val("a") * 2))
CSubConst(n) ==
    /\ Executes(n, {"example"}, "CSubConstNode")
    /\ Succeed(n, Set("c", Val("a") - 1)) \/ Fail(n)
DMulConst(n) ==
    /\ Executes(n, {"example"}, "DMulConstNode")
    /\ Succeed(n, Set("d", Val("a") * 4))
EDivConst(n) ==
    /\ Executes(n, {"example"}, "EDivConstNode")
    /\ Succeed(n, Set("e", Val("b") \div 2))
FMulConst(n) ==
    /\ Executes(n, {"example"}, "FMulConstNode")
    /\ Succeed(n, Set("f", Val("b") * 3))
GAdd(n) ==
    /\ Executes(n, {"example"}, "GAddNode")
    /\ Succeed(n, Set("g", Val("b") + Val("c") + Val("d"))) \/ Fail(n)
HAdd(n) ==
    /\ Executes(n, {"example"}, "HAddNode")
    /\ Succeed(n, Set("h", Val("e") + Val("f") + Val("g")))
MutantIAdd(n) ==
    /\ Executes(n, {"example"}, "IAddNode")
    /\ Succeed(n, Set("i", Val("h") + Val("c")))
IAdd(n) ==
    /\ Executes(n, {"example"}, "IAddNode")
    /\ Succeed(n, Set("i", Val("h") + Val("d")))
ExampleOutput(n) ==
    /\ Executes(n, {"example"}, "OutputNode")
    /\ Succeed(n, Set("j", Val("i")))

ExampleNode(n) ==
    \/ ExampleInput(n) \/ BMulConst(n) \/ CSubConst(n) \/ DMulConst(n) \/ EDivConst(n)
    \/ FMulConst(n) \/ GAdd(n) \/ HAdd(n) \/ IAdd(n) \/ ExampleOutput(n)
-----------------------------------------------------------------------------
(* The nodes of the detectors.  The sources never hand out an empty image  *)
(* (hasMore goes false with it), so the checks for one do not bite here.   *)

YoloxInput(n) ==
    /\ Executes(n, Yolox, "InputNode")
    /\ Succeed(n, [packet EXCEPT !.detections = <<>>])

ResetFrameState ==
    [packet EXCEPT !.detections = <<>>, !.cropCount = 0, !.featureCount = 0,
                   !.valid = [s \in 1 .. Capacity |-> FALSE]]
DeepsortInput(n) ==
    /\ Executes(n, Deepsort, "InputNode")
    /\ Succeed(n, ResetFrameState)

YoloxPreprocess310p(n)    == Plain(n, "yolox_detection_310p", "PreprocessNode")
YoloxPreprocessOrin(n)    == Plain(n, "yolox_detection_orin", "PreprocessNode")
DeepsortPreprocess310p(n) == Plain(n, "deepsort_track_310p", "PreprocessNode")
DeepsortPreprocessOrin(n) == Plain(n, "deepsort_track_orin", "PreprocessNode")

(* The detector's output, as the cells that pass both thresholds, with the *)
(* pairs of boxes that overlap too much and the boxes without an area.     *)
Boxes(k)  == [1 .. k -> [score : 1 .. MaxScore, class : Classes]]
Pairs(k)  == {{i, j} : i, j \in 1 .. k} \ {{i} : i \in 1 .. k}
FlatBoxes(k) == IF app \in Deepsort THEN SUBSET (1 .. k) ELSE {{}}

Detected(cells, overlap, flat) ==
    [packet EXCEPT !.cells = cells, !.overlap = overlap, !.degenerate = flat]
OutputsOf(k) ==
    {Detected(cells, overlap, flat) :
        cells \in Boxes(k), overlap \in SUBSET Pairs(k), flat \in FlatBoxes(k)}
DetectorOutputs == UNION {OutputsOf(k) : k \in 0 .. Cells}

Infer(n, a, class) ==
    /\ Executes(n, {a}, class)
    /\ \/ \E p \in DetectorOutputs : Succeed(n, p)
       \/ Fail(n)

Yolox310pInference(n)      == Infer(n, "yolox_detection_310p", "InferenceNode")
YoloxOrinInference(n)      == Infer(n, "yolox_detection_orin", "InferenceNode")
DetectionInference310p(n)  == Infer(n, "deepsort_track_310p", "DetectionInferenceNode")
DetectionInferenceOrin(n)  == Infer(n, "deepsort_track_orin", "DetectionInferenceNode")

Scores == [i \in DOMAIN packet.cells |-> packet.cells[i].score]
Labels == [i \in DOMAIN packet.cells |-> packet.cells[i].class]

MutantScoreOfIndex(sorted, order) ==
    LET kept == SelectSeq([i \in DOMAIN order |-> i],
                          LAMBDA i : order[i] # Suppressed)
    IN  [j \in DOMAIN kept |-> [box   |-> order[kept[j]],
                                score |-> sorted.v[order[kept[j]]],
                                class |-> Labels[order[kept[j]]]]]

(* What survives, in the order of the scores; sorted is the result of the  *)
(* sort and order the indices after the suppression.                       *)
Detection(sorted, order, i) ==
    [box |-> order[i], score |-> sorted.v[i], class |-> Labels[order[i]]]

Survivors(sorted, order) ==
    LET upto[n \in 0 .. Len(order)] ==
            IF n = 0 THEN <<>>
            ELSE IF order[n] = Suppressed THEN upto[n - 1]
            ELSE Append(upto[n - 1], Detection(sorted, order, n))
    IN  upto[Len(order)]

AtMost(n, s) == SubSeq(s, 1, Lowest({n, Len(s)}))

YoloxDetections ==
    LET sorted == SortByScore(Scores)
    IN  Survivors(sorted, ApplyNmsFilter(sorted.ix, packet.overlap, Labels))

DeepsortDetections ==
    LET sorted == SortByScore(Scores)
    IN  AtMost(Capacity, Survivors(sorted, ApplyGlobalNms(sorted.ix, packet.overlap)))

(* A model with too few outputs leaves nothing to look at: a failure.      *)
YoloxPostprocess310p(n) ==
    /\ Executes(n, {"yolox_detection_310p"}, "PostprocessNode")
    /\ Succeed(n, [packet EXCEPT !.detections = YoloxDetections]) \/ Fail(n)
YoloxPostprocessOrin(n) ==
    /\ Executes(n, {"yolox_detection_orin"}, "PostprocessNode")
    /\ Succeed(n, [packet EXCEPT !.detections = YoloxDetections]) \/ Fail(n)
DeepsortPostprocess310p(n) ==
    /\ Executes(n, {"deepsort_track_310p"}, "PostprocessNode")
    /\ Succeed(n, [packet EXCEPT !.detections = DeepsortDetections]) \/ Fail(n)
DeepsortPostprocessOrin(n) ==
    /\ Executes(n, {"deepsort_track_orin"}, "PostprocessNode")
    /\ Succeed(n, [packet EXCEPT !.detections = DeepsortDetections]) \/ Fail(n)

(* Crop number i is the box of detection i, if that box has an area.       *)
CropOf(i) == packet.detections[i].box
HasArea(i) == CropOf(i) \notin packet.degenerate

ReidCrop(n, a) ==
    /\ Executes(n, {a}, "ReidPreprocessNode")
    /\ LET count == Lowest({Len(packet.detections), Capacity})
           slots == 1 .. count
       IN  Succeed(n, IF packet.detections = <<>> THEN packet ELSE
               [packet EXCEPT
                   !.cropCount = count,
                   !.crops = [s \in DOMAIN @ |-> IF s \notin slots THEN @[s]
                                                 ELSE IF HasArea(s) THEN CropOf(s)
                                                 ELSE NoCrop],
                   !.valid = [s \in DOMAIN @ |-> IF s \in slots THEN HasArea(s) ELSE @[s]]])

ReidPreprocess310p(n) == ReidCrop(n, "deepsort_track_310p")
ReidPreprocessOrin(n) == ReidCrop(n, "deepsort_track_orin")

MutantCompacted(slots) ==
    LET kept == SelectSeq([i \in 1 .. Cardinality(slots) |-> i], LAMBDA i : packet.valid[i])
    IN  [s \in 1 .. Capacity |-> IF s \in DOMAIN kept THEN packet.crops[kept[s]] ELSE NoCrop]

(* One feature per crop, zeros for a crop without an area.                 *)
Features(slots) ==
    [s \in 1 .. Capacity |-> IF s \notin slots THEN packet.features[s]
                             ELSE IF packet.valid[s] THEN packet.crops[s]
                             ELSE NoCrop]

ReidInfer(n, a) ==
    /\ Executes(n, {a}, "ReidInferenceNode")
    /\ \/ Succeed(n, [packet EXCEPT !.featureCount = packet.cropCount,
                                    !.features = Features(1 .. packet.cropCount)])
       \/ packet.cropCount > 0 /\ Fail(n)
ReidInference310p(n) == ReidInfer(n, "deepsort_track_310p")
ReidInferenceOrin(n) == ReidInfer(n, "deepsort_track_orin")

YoloxOutput(n) ==
    Executes(n, Yolox, "OutputNode") /\ Succeed(n, packet)
DeepsortOutput(n) ==
    Executes(n, Deepsort, "OutputNode") /\ Succeed(n, packet)

DetectorNode(n) ==
    \/ YoloxInput(n) \/ DeepsortInput(n) \/ YoloxPreprocess310p(n)
    \/ YoloxPreprocessOrin(n) \/ DeepsortPreprocess310p(n) \/ DeepsortPreprocessOrin(n)
    \/ Yolox310pInference(n) \/ YoloxOrinInference(n)
    \/ DetectionInference310p(n) \/ DetectionInferenceOrin(n)
    \/ YoloxPostprocess310p(n) \/ YoloxPostprocessOrin(n)
    \/ DeepsortPostprocess310p(n) \/ DeepsortPostprocessOrin(n)
    \/ ReidPreprocess310p(n) \/ ReidPreprocessOrin(n) \/ ReidInference310p(n) \/ ReidInferenceOrin(n)
    \/ YoloxOutput(n) \/ DeepsortOutput(n)
-----------------------------------------------------------------------------
(* The nodes of the image fusion: which images exist when.                 *)

FusionInput(n) ==
    Executes(n, Fusion, "InputNode") /\ Succeed(n, packet)
FusionPreprocess310p(n) == Plain(n, "image_fusion_310p", "PreprocessNode")
FusionPreprocessOrin(n) == Plain(n, "image_fusion_orin", "PreprocessNode")
FusionInference310p(n) ==
    Executes(n, {"image_fusion_310p"}, "InferenceNode") /\ (Succeed(n, packet) \/ Fail(n))
FusionInferenceOrin(n) ==
    Executes(n, {"image_fusion_orin"}, "InferenceNode") /\ (Succeed(n, packet) \/ Fail(n))
FusionPostprocess310p(n) == Plain(n, "image_fusion_310p", "PostprocessNode")
FusionPostprocessOrin(n) == Plain(n, "image_fusion_orin", "PostprocessNode")
FusionOutput(n) ==
    Executes(n, Fusion, "OutputNode") /\ Succeed(n, packet)

FusionNode(n) ==
    \/ FusionInput(n) \/ FusionPreprocess310p(n) \/ FusionPreprocessOrin(n)
    \/ FusionInference310p(n) \/ FusionInferenceOrin(n)
    \/ FusionPostprocess310p(n) \/ FusionPostprocessOrin(n) \/ FusionOutput(n)
-----------------------------------------------------------------------------
Finished ==
    /\ built
    /\ app = "any" \/ done = Nodes
    /\ UNCHANGED appVars

AppNext ==
    \/ BuildCall \/ BuildAny \/ BuildEnds \/ Finished
    \/ \E n \in Nodes :
           Start(n) \/ Skip(n) \/ ExampleNode(n) \/ DetectorNode(n) \/ FusionNode(n)

AppSpec == AppInit /\ [][AppNext]_appVars
-----------------------------------------------------------------------------
(* Properties.                                                             *)

(* The packet leaves the graph: every node is done and none failed.        *)
Delivered == built /\ app # "any" /\ done = Nodes /\ ~ failed

(* A node that executes finds every field it reads assigned and nobody     *)
(* else assigns one of its fields meanwhile, although nodes of different   *)
(* branches share the packet without a lock; the consumer finds what it    *)
(* reads.                                                                  *)
FieldsSettled ==
    /\ \A n \in running :
           /\ AccessOf(n).reads \subseteq written
           /\ \A m \in running \ {n} :
                  AccessOf(m).writes \cap (AccessOf(n).reads \cup AccessOf(n).writes) = {}
    /\ Delivered => Consumed \subseteq written

(* The context that the pool hands out for the name in the template is of  *)
(* the class to which the node casts it unchecked.                         *)
ContextsMatch ==
    \A n \in running :
        AccessOf(n).context # None =>
            /\ ResourceOf(n) \in DOMAIN Resources
            /\ Resources[ResourceOf(n)] = AccessOf(n).context

(* The check of the example's ResultConsumer, in every order of its nodes. *)
ResultVerified ==
    Delivered /\ app = "example" => packet.value["j"] = 18 * packet.id - 1

(* The detections are candidates with their own score and class, best      *)
(* first; no two of one class (of any class in deepsort_track) overlap;    *)
(* and a candidate is missing only if a better one that overlaps with it   *)
(* was kept or the capacity was reached.                                   *)
Rivals(b, c) ==
    {b, c} \in packet.overlap /\ (app \in Deepsort \/ Labels[b] = Labels[c])

DetectionsCorrect ==
    Delivered /\ app \in Yolox \cup Deepsort =>
        LET found == packet.detections
            boxes == {found[i].box : i \in DOMAIN found}
        IN  /\ \A i \in DOMAIN found :
                   /\ found[i].score = Scores[found[i].box]
                   /\ found[i].class = Labels[found[i].box]
                   /\ \A j \in 1 .. i - 1 :
                          /\ found[j].score >= found[i].score
                          /\ found[j].box # found[i].box
                          /\ ~ Rivals(found[i].box, found[j].box)
            /\ \A b \in DOMAIN packet.cells \ boxes :
                   \/ \E c \in boxes : Rivals(b, c) /\ Scores[c] >= Scores[b]
                   \/ app \in Deepsort /\ Len(found) = Capacity

(* The consumer pairs detection i with feature i: there are equally many,  *)
(* and feature i is the one of the crop of detection i.                    *)
FeaturesAligned ==
    Delivered /\ app \in Deepsort =>
        /\ packet.featureCount = Len(packet.detections)
        /\ \A i \in DOMAIN packet.detections :
               packet.features[i] = IF HasArea(i) THEN CropOf(i) ELSE NoCrop
=============================================================================
