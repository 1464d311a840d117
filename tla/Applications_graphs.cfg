SPECIFICATION AppSpec
CONSTANTS
    name1 = name1
    name2 = name2
    name3 = name3
    name4 = name4
    Ids = {name1, name2, name3, name4}
    MaxPreds = 2
    MaxNodes = 4
    Apps = {"any", "example", "yolox_detection_310p", "yolox_detection_orin", "deepsort_track_310p", "deepsort_track_orin", "image_fusion_310p", "image_fusion_orin"}
    PacketIds = {0, 1, 5}
    Cells = 3
    MaxScore = 2
    Classes = {1, 2}
    Capacity = 2
SYMMETRY NameSymmetry
INVARIANTS
    CountsMatch
    FieldsSettled
    ContextsMatch
    ResultVerified
    DetectionsCorrect
    FeaturesAligned
