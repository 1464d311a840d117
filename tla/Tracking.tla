------------------------------ MODULE Tracking ------------------------------
(* What the tracking applications do with the packets that leave the pipeline
   (deepsort_track_310p and deepsort_track_orin; the two copies are the same):
   ResultConsumer puts the frames back in order and feeds each to the
   DeepSortTracker, which matches its tracks with the frame's detections.

   Everything runs on the consumer thread.  Where a box is and how alike two
   features are is data: a match is any that min_cost_matching can return. *)
EXTENDS LinearAssignment, Sequences, SequencesExt

CONSTANTS
  Frames,         \* length of the video
  MaxDetections,  \* per frame
  MaxActive,      \* maxActivePackets of the pipeline
  max_age_, n_init_, nn_budget_,   \* of the tracker (30, 3, 100)
  Distances       \* the costs tried for min_cost_matching

ASSUME TrackingAssumption ==
  /\ {Frames, MaxDetections, max_age_} \subseteq Nat
  /\ {MaxActive, nn_budget_} \subseteq Nat \ {0}
  /\ n_init_ \in Nat /\ n_init_ >= 2

VARIABLES
  arrived, failed,     \* frames consumed; frames dropped because a node failed
  reorder_buffer_,     \* frames that wait for an earlier one
  expected_frame_id_,
  written,             \* the frames given to the tracker and the writer, in order
  tracks_, next_id_,
  samples,             \* the metric's gallery: features per track id
  frame                \* the update in progress: its stage and local variables

consumerVars == <<arrived, failed, reorder_buffer_, expected_frame_id_, written>>
trackerVars  == <<tracks_, next_id_, samples>>
trackingVars == <<consumerVars, trackerVars, frame>>

------------------------------------------------------------------------------
(* min_cost_matching: what it can return with some costs. *)
MatchOutcomes(rows, columns) ==
  UNION {{Accepted(Limited(cost), A) : A \in MinimumAssignments(Limited(cost), rows, columns)} :
           cost \in [Cells(rows, columns) -> Distances]}

(* What that comes to: every matching. *)
ASSUME OutcomesAssumption ==
  \A rows, columns \in 1 .. 2 : MatchOutcomes(rows, columns) = Matchings(rows, columns)

(* What of the sequence s is in S, and the indices that were not used, in order. *)
Within(s, S) ==
  LET upto[n \in 0 .. Len(s)] ==
        IF n = 0 THEN << >>
        ELSE IF s[n] \in S THEN Append(upto[n - 1], s[n]) ELSE upto[n - 1]
  IN upto[Len(s)]

Without(indices, used) == Within(indices, ToSet(indices) \ used)

MinCostMatching(track_indices, detection_indices) ==
  {[matches |-> {<<track_indices[m[1]], detection_indices[m[2]]>> : m \in M},
    unmatched_tracks |-> Without(track_indices, {track_indices[m[1]] : m \in M}),
    unmatched_detections |-> Without(detection_indices, {detection_indices[m[2]] : m \in M})] :
   M \in Matchings(Len(track_indices), Len(detection_indices))}

------------------------------------------------------------------------------
(* Tracks. *)
Upto(n) == [i \in 1 .. n |-> i]
Ids == {tracks_[i].id : i \in DOMAIN tracks_}
IsConfirmed(t) == t.state = "Confirmed"
Confirmed == Within(Upto(Len(tracks_)), {i \in DOMAIN tracks_ : IsConfirmed(tracks_[i])})
Unconfirmed == Within(Upto(Len(tracks_)), {i \in DOMAIN tracks_ : ~IsConfirmed(tracks_[i])})
MissedFor(n) == {i \in DOMAIN tracks_ : tracks_[i].time_since_update = n}

NewTrack(id, feature) ==
  [id |-> id, hits |-> 1, age |-> 1, time_since_update |-> 0,
   state |-> "Tentative", feature |-> feature]

Predicted(t) == [t EXCEPT !.age = @ + 1, !.time_since_update = @ + 1]

(* Track::update corrects the filter; the features stay those of the birth. *)
Updated(t) ==
  [t EXCEPT !.hits = @ + 1, !.time_since_update = 0,
            !.state = IF @ = "Tentative" /\ t.hits + 1 >= n_init_ THEN "Confirmed" ELSE @]

MutantMissed(t) ==
  [t EXCEPT !.state = IF t.time_since_update > max_age_ THEN "Deleted" ELSE @]

Missed(t) ==
  [t EXCEPT !.state = IF t.state = "Tentative" \/ t.time_since_update > max_age_
                      THEN "Deleted" ELSE @]

(* partial_fit: every confirmed track's feature is appended, the oldest beyond
   the budget dropped, and what belongs to no confirmed track erased. *)
Appended(old, feature) ==
  LET all == Append(old, feature) IN
  IF Len(all) <= nn_budget_ THEN all
  ELSE SubSeq(all, Len(all) - nn_budget_ + 1, Len(all))

PartialFit(tracks) ==
  LET active == {i \in DOMAIN tracks : IsConfirmed(tracks[i])}
      Row(id) == CHOOSE i \in active : tracks[i].id = id IN
  [id \in {tracks[i].id : i \in active} |->
     LET feature == tracks[Row(id)].feature IN
     IF id \in DOMAIN samples THEN Appended(samples[id], feature) ELSE <<feature>>]

------------------------------------------------------------------------------
Idle == [stage |-> "idle"]

TrackingInit ==
  /\ arrived = {} /\ failed = {} /\ reorder_buffer_ = {}
  /\ expected_frame_id_ = 0 /\ written = << >>
  /\ tracks_ = << >> /\ next_id_ = 1 /\ samples = << >>
  /\ frame = Idle

(* Source and pipeline: the frames carry their number; at most MaxActive are in
   the graph, and they complete in any order. *)
InGraph(f) ==
  /\ f \in 0 .. Frames - 1 /\ f \notin arrived \union failed
  /\ Cardinality({g \in 0 .. f - 1 : g \notin arrived \union failed}) < MaxActive

(* A packet a node has marked failed is dropped by the consumer thread. *)
Drop(f) ==
  /\ frame = Idle /\ InGraph(f)
  /\ failed' = failed \union {f}
  /\ UNCHANGED <<arrived, reorder_buffer_, expected_frame_id_, written, trackerVars, frame>>

(* consume: the packet goes to the buffer, and from the buffer leaves what is
   next, as long as there is one. *)
Consume(f) ==
  /\ frame = Idle /\ InGraph(f)
  /\ arrived' = arrived \union {f}
  /\ reorder_buffer_' = reorder_buffer_ \union {f}
  /\ frame' = [stage |-> "reorder"]
  /\ UNCHANGED <<failed, expected_frame_id_, written, trackerVars>>

NextInBuffer == expected_frame_id_ \in reorder_buffer_

MutantConsumeReturns ==
  /\ frame.stage = "reorder" /\ frame' = Idle
  /\ UNCHANGED <<consumerVars, trackerVars>>

ConsumeReturns ==
  /\ frame.stage = "reorder" /\ ~NextInBuffer
  /\ frame' = Idle
  /\ UNCHANGED <<consumerVars, trackerVars>>

(* ProcessSequentialFrame: update begins by predicting every track. *)
ProcessSequentialFrame ==
  /\ frame.stage = "reorder" /\ NextInBuffer
  /\ reorder_buffer_' = reorder_buffer_ \ {expected_frame_id_}
  /\ tracks_' = [i \in DOMAIN tracks_ |-> Predicted(tracks_[i])]
  /\ \E n \in 0 .. MaxDetections :
       frame' = [stage |-> "cascade", detections |-> n, level |-> 0,
                 matches |-> {}, unmatched_detections |-> Upto(n)]
  /\ UNCHANGED <<arrived, failed, expected_frame_id_, written, next_id_, samples>>

(* matching_cascade: the confirmed tracks level by level, those seen last
   first, with the detections the levels before have left.  Looking a track up
   in the gallery creates its entry when there is none. *)
MutantLeftover(result) == frame.unmatched_detections
Leftover(result) == result.unmatched_detections

CascadeLevel ==
  /\ frame.stage = "cascade"
  /\ frame.level < max_age_ /\ frame.unmatched_detections # << >>
  /\ LET level == Within(Confirmed, MissedFor(frame.level + 1))
         targets == {tracks_[i].id : i \in ToSet(level)} IN
     /\ samples' = [id \in DOMAIN samples \union targets |->
                      IF id \in DOMAIN samples THEN samples[id] ELSE << >>]
     /\ \E result \in MinCostMatching(level, frame.unmatched_detections) :
          frame' = [frame EXCEPT !.level = @ + 1,
                                 !.matches = @ \union result.matches,
                                 !.unmatched_detections = Leftover(result)]
  /\ UNCHANGED <<consumerVars, tracks_, next_id_>>

(* The second round by overlap: confirmed tracks missed for the first time, and
   all that are not confirmed yet. *)
MatchedTracks == {m[1] : m \in frame.matches}
UnmatchedA == Without(Confirmed, MatchedTracks)

IouMatching ==
  /\ frame.stage = "cascade"
  /\ frame.level = max_age_ \/ frame.unmatched_detections = << >>
  /\ LET candidates == Within(UnmatchedA, MissedFor(1)) \o Unconfirmed IN
     \E result \in MinCostMatching(candidates, frame.unmatched_detections) :
       frame' = [stage |-> "update", detections |-> frame.detections,
                 matches |-> frame.matches \union result.matches,
                 unmatched_tracks_a |-> UnmatchedA,
                 unmatched_tracks_b |-> result.unmatched_tracks,
                 unmatched_detections |-> Leftover(result)]
  /\ UNCHANGED <<consumerVars, trackerVars>>

(* The rest of update: matched tracks are corrected, missed ones deleted when
   tentative or too old, a track is born from every detection left over, deleted
   tracks are erased and the gallery is brought up to date. *)
MutantBirthId(i, kept) == kept + i
BirthId(i, kept) == next_id_ + i - 1

UpdateTracks ==
  LET matched == [i \in DOMAIN tracks_ |->
                    IF i \in MatchedTracks THEN Updated(tracks_[i]) ELSE tracks_[i]]
      missed == {i \in ToSet(frame.unmatched_tracks_a) : matched[i].time_since_update > 1}
                \union ToSet(frame.unmatched_tracks_b)
      marked == [i \in DOMAIN matched |-> IF i \in missed THEN Missed(matched[i]) ELSE matched[i]]
      kept == Within(marked, {t \in ToSet(marked) : t.state # "Deleted"})
      born == [i \in DOMAIN frame.unmatched_detections |->
                 NewTrack(BirthId(i, Len(kept)), <<expected_frame_id_, frame.unmatched_detections[i]>>)]
  IN /\ frame.stage = "update"
     /\ tracks_' = kept \o born
     /\ next_id_' = next_id_ + Len(born)
     /\ samples' = PartialFit(kept \o born)
     /\ written' = Append(written, expected_frame_id_)
     /\ expected_frame_id_' = expected_frame_id_ + 1
     /\ frame' = [stage |-> "reorder"]
     /\ UNCHANGED <<arrived, failed, reorder_buffer_>>

Tracker == ProcessSequentialFrame \/ CascadeLevel \/ IouMatching \/ UpdateTracks

TrackingNext ==
  \/ \E f \in 0 .. Frames - 1 : Consume(f) \/ Drop(f)
  \/ ConsumeReturns
  \/ Tracker

TrackingDone ==
  /\ frame = Idle /\ Cardinality(arrived) + Cardinality(failed) = Frames
  /\ UNCHANGED trackingVars

TrackingSpec == TrackingInit /\ [][TrackingNext \/ TrackingDone]_trackingVars

------------------------------------------------------------------------------
(* Order: the tracker gets the frames 0, 1, 2, ... without gap and each once, in
   whatever order the packets complete, and a frame waits exactly while an earlier
   one is missing.  (Behind a frame that failed everything waits for ever, and
   behind a slow one as many as the pipeline completes meanwhile: the limit on
   active packets does not bound the buffer.) *)
InOrder ==
  /\ written = [i \in 1 .. expected_frame_id_ |-> i - 1]
  /\ arrived = (0 .. expected_frame_id_ - 1) \union reorder_buffer_
               \union (IF frame.stage \in {"idle", "reorder"} THEN {} ELSE {expected_frame_id_})
  /\ \A f \in reorder_buffer_ : f >= expected_frame_id_
  /\ frame = Idle => expected_frame_id_ \notin reorder_buffer_

(* Use: in a frame no detection goes to two tracks or both to a track and to a
   new one, none is forgotten, and no track gets two, over both rounds and all
   levels of the cascade. *)
UsedOnce ==
  frame.stage \in {"cascade", "update"} =>
    LET left == frame.unmatched_detections IN
    /\ \A m, n \in frame.matches : m[1] = n[1] <=> m[2] = n[2]
    /\ IsInjective(left)
    /\ ToSet(left) \intersect {m[2] : m \in frame.matches} = {}
    /\ ToSet(left) \union {m[2] : m \in frame.matches} = 1 .. frame.detections

(* Life: between frames a tentative track has been seen in every frame of its
   life, a confirmed one within the last max_age_ frames, and no other is kept.
   The gallery holds the confirmed tracks and no other, as many samples as there
   were frames since the confirmation up to the budget, each of them the feature
   the track was born with; during matching it is never asked for another. *)
Lifecycle ==
  /\ frame.stage \in {"idle", "reorder"} =>
       \A i \in DOMAIN tracks_ :
         LET t == tracks_[i] IN
         \/ t.state = "Tentative" /\ t.time_since_update = 0 /\ t.hits = t.age /\ t.hits < n_init_
         \/ t.state = "Confirmed" /\ t.time_since_update <= max_age_ /\ t.hits >= n_init_
  /\ DOMAIN samples = {tracks_[i].id : i \in ToSet(Confirmed)}
  /\ \A i \in ToSet(Confirmed) :
       LET t == tracks_[i]
           life == t.age + (IF frame.stage \in {"idle", "reorder"} THEN 1 ELSE 0) - n_init_ IN
       samples[t.id] = [k \in 1 .. Min({nn_budget_, life}) |-> t.feature]

(* Identity: an id means one object.  A track that stays keeps the features of
   its birth, no two tracks share an id, and an id that was given up, or never
   given out, only reappears as a new one. *)
IdentityKept ==
  [][/\ \A i, j \in DOMAIN tracks_' : tracks_'[i].id = tracks_'[j].id => i = j
     /\ \A i \in DOMAIN tracks_' :
          \/ \E j \in DOMAIN tracks_ :
               tracks_[j].id = tracks_'[i].id /\ tracks_[j].feature = tracks_'[i].feature
          \/ tracks_'[i].id >= next_id_]_trackingVars
=============================================================================
