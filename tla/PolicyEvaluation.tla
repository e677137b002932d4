--------------------------- MODULE PolicyEvaluation ---------------------------
(***************************************************************************)
(* What an evaluation of Policies writes, from the layers it found: the     *)
(* functions of PolicyMerge, which are recursive and therefore kept apart.  *)
(***************************************************************************)
EXTENDS Policies, PolicyMerge

(* What an evaluation writes is the merge of the layers it found, each with    *)
(* any content: the last layer that says anything decides; the policy of the   *)
(* wider scope never overrides the one of the narrower, whatever their          *)
(* priorities; and a policy that is found both by the profile and as an         *)
(* assigned one does no harm (merge_policies, get_device_desired_state).       *)
MergeLaws ==
    reading.at = "write" => LastLayerWins /\ ScopeDecides /\ RepeatingIsHarmless

(* And what it writes is what the preview showed to the administrator, as far  *)
(* as the two are reckoned from the same layers in the same order               *)
(* (preview_profile_merged_policy).                                           *)
PreviewTellsTheTruth == reading.at = "write" => PreviewAgrees
=============================================================================
