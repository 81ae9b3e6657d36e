-------------------------- MODULE MCSampleCommand --------------------------
(* Two pairs share an image: p has img and shared, q shared on both sides. *)
EXTENDS SampleCommand

CONSTANTS p, q, img, shared

MCUriOf ==
    [c \in Candidates |-> [s \in Sides |-> IF c = p /\ s = "A" THEN img ELSE shared]]

MCItems == <<"metadata_sample_images", "metadata_image_samples.csv">>
=============================================================================
