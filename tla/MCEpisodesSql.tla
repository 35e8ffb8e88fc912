--------------------------- MODULE MCEpisodesSql ----------------------------
(* Model checking instances of EpisodesSql. *)
EXTENDS EpisodesSql

CONSTANTS c1, c2, ann, pod1, pod2, e1, e2, d1, t1, p1, p2

OneUser == [c \in Client |-> ann]

EpisodePodcasts == [e \in Episode |-> IF e = e1 THEN pod1 ELSE pod2]

AllRows == [podcast |-> NULL, device |-> NULL]
NoFilters == [c \in Client |-> AllRows]

\* The second client asks for what its device has inserted in one podcast.
OneFilters ==
    [c \in Client |-> IF c = c1 THEN AllRows ELSE [podcast |-> pod1, device |-> d1]]

Symmetry == Permutations(Client)

Played(e, d, t, p) ==
    [episode |-> e, device |-> d, timestamp |-> t, action |-> "play", play |-> p]
Downloaded(e, d) ==
    [episode |-> e, device |-> d, timestamp |-> NULL, action |-> "download",
     play |-> NULL]

\* e1 is played with and without a timestamp, to different places, or downloaded.
OneEpisodeChanges ==
    {Played(e1, d1, t1, p1), Played(e1, NULL, NULL, p2), Downloaded(e1, d1)}

TwoChanges == {Played(e1, d1, t1, p1), Downloaded(e1, NULL)}

TwoEpisodesChanges ==
    {Played(e1, d1, t1, p1), Downloaded(e1, NULL), Played(e2, d1, NULL, p1)}
=============================================================================
