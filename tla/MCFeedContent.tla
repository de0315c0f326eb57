---------------------------- MODULE MCFeedContent ----------------------------
(***************************************************************************)
(* Bodies for FeedContent that differ in one thing each: the routes of a   *)
(* track, its text and items, the lists of the feed, the medium, the       *)
(* tracks, the build date.                                                 *)
(***************************************************************************)
EXTENDS FeedContent

CONSTANTS music1, music2, label, musicl

Song(f, p, i) == [x \in Tracks |-> [fields |-> f, file |-> 0, pay |-> p, items |-> i]]
Lists2(r, i) == [l \in Families |-> IF l = "routes" THEN r ELSE i]

Base == [fields |-> music1, built |-> 1, lists |-> Lists2(0, 0), tracks |-> Song(music1, 1, 0)]

MCBodies ==
    {Base,
     [Base EXCEPT !.tracks = Song(music1, 0, 0)],
     [Base EXCEPT !.tracks = Song(music2, 0, 1), !.built = 0],
     [Base EXCEPT !.lists = Lists2(0, 1)],
     [Base EXCEPT !.lists = Lists2(1, 0), !.tracks = NoTracks, !.fields = music2],
     [Base EXCEPT !.fields = musicl, !.built = 2],
     [fields |-> label, built |-> 2, lists |-> Lists2(0, 1), tracks |-> NoTracks]}
=============================================================================
