---------------------------- MODULE MCArtistNames ----------------------------
(***************************************************************************)
(* Bodies for ArtistNames: a publisher that lists by GUID, or by a URL with *)
(* a GUID that may have no record; an album that names one publisher, two, *)
(* one by URL, or one in an item that is no link; the artist of an album   *)
(* may be the placeholder, or an itunes:author with its text.              *)
(***************************************************************************)
EXTENDS ArtistNames

CONSTANTS P, Q, A, u, v, w, n

Ref(m, s, g, x, r) == [medium |-> m, source |-> s, guid |-> g, url |-> x, rel |-> r]
Lists(g, x, r) == Ref("music", "remote_item", g, x, r)
Credits(g, x, r) == Ref("publisher", "podcast_publisher", g, x, r)
Publisher(items) ==
    [medium |-> "publisher", artist |-> Unknown, by |-> "placeholder", items |-> items]
Album(items) == [medium |-> "music", artist |-> n, by |-> "itunes_author", items |-> items]

Publishers == {Publisher(<<Lists(A, None, {"artist"})>>), Publisher(<<Lists(P, w, {})>>)}
TwoLinks == Album(<<Credits(P, None, {"artist"}), Credits(Q, v, {"label"})>>)
MCBodies ==
    Publishers \cup
    {TwoLinks, [TwoLinks EXCEPT !.artist = Unknown],
     [TwoLinks EXCEPT !.artist = Unknown, !.by = "placeholder"],
     Album(<<Credits(A, u, {})>>),
     Album(<<Ref("publisher", "remote_item", P, None, {}), Lists(A, None, {})>>)}

\* Each feed at a URL of its own or not held; no observations, or each URL
\* observed with a feed that was there before
Home == (P :> u) @@ (Q :> v) @@ (A :> w)
MCStart ==
    {[feeds |-> [g \in Guids |-> IF h[g] = None THEN None ELSE [url |-> Home[g], body |-> h[g]]],
      obs |-> o] :
        h \in {f \in [Guids -> MCBodies \cup {None}] :
                {f[P], f[Q]} \subseteq Publishers \cup {None} /\ f[A] \notin Publishers},
        o \in {[x \in Urls |-> None], (u :> P) @@ (v :> A) @@ (w :> Q)}}
=============================================================================
