----------------------------- MODULE LiveItems -----------------------------
(***************************************************************************)
(* Live items (ADR 0064): which items of a body become rows of live_events *)
(* and in which view a row is at a given time.  Times are steps of the     *)
(* clock; a guid is the number of a row.                                   *)
(***************************************************************************)
EXTENDS Integers, FiniteSets, Sequences, Functions

CONSTANTS
    MaxActive, MaxEnded,     \* MAX_ACTIVE_LIVE_ROWS, MAX_ENDED_LIVE_ROWS
    MaxUnrelayed,            \* MAX_UNRELAYED_LIVE_SECS
    EndMargin, StartMargin,  \* LIVE_END_MARGIN_SECS, PENDING_START_MARGIN_SECS
    None

Times == Nat \cup {None}

\* IngestLiveItemData.  The status is compared without regard to case; lower
\* says that its text is in lower case.  A relay is no link, a link of another
\* host, or one of CONFIRMING_RELAY_HOSTS.
LiveItem == [guid : Nat, status : {"pending", "live", "ended", "other"}, lower : BOOLEAN,
             start : Times, end : Times, relay : {"none", "link", "confirming"}]

ASSUME LiveBoundsAssumption ==
    /\ MaxActive \in Nat /\ MaxEnded \in Nat
    /\ MaxUnrelayed \in Nat /\ EndMargin \in Nat /\ StartMargin \in Nat

\* Mutant: an item without an end passes
IsBanned_NeedsEnd(i) ==
    /\ i.status = "live" /\ i.relay = "none"
    /\ i.end # None /\ (i.start = None \/ i.end - i.start > MaxUnrelayed)

\* is_banned_live_item
IsBanned(i) ==
    /\ i.status = "live" /\ i.relay = "none"
    /\ i.start = None \/ i.end = None \/ i.end - i.start > MaxUnrelayed

\* select_live_items: known status, first of its guid, not banned, within the cap
\* of its kind; the ended ones in the order of their start, newest first
SelectLiveItems(items) ==
    LET known == {k \in DOMAIN items : items[k].status # "other"}
        first == {k \in known : \A n \in known : n < k => items[n].guid # items[k].guid}
        left == {k \in first : ~IsBanned(items[k])}
        ended == {k \in left : items[k].status = "ended"}
        active == left \ ended
        Newer(n, k) ==
            \/ items[n].start # None /\ (items[k].start = None \/ items[n].start > items[k].start)
            \/ items[n].start = items[k].start /\ n < k
    IN {items[k] : k \in
          {k \in active : Cardinality({n \in active : n < k}) < MaxActive} \cup
          {k \in ended : Cardinality({n \in ended : Newer(n, k)}) < MaxEnded}}

\* The CHECK constraint of live_events.status, which compares the text
PassesCheck(items) == \A i \in SelectLiveItems(items) : i.lower

\* in_now_view
InNowView(r, now) ==
    /\ r.status = "live"
    /\ r.relay = "confirming" \/ r.end = None \/ now < r.end + EndMargin

\* in_upcoming_view
InUpcomingView(r, now) ==
    /\ r.status = "pending"
    /\ \/ r.end # None /\ now < r.end
       \/ r.end = None /\ r.start # None /\ now < r.start + StartMargin

\* live_event_matches; the raw filters of view=all hold of a row or not at any time
InView(view, r, now) ==
    CASE view = "now" -> InNowView(r, now)
      [] view = "upcoming" -> InUpcomingView(r, now)
      [] view = "all" -> TRUE
=============================================================================
