------------------------------- MODULE NewsFeed -------------------------------
(***************************************************************************)
(* NewsFeed: each poll takes the newest articles of one source, or the     *)
(* updates of the other when the first gives none, publishes those whose   *)
(* id it has not seen and, when it has seen too many, forgets some.  An    *)
(* article whose fields cannot be read raises, which ends the poll; an     *)
(* update that cannot be read fails its source.                            *)
(*                                                                         *)
(* The sources are external: articles and updates appear in order, some    *)
(* articles unreadable, and a source may fail to answer.  An article has   *)
(* an id of its own, its number here; an update's id is the time it was    *)
(* made, a negative number here, which two may share.  A published event   *)
(* is waited for until the bus has room, which Publish stands for.         *)
(***************************************************************************)
EXTENDS Integers, Sequences, SequencesExt, FiniteSets

CONSTANTS
  MaxArticles,   \* bound: articles that appear
  MaxUpdates,    \* bound: updates that appear
  PageSize,      \* articles looked at in one poll (20)
  SeenMax,       \* ids remembered before some are forgotten (500)
  SeenKept       \* ids that are kept then (300)

ASSUME NewsAssumption ==
  /\ {MaxArticles, MaxUpdates, PageSize, SeenMax, SeenKept} \subseteq Nat \ {0}
  /\ SeenKept + 2 * PageSize <= SeenMax

VARIABLES
  articles,    \* article -> whether it can be read, in order of appearance
  updates,     \* the ids of the second source's updates, in order of appearance
  feedAt,      \* "asleep", "first", "second", "page" or "stopped"
  page,        \* the ids of this poll still to be looked at, newest first
  seen,        \* _seen_ids
  published,   \* ids published, once or more often
  stopping     \* _running has been reset

newsVars == <<articles, updates, feedAt, page, seen, published, stopping>>

NewsInit ==
  /\ articles = << >> /\ updates = << >> /\ feedAt = "asleep" /\ page = << >>
  /\ seen = {} /\ published = {} /\ stopping = FALSE

Articles == [n \in 1 .. Len(articles) |-> n]
Cut(s, size) == SubSeq(s, 1, IF Len(s) < size THEN Len(s) ELSE size)

Appears(readable) ==
  /\ Len(articles) < MaxArticles /\ articles' = Append(articles, readable)
  /\ UNCHANGED <<updates, feedAt, page, seen, published, stopping>>

UpdateAppears ==
  /\ Len(updates) < MaxUpdates
  /\ \E time \in 1 .. Len(updates) + 1 : updates' = Append(updates, -time)
  /\ UNCHANGED <<articles, feedAt, page, seen, published, stopping>>

-----------------------------------------------------------------------------
(* run and _poll_once *)

Wake ==
  /\ feedAt = "asleep" /\ feedAt' = IF stopping THEN "stopped" ELSE "first"
  /\ UNCHANGED <<articles, updates, page, seen, published, stopping>>

Reads(ids) ==
  /\ feedAt' = "page" /\ page' = Cut(Reverse(ids), PageSize)
  /\ UNCHANGED <<articles, updates, seen, published, stopping>>

PageRead == feedAt = "first" /\ articles # << >> /\ Reads(Articles)
UpdatesRead == feedAt = "second" /\ updates # << >> /\ Reads(updates)

(* A first source that fails or has nothing leads to the second, and the    *)
(* second to the end of the poll.                                           *)
PageFails ==
  /\ feedAt \in {"first", "second"}
  /\ feedAt' = IF feedAt = "first" THEN "second" ELSE "asleep"
  /\ UNCHANGED <<articles, updates, page, seen, published, stopping>>

Readable(id) == id > 0 => articles[id]

\* Mutant of Remember: an id is remembered when its article has been read.
RememberRead(a) == IF Readable(a) THEN seen \union {a} ELSE seen

(* The id is remembered before the article is read.                         *)
Remember(a) == seen \union {a}

Publish ==
  /\ feedAt = "page" /\ page # << >>
  /\ LET a == Head(page)
     IN IF a \in seen
        THEN page' = Tail(page) /\ UNCHANGED <<feedAt, seen, published>>
        ELSE /\ seen' = Remember(a)
             /\ IF Readable(a)
                THEN page' = Tail(page) /\ published' = published \union {a} /\ UNCHANGED feedAt
                ELSE page' = << >> /\ feedAt' = "asleep" /\ UNCHANGED published
  /\ UNCHANGED <<articles, updates, stopping>>

(* A set has no order: any of its ids may be those that are kept.           *)
EndPoll ==
  /\ feedAt = "page" /\ page = << >> /\ feedAt' = "asleep"
  /\ IF Cardinality(seen) > SeenMax
     THEN seen' \in {kept \in SUBSET seen : Cardinality(kept) = SeenKept}
     ELSE UNCHANGED seen
  /\ UNCHANGED <<articles, updates, page, published, stopping>>

StopNews ==
  /\ ~stopping /\ stopping' = TRUE
  /\ UNCHANGED <<articles, updates, feedAt, page, seen, published>>

\* The wait for the second source ends, a fetch has 15 seconds.
SecondEnds == feedAt = "second" /\ (UpdatesRead \/ PageFails)

NewsSteps == Wake \/ SecondEnds \/ Publish \/ EndPoll

NewsNext ==
  \/ NewsSteps \/ PageRead \/ PageFails \/ StopNews
  \/ UpdateAppears \/ \E readable \in BOOLEAN : Appears(readable)

-----------------------------------------------------------------------------
(* While the first source answers again and again, a readable article of    *)
(* it comes out or is displaced by newer ones, however often the second     *)
(* takes its place: an unreadable one before it on the page ends one poll   *)
(* and not all of them (news_feed.py:98-113).                               *)
OnPage(a) == a \in 1 .. Len(articles) /\ a > Len(articles) - PageSize

NewsComesOut ==
  \A a \in 1 .. MaxArticles :
    (OnPage(a) /\ articles[a]) ~> (a \in published \/ ~OnPage(a) \/ stopping)
=============================================================================
