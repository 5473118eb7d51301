--------------------------- MODULE AlertEventSync ----------------------------
(***************************************************************************)
(* The alert-event job (alert_events.py): reads the provider's list of     *)
(* notices page by page while the list may change, and publishes it with   *)
(* the end of the run in one transaction.  Threads start and publish the   *)
(* run, and a cancellation of the job does not stop them.                  *)
(*                                                                         *)
(* A notice is a number; the provider lists the newest first.              *)
(***************************************************************************)
EXTENDS CollectorRun

CONSTANTS
    PageSize,       \* PAGE_SIZE
    MaxPages,       \* MAX_PAGES
    InitialNotices, \* lists the provider may have at the beginning
    MaxNoticeId     \* bound on the notices the provider issues

ASSUME EventAssumption ==
    /\ {PageSize, MaxPages, MaxNoticeId} \subseteq Nat \ {0}
    /\ InitialNotices \subseteq {l \in Seq(1 .. MaxNoticeId) : IsInjective(l)}

VARIABLES
    listing,    \* the provider's notices, newest first
    issued,     \* the newest number the provider has given out
    pages,      \* pages read so far
    total,      \* totalCount of the pages, -1 before the first
    lists,      \* every list the provider has shown since the run asked first
    cancelling, \* "no", "asked", or "sealed" once the handler of the cancellation is through
    thread      \* transaction a thread may still commit by itself: "none", "start", "publish"

eventVars == <<listing, issued, pages, total, lists, cancelling, thread>>

EventJobs == {"alert_events"}

\* The worker starts its run in a thread, and waits for it.
BeginEvents ==
    /\ job \in EventJobs
    /\ at = "idle" /\ ~Alive /\ thread # "start" /\ runs < MaxRuns[job]
    /\ runs' = runs + 1
    /\ at' = "starting" /\ thread' = "start" /\ cancelling' = "no"
    /\ UNCHANGED <<job, row, sources, values, queue, back, facts, records, due, fetched, plans,
                   held>>
    /\ UNCHANGED <<listing, issued, pages, total, lists>>

\* The thread's transaction: the worker may be waiting for it, as usual or because it
\* was cancelled, or be gone.
StartEvents ==
    /\ job \in EventJobs /\ thread = "start"
    /\ NewRow
    /\ at' = CASE at = "starting" -> "reading" [] at = "joining" -> "sealing" [] OTHER -> at
    /\ pages' = <<>> /\ total' = -1 /\ lists' = {listing}
    /\ thread' = "none"
    /\ UNCHANGED <<job, runs, listing, issued, cancelling>>

\* The transaction of a thread fails; without a run there is nothing to seal.
ThreadFails ==
    /\ job \in EventJobs /\ thread # "none"
    /\ thread' = "none"
    /\ at' = IF at \in {"starting", "joining"} THEN "idle" ELSE at
    /\ cancelling' = IF at = "joining" THEN "sealed" ELSE cancelling
    /\ UNCHANGED <<job, runs, row, sources, values, queue, back, facts, records, due, fetched,
                   plans, held>>
    /\ UNCHANGED <<listing, issued, pages, total, lists>>

(***************************************************************************)
(* The provider: a new notice, a new one as the oldest leaves the window,  *)
(* a correction in place.                                                  *)
(***************************************************************************)
ListChanges ==
    /\ job \in EventJobs /\ at \in {"reading", "rereading"} /\ issued < MaxNoticeId
    /\ issued' = issued + 1
    /\ \/ listing' = <<issued'>> \o listing
       \/ listing # <<>> /\ listing' = <<issued'>> \o Front(listing)
       \/ \E i \in 1 .. Len(listing) : listing' = [listing EXCEPT ![i] = issued']
    /\ lists' = lists \cup {listing'}
    /\ UNCHANGED runVars /\ UNCHANGED <<pages, total, cancelling, thread>>

Page(n) == SubSeq(listing, (n - 1) * PageSize + 1, Min({n * PageSize, Len(listing)}))
Seen == UNION {ToSet(p) : p \in ToSet(pages)}

\* _page and collect_alert_pages accept a page of the same total without a repeated notice.
Accepted(page) ==
    /\ Len(listing) <= PageSize * MaxPages
    /\ total \in {-1, Len(listing)}
    /\ ToSet(page) \cap Seen = {}

ReadPage ==
    /\ job \in EventJobs /\ at = "reading" /\ Alive /\ Len(pages) < MaxPages
    /\ LET page == Page(Len(pages) + 1)
       IN  /\ Accepted(page)
           /\ pages' = Append(pages, page)
           /\ total' = Len(listing)
           /\ at' = IF Cardinality(Seen \cup ToSet(page)) # Len(listing) THEN "reading"
                    ELSE IF pages = <<>> THEN "publish" ELSE "rereading"
    /\ UNCHANGED <<job, runs, row, sources, values, queue, back, facts, records, due, fetched,
                   plans, held>>
    /\ UNCHANGED <<listing, issued, lists, cancelling, thread>>

\* Mutation: The first page is not compared again.
AlwaysUnmoved == TRUE

\* Several pages count only when the first is still the same.
Unmoved == total = Len(listing) /\ ToSet(Page(1)) = ToSet(pages[1])

RereadFirst ==
    /\ job \in EventJobs /\ at = "rereading" /\ Alive
    /\ Unmoved
    /\ at' = "publish"
    /\ UNCHANGED <<job, runs, row, sources, values, queue, back, facts, records, due, fetched,
                   plans, held>>
    /\ UNCHANGED eventVars

\* publish_alert_events: the events, their source records and the end of the run, of a run
\* that is still running; after a cancellation the thread commits it all the same.
PublishEvents ==
    /\ job \in EventJobs /\ Alive
    /\ \/ at = "publish" /\ at' = "idle" /\ UNCHANGED thread
       \/ thread = "publish" /\ thread' = "none" /\ UNCHANGED at
    /\ LET new == {Fact(i, 0, e) : i \in 1 .. Len(pages), e \in Seen}
       IN  facts' = facts \cup {f \in new : f.n \in ToSet(pages[f.src])}
    /\ due' = facts'
    /\ fetched' = 1 .. Len(pages)
    /\ records' = records \cup fetched'
    /\ row' = "success"
    /\ UNCHANGED <<job, runs, sources, values, queue, back, plans, held>>
    /\ UNCHANGED <<listing, issued, pages, total, lists, cancelling>>

\* Mutation: A start under way is left to its thread.
CancelWithoutJoin ==
    /\ job \in EventJobs /\ at \in {"starting", "reading", "rereading", "publish"}
    /\ cancelling' = "asked"
    /\ at' = "sealing"
    /\ thread' = IF at = "publish" THEN "publish" ELSE thread
    /\ UNCHANGED <<job, runs, row, sources, values, queue, back, facts, records, due, fetched,
                   plans, held>>
    /\ UNCHANGED <<listing, issued, pages, total, lists>>

\* A cancelled worker awaits the start under way before it seals the run; it does not
\* await a publication.
CancelEvents ==
    /\ job \in EventJobs /\ at \in {"starting", "reading", "rereading", "publish"}
    /\ cancelling' = "asked"
    /\ at' = IF at = "starting" THEN "joining" ELSE "sealing"
    /\ thread' = IF at = "publish" THEN "publish" ELSE thread
    /\ UNCHANGED <<job, runs, row, sources, values, queue, back, facts, records, due, fetched,
                   plans, held>>
    /\ UNCHANGED <<listing, issued, pages, total, lists>>

\* _safe_terminalize of a cancelled run; when its write fails, that is Crash.
SealCancelled ==
    /\ job \in EventJobs /\ at = "sealing"
    /\ row' = IF Alive THEN "cancelled" ELSE row
    /\ at' = "idle" /\ cancelling' = "sealed"
    /\ UNCHANGED <<job, runs, sources, values, queue, back, facts, records, due, fetched, plans,
                   held>>
    /\ UNCHANGED <<listing, issued, pages, total, lists, thread>>

RaiseEvents ==
    /\ job \in EventJobs /\ at \in {"reading", "rereading", "publish"}
    /\ Fail
    /\ Drop
    /\ UNCHANGED <<job, runs, back, facts, records, due, fetched, plans, held>>
    /\ UNCHANGED eventVars

EventWorker ==
    \/ StartEvents \/ ThreadFails
    \/ ReadPage \/ RereadFirst \/ PublishEvents \/ SealCancelled \/ RaiseEvents

EventInit ==
    /\ listing \in InitialNotices
    /\ issued = Max({0} \cup ToSet(listing))
    /\ pages = <<>> /\ total = -1 /\ lists = {} /\ cancelling = "no"
    /\ thread = "none"
=============================================================================
