---------------------------- MODULE ExportReaders ----------------------------
(***************************************************************************)
(* What a client of the export API is told: the frozen readers of current  *)
(* values, forecasts, mid-term forecasts, daily summaries and locations    *)
(* (export_snapshots, export_forecasts, export_mid_reader,                 *)
(* export_daily_reader, export_locations) over the approved publications   *)
(* (export_inventory_selection).  The first page freezes a vector of       *)
(* publications, the next ones follow its cursor; every page is marked ok  *)
(* or stale by what the database says when it is answered.  Forecasts can  *)
(* be asked for as a delta: only what was published after the watermark    *)
(* `next_since' of the last complete answer.                               *)
(*                                                                         *)
(* A publication is its place in the watermark order, so `gens' is the     *)
(* publication clock, the generations and the approved rows at once; that  *)
(* watermarks order publications is proved of ExportHeads.  Files, reissue *)
(* and renewal of handles are in ExportSnapshots.  The API always reads    *)
(* the approved inventory (source_inventory); the readers' branches        *)
(* without it are not reachable from it and not modelled.                  *)
(***************************************************************************)
EXTENDS Integers, FiniteSetsExt, Sequences

CONSTANTS
    Styles,         \* the readers a behaviour may be about
    Clients,        \* clients of the API
    Locations,      \* 1 .. n in the order of their ids
    ScopeOf,        \* [{"main", "land", "temperature"} -> [Locations -> scopes]]
    Limit,          \* page limit
    TTL,            \* SNAPSHOT_TTL
    Period,         \* length of the hour or day that is part of a manifest
    Reach,          \* how far the targets of a forecast reach beyond its revision
    MaxAge,         \* source_max_age
    Window,         \* FRESHNESS_WINDOW
    Expiry,         \* source_expiry
    Lag,            \* [Styles -> Nat]: how much older than its collection a revision may be
    MaxGens, MaxSnaps,  \* [Styles -> Nat]: bounds
    MaxNow, MaxEdits    \* bounds

ASSUME ReadersAssumption ==
    /\ {Limit, Period, MaxNow} \subseteq Nat \ {0}
    /\ {TTL, Reach, MaxAge, Window, Expiry, MaxEdits} \subseteq Nat
    /\ \A st \in Styles : {Lag[st], MaxGens[st], MaxSnaps[st]} \subseteq Nat
    /\ IsFiniteSet(Locations)
    /\ Locations = 1 .. Cardinality(Locations)

VARIABLES
    style,      \* the reader of this behaviour
    now,        \* wall clock
    gens,       \* publications: [scope, rev, collected]
    catalog,    \* [Locations -> "enabled", "disabled", "lost" or "moved"]
    failing,    \* scopes whose current attempt failed or is not published yet
    cover,      \* [scopes -> the publication in the daily summaries, or 0]
    snaps,      \* weather_export_snapshots in issue order
    client,     \* [Clients -> local state]
    edits       \* number of catalog edits so far

readerVars == <<style, now, gens, catalog, failing, cover, snaps, client, edits>>

Parts == IF style = "mid" THEN {"land", "temperature"} ELSE {"main"}
Scopes == {ScopeOf[p][l] : p \in Parts, l \in Locations}
HasSince == style \in {"forecast", "mid"}
\* Enabled locations; the coordinates of a moved one are not those of its approved rows.
roster == {l \in Locations : catalog[l] \in {"enabled", "moved"}}
Unselected == [l \in Locations |-> [p \in Parts |-> 0]]

\* `since' is the watermark kept from the last complete answer and `copy' what the
\* answers so far delivered; `tracked' are the locations that were delivered and have
\* been enabled and part of every answer ever since.  The rest is the request: what
\* its freeze read, its snapshot, its position, what its pages brought and whether
\* all of them said ok.
Idle(since, copy, tracked) ==
    [pc |-> "idle", since |-> since, copy |-> copy, tracked |-> tracked,
     view |-> [locs |-> {}, v |-> Unselected, next |-> 0, unconf |-> FALSE, ready |-> FALSE],
     snap |-> 0, doubt |-> FALSE, pos |-> 0, got |-> [l \in Locations |-> 0], ok |-> TRUE]
Restart(c) == Idle(c.since, c.copy, c.tracked)

ReadersInit ==
    /\ style \in Styles
    /\ now = 1
    /\ gens = <<>>
    /\ catalog \in [Locations -> {"enabled", "disabled"}]
    /\ failing = {}
    /\ cover = [s \in Scopes |-> 0]
    /\ snaps = <<>>
    /\ client = [c \in Clients |-> Idle(0, [l \in Locations |-> 0], {})]
    /\ edits = 0

-----------------------------------------------------------------------------
(***************************************************************************)
(* approved_source_selection: the approved rows of the enabled locations.  *)
(***************************************************************************)

Row(l, p) == LET I == {i \in 1 .. Len(gens) : gens[i].scope = ScopeOf[p][l]}
             IN  IF I = {} THEN 0 ELSE Max(I)

\* Rows older than source_expiry are left out, rows outside the freshness window are
\* shown but do not count for the health of the answer.
Live(i)  == i # 0 /\ now - gens[i].collected <= Expiry
counts_for_freshness(i) == now - gens[i].collected <= Window
Aged(i)  == now - gens[i].collected > MaxAge \/ now - gens[i].rev > MaxAge

Selection == [l \in Locations |-> [p \in Parts |->
                IF l \in roster /\ Live(Row(l, p)) THEN Row(l, p) ELSE 0]]
Chosen(v) == {l \in Locations : \E p \in Parts : v[l][p] # 0}
RowsOf(v) == {v[l][p] : l \in Locations, p \in Parts} \ {0}

\* _validate_anchor: an approved location that is lost or moved.
AnchorsValid ==
    \A l \in Locations, p \in Parts : Live(Row(l, p)) => catalog[l] \notin {"lost", "moved"}

\* Such a location fails the whole selection, as an empty one does.
Selectable ==
    /\ AnchorsValid
    /\ Chosen(Selection) # {}

HealthRows(v) == {i \in RowsOf(v) : counts_for_freshness(i)}
AgedVector(v) == HealthRows(v) = {} \/ \E i \in HealthRows(v) : Aged(i)
Unconfirmed ==
    AgedVector(Selection) \/ \E i \in HealthRows(Selection) : gens[i].scope \in failing

\* paired_locations: every part of a location, of one revision.
Paired(v) ==
    \A l \in Chosen(v) : \A p, q \in Parts :
        v[l][p] # 0 /\ v[l][q] # 0 /\ gens[v[l][p]].rev = gens[v[l][q]].rev

\* Mutation: the location changes with its land part only.
PublishedByLand(v, l) == v[l][CHOOSE p \in Parts : p \in {"main", "land"}]
Published(v, l) == Max({v[l][p] : p \in Parts})

-----------------------------------------------------------------------------
(***************************************************************************)
(* The surroundings.                                                       *)
(***************************************************************************)

\* A promotion: a newer revision, or the same one collected again.
Publish(s, rev) ==
    /\ Len(gens) < MaxGens[style]
    /\ \A i \in 1 .. Len(gens) : gens[i].scope = s => gens[i].rev <= rev
    /\ gens' = Append(gens, [scope |-> s, rev |-> rev, collected |-> now])
    /\ failing' = failing \ {s}
    /\ UNCHANGED <<style, now, catalog, cover, snaps, client, edits>>

\* A collection of the scope failed, or succeeded and waits for the publisher.
Unpublished(s) ==
    /\ edits < MaxEdits /\ edits' = edits + 1
    /\ failing' = failing \cup {s}
    /\ UNCHANGED <<style, now, gens, catalog, cover, snaps, client>>

\* refresh_daily_summaries takes the publications in the order of their watermarks.
Summarize ==
    /\ style = "daily"
    /\ \E i \in 1 .. Len(gens) :
          /\ \A s \in Scopes : cover[s] < i
          /\ \A j \in 1 .. i - 1 : \E s \in Scopes : cover[s] >= j
          /\ cover' = [cover EXCEPT ![gens[i].scope] = i]
    /\ UNCHANGED <<style, now, gens, catalog, failing, snaps, client, edits>>

\* An operator enables, disables, moves, deletes or restores a location.
EditCatalog(l, state) ==
    /\ edits < MaxEdits /\ edits' = edits + 1
    /\ catalog[l] # state
    /\ catalog' = [catalog EXCEPT ![l] = state]
    /\ client' = [c \in Clients |-> [client[c] EXCEPT !.tracked = @ \cap roster']]
    /\ UNCHANGED <<style, now, gens, failing, cover, snaps>>

Wait ==
    /\ now < MaxNow
    /\ now' = now + 1
    /\ UNCHANGED <<style, gens, catalog, failing, cover, snaps, client, edits>>

-----------------------------------------------------------------------------
(***************************************************************************)
(* The first page: a snapshot is frozen, reused or repeated.               *)
(***************************************************************************)

SameSelection(since) == {h \in 1 .. Len(snaps) : snaps[h].since = since}
Previous(since) == IF SameSelection(since) = {} THEN 0 ELSE Max(SameSelection(since))

\* _inventory_coverage: every approved observation has been summarized at least once.
Summarized == \A l \in Chosen(Selection) : cover[ScopeOf["main"][l]] # 0

\* _freeze_locations keeps the previous list when more than half of it vanished and
\* some of it has not been disabled.
Vanished ==
    /\ Previous(0) # 0
    /\ 2 * Cardinality(roster) < Cardinality(snaps[Previous(0)].locs)
    /\ \E l \in snaps[Previous(0)].locs \ roster : catalog[l] # "disabled"

Ready ==
    /\ roster # {}
    /\ CASE style = "locations" -> ~Vanished
         [] style = "daily"     -> Selectable /\ Summarized
         [] style = "mid"       -> Selectable /\ ~Unconfirmed /\ Paired(Selection)
         [] OTHER               -> Selectable

\* What the manifest keeps: the vector of publications, or of summaries.
Frozen == CASE style = "locations" -> Unselected
            [] style = "daily" -> [l \in Locations |-> [p \in Parts |->
                    IF Selection[l][p] # 0 THEN cover[ScopeOf[p][l]] ELSE 0]]
            [] OTHER -> Selection
FrozenLocs == IF style \in {"locations", "daily"} THEN roster ELSE Chosen(Selection)
FrozenUnconfirmed == style \in {"current", "forecast", "mid"} /\ Unconfirmed

\* The REPEATABLE READ transaction of a freeze reads the watermark, the catalog and
\* the approved rows of one moment.
FreezeRead(c) ==
    /\ client[c].pc = "idle"
    /\ client' = [client EXCEPT ![c] = [Restart(@) EXCEPT
          !.pc = "frozen",
          !.view = [locs |-> FrozenLocs, v |-> Frozen, unconf |-> FrozenUnconfirmed,
                    next |-> IF HasSince THEN Len(gens) ELSE 0, ready |-> Ready]]]
    /\ UNCHANGED <<style, now, gens, catalog, failing, cover, snaps, edits>>

\* Mutation: the watermark is read by another statement, after the rows.
WatermarkAtCommit(c) == IF HasSince THEN Len(gens) ELSE 0
Watermark(c) == client[c].view.next

Manifest(c) ==
    [since |-> client[c].since, locs |-> client[c].view.locs, v |-> client[c].view.v,
     next |-> Watermark(c), unconf |-> client[c].view.unconf,
     period |-> IF style \in {"forecast", "mid", "daily"} THEN now \div Period ELSE 0,
     limited |-> FALSE]

Fields(h) == [f \in DOMAIN h \ {"expires"} |-> h[f]]
WithExpiry(m) == [f \in DOMAIN m \cup {"expires"} |->
                    IF f = "expires" THEN now + TTL ELSE m[f]]

Goes(c, pc, h, doubt) ==
    client' = [client EXCEPT ![c] = [Restart(@) EXCEPT !.pc = pc, !.snap = h, !.doubt = doubt]]

\* The newest handle of the selection, unexpired and of the same manifest, or a new one.
FreezeCommit(c) ==
    /\ client[c].pc = "frozen" /\ client[c].view.ready
    /\ LET h == Previous(client[c].since)
       IN  IF h # 0 /\ Fields(snaps[h]) = Manifest(c) /\ snaps[h].expires > now
           THEN Goes(c, "reused", h, FALSE) /\ UNCHANGED snaps
           ELSE /\ Len(snaps) < MaxSnaps[style]
                /\ snaps' = Append(snaps, WithExpiry(Manifest(c)))
                /\ Goes(c, "page", Len(snaps) + 1, FALSE)
    /\ UNCHANGED <<style, now, gens, catalog, failing, cover, edits>>

\* MetadataBudget: any manifest of these readers may be too large to be issued.
OverBudget(c) == client[c].view.ready /\ style \in {"current", "forecast", "mid"}

\* The fallback to the newest handle of the selection, or a new one for its manifest:
\* after a freeze that is not ready, or whose manifest is too large (`limited').  Daily
\* summaries keep the locations, move to today and say so; the readers of current
\* values and of mid-term forecasts mark the first page.
Fallback(c, limited) ==
    /\ client[c].pc = "frozen" /\ Previous(client[c].since) # 0
    /\ IF limited THEN OverBudget(c)
       ELSE ~client[c].view.ready
    /\ LET h    == Previous(client[c].since)
           kept == Fields(snaps[h])
           m    == IF style = "daily"
                   THEN [kept EXCEPT !.limited = TRUE, !.period = now \div Period]
                   ELSE [kept EXCEPT !.limited = @ \/ limited]
           doubt == style \in {"current", "mid"} /\ ~limited
       IN  IF m = kept /\ snaps[h].expires > now
           THEN Goes(c, "reused", h, doubt) /\ UNCHANGED snaps
           ELSE /\ Len(snaps) < MaxSnaps[style]
                /\ snaps' = Append(snaps, WithExpiry(m))
                /\ Goes(c, "page", Len(snaps) + 1, doubt)
    /\ UNCHANGED <<style, now, gens, catalog, failing, cover, edits>>

\* There is nothing to fall back to: 503.
Unavailable(c) ==
    /\ client[c].pc = "frozen" /\ ~client[c].view.ready /\ Previous(client[c].since) = 0
    /\ client' = [client EXCEPT ![c] = Restart(@)]
    /\ UNCHANGED <<style, now, gens, catalog, failing, cover, snaps, edits>>

\* _renew_reused: a short transaction of its own, which may fail.
RenewReused(c, renewed) ==
    /\ client[c].pc = "reused"
    /\ client' = [client EXCEPT ![c].pc = "page"]
    /\ snaps' = [snaps EXCEPT ![client[c].snap].expires =
                    IF renewed /\ @ > now THEN Max({@, now + TTL}) ELSE @]
    /\ UNCHANGED <<style, now, gens, catalog, failing, cover, edits>>

-----------------------------------------------------------------------------
(***************************************************************************)
(* The pages.                                                              *)
(***************************************************************************)

\* A location the delta does not skip, and one whose targets are all past.
Changed(h, l) == l \in h.locs /\ (HasSince => Published(h.v, l) > h.since)
Over(h, l) == HasSince /\ \A p \in Parts : gens[h.v[l][p]].rev + Reach <= now

\* What the locations after position a up to b bring, and whether one is left out.
Out(h, a, b)     == {l \in a + 1 .. b : Changed(h, l) /\ ~Over(h, l)}
Omitted(h, a, b) == \E l \in a + 1 .. b : Changed(h, l) /\ Over(h, l)

\* A page of n items ends before location l: the next item does not fit.  The mid-term
\* reader counts before it looks at the targets.
EndsBefore(h, l, n) ==
    n > 0 /\ Changed(h, l) /\ (~Over(h, l) \/ (style = "mid" /\ n = Limit))

SelectedScopes(v) == {gens[i].scope : i \in RowsOf(v)}
\* Mutation: the health of a page compares the scopes and not their locations.
ScopesChanged(h) == SelectedScopes(Selection) # SelectedScopes(h.v)
PairsChanged(h) == Selection # h.v \/ ~Paired(Selection)
SelectionChanged(h) ==
    IF style = "mid" THEN PairsChanged(h)
    ELSE \E l \in Locations, p \in Parts : (Selection[l][p] = 0) # (h.v[l][p] = 0)

\* The summaries of the enabled locations, whether frozen or not, are up to date.
SummariesBehind ==
    \/ \E l \in roster : Row(l, "main") = 0
    \/ \E l \in Chosen(Selection) :
          counts_for_freshness(Row(l, "main")) /\ cover[ScopeOf["main"][l]] # Row(l, "main")

\* _health, _inventory_forecast_health, and the end of _page_guarded.
Stale(h, doubt, omitted) ==
    CASE style = "locations" -> TRUE
      [] style = "daily" -> h.limited \/ ~Selectable \/ ~Summarized \/ Unconfirmed \/ SummariesBehind
      [] OTHER -> doubt \/ omitted \/ h.unconf \/ h.limited \/ AgedVector(h.v)
                  \/ ~Selectable \/ Unconfirmed \/ SelectionChanged(h)

\* Daily pages bring the summaries of the moment, the others what was frozen.
Brings(h, l) == IF style = "daily" THEN cover[ScopeOf["main"][l]]
                ELSE IF style = "locations" THEN 1 ELSE Published(h.v, l)

Last == Cardinality(Locations)

\* A page with n items may end at position q: it is full, or nothing is left.
PageEnd(h, q, n) == n <= Limit /\ (q < Last => EndsBefore(h, q + 1, n))

\* A page up to position q, which is the last one if no item is left.
Page(c, q) ==
    LET h == snaps[client[c].snap]
        new == Out(h, client[c].pos, q)
        got == [l \in Locations |-> IF l \in new THEN Brings(h, l) ELSE client[c].got[l]]
        ok  == client[c].ok /\ ~Stale(h, client[c].doubt, Omitted(h, client[c].pos, q))
    IN  /\ client[c].pc = "page"
        /\ client[c].pos = 0 \/ h.expires > now
        /\ q \in client[c].pos .. Last
        /\ PageEnd(h, q, Cardinality(new))
        /\ client' = [client EXCEPT ![c] =
             IF q < Last THEN [@ EXCEPT !.pos = q, !.got = got, !.ok = ok, !.doubt = FALSE]
             ELSE [Idle(h.next,
                        [l \in Locations |-> IF got[l] # 0 THEN got[l] ELSE client[c].copy[l]],
                        (client[c].tracked \cup {l \in Locations : got[l] # 0}) \cap h.locs \cap roster)
                   EXCEPT !.got = got, !.ok = ok]]
        /\ UNCHANGED <<style, now, gens, catalog, failing, cover, snaps, edits>>

\* The handle expired between two pages: 410, from the first page again.
Gone(c) ==
    /\ client[c].pc = "page" /\ client[c].pos > 0
    /\ snaps[client[c].snap].expires <= now
    /\ client' = [client EXCEPT ![c] = Restart(@)]
    /\ UNCHANGED <<style, now, gens, catalog, failing, cover, snaps, edits>>

Request(c) ==
    \/ FreezeRead(c)
    \/ FreezeCommit(c)
    \/ \E limited \in BOOLEAN : Fallback(c, limited)
    \/ Unavailable(c)
    \/ \E renewed \in BOOLEAN : RenewReused(c, renewed)
    \/ \E q \in 0 .. Last : Page(c, q)
    \/ Gone(c)

ReadersNext ==
    \/ \E s \in Scopes, rev \in now - Lag[style] .. now : Publish(s, rev)
    \/ \E s \in Scopes : Unpublished(s)
    \/ Summarize
    \/ \E l \in Locations, state \in {"enabled", "disabled", "lost", "moved"} : EditCatalog(l, state)
    \/ Wait
    \/ \E c \in Clients : Request(c)

-----------------------------------------------------------------------------
\* A client that follows next_since misses no publication: what was published for a
\* location up to its watermark is what it holds, or is over.  Publications, catalog
\* edits, fallbacks, expired handles and the late second part of a mid-term pair come
\* between its pages (FrozenForecastExports, FrozenMidForecastExports).
DeltaMissesNothing ==
    HasSince =>
        \A c \in Clients : \A l \in client[c].tracked :
            LET rows == {Row(l, p) : p \in Parts}
            IN  Max(rows) <= client[c].since /\ client[c].copy[l] # Max(rows) =>
                    \A i \in rows : gens[i].rev + Reach <= now

\* When every page of a complete answer said ok, no location that is enabled and
\* approved by then was left out or answered without its observations, although the
\* list was frozen pages ago (_page_guarded, _health, _inventory_coverage).  Daily
\* summaries do not compare the list, and one approved after it was frozen may pass
\* the pages while it is disabled: they promise the locations summarized in the list.
OkIsWhole ==
    [][\A c \in Clients :
         /\ client[c].pc = "page" /\ client'[c].pc = "idle"
         /\ client'[c].ok /\ client'[c] # Restart(client[c]) /\ client[c].since = 0
         => \A l \in roster :
              (\A p \in Parts : Live(Row(l, p)))
                  /\ (style = "daily" => snaps[client[c].snap].v[l]["main"] # 0)
              => client'[c].got[l] # 0]_readerVars
=============================================================================
