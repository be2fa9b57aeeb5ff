------------------------------ MODULE ElogView ------------------------------
(***************************************************************************)
(* The event log (elib/elog): writers Add events to a ring of Cap slots   *)
(* while a reader takes a View of it (view.go).  The ring (Buffer.Add,     *)
(* not under src/) follows the spec: an event is timestamped from a        *)
(* strictly increasing clock, claims the next index under the index lock, *)
(* and is written into its slot after the lock is released.  NewView       *)
(* holds the index lock, copies the live slots oldest first, and sorts     *)
(* the copy by timestamp.  SubView narrows the current events to an       *)
(* elapsed-time window, Reset restores them, and convertBufferEvents       *)
(* switches the view to decoded events.                                    *)
(*                                                                         *)
(* An event is its timestamp; the elapsed time of an event in a view is    *)
(* its timestamp (ElapsedTime subtracts the view's fixed start time).     *)
(* A slot never written holds 0, the zero event.  For the display times   *)
(* (getViewTimes, doViewTimes, module ElogViewTimes) an event's elapsed   *)
(* time is its timestamp times Tick, counted in 10^Res ns, and the view's *)
(* start time (sharedHeader.StartTime) is ViewStart.                       *)
(***************************************************************************)
EXTENDS Integers, Sequences, SequencesExt, FiniteSets, FiniteSetsExt,
        ElogViewTimes

CONSTANTS
  Cap,         \* ring capacity (a power of two)
  Writers,     \* goroutines that log
  MaxEvents,   \* events logged in a behaviour
  Times,       \* elapsed times a caller passes to SubView
  Res,         \* a time counts 10^Res ns
  Tick,        \* elapsed time of one timestamp step
  ViewStart    \* absolute start time of the log

ASSUME Cap \in {1, 2, 4, 8} /\ MaxEvents \in Nat \ {0}
ASSUME Times \subseteq Nat
ASSUME Res \in 0 .. 9 /\ Tick \in Nat \ {0} /\ ViewStart \in Nat \ {0}

Slots == 0 .. Cap - 1
Stamp == 0 .. MaxEvents
NoWindow == <<-1, -1>>
ZeroTimes == [StartTime |-> 0, MinElapsed |-> 0, MaxElapsed |-> 0,
              Dt |-> 0, Unit |-> 0, UnitName |-> ""]
Second == Size(1, 9, Res)
Elapsed(e) == e * Tick

VARIABLES
  clock,       \* the timestamp source
  index,       \* b.index: events claimed so far
  slots,       \* b.events
  wpc,         \* writer: "idle", "claim" (stamped), "write" (slot claimed)
  wts,         \* the writer's event
  widx,        \* the index it claimed
  claims,      \* history: claims[i + 1] is the event that claimed index i
  allEv,       \* v.allBufferEvents (or allViewEvents once converted)
  lo, hi,      \* current events are allEv[lo+1 .. hi]
  decoded,     \* the view holds view events (convertBufferEvents ran)
  snap,        \* history: claims when the view was taken, and whether
               \*   every claimed event had been written
  window,      \* history: the last SubView's (t0, t1), or NoWindow
  times,       \* v.Times
  span         \* history: the last (t0, t1) given to doViewTimes

ring == <<clock, index, slots, wpc, wts, widx, claims>>
view == <<allEv, lo, hi, decoded, snap, window, times, span>>
vars == <<ring, view>>

-----------------------------------------------------------------------------
(* Ring: Buffer.Add from the spec                                          *)

Init ==
  /\ clock = 0 /\ index = 0
  /\ slots = [s \in Slots |-> 0]
  /\ wpc = [w \in Writers |-> "idle"]
  /\ wts = [w \in Writers |-> 0]
  /\ widx = [w \in Writers |-> 0]
  /\ claims = <<>>
  /\ allEv = <<>> /\ lo = 0 /\ hi = 0 /\ decoded = FALSE
  /\ snap = [claims |-> <<>>, written |-> TRUE]
  /\ window = NoWindow
  /\ times = ZeroTimes /\ span = NoWindow

\* The event's timestamp is taken.
AddStamp(w) ==
  /\ wpc[w] = "idle" /\ clock < MaxEvents
  /\ clock' = clock + 1
  /\ wts' = [wts EXCEPT ![w] = clock + 1]
  /\ wpc' = [wpc EXCEPT ![w] = "claim"]
  /\ UNCHANGED <<index, slots, widx, claims, view>>

\* Under the index lock: claim the next index.
AddClaim(w) ==
  /\ wpc[w] = "claim"
  /\ widx' = [widx EXCEPT ![w] = index]
  /\ index' = index + 1
  /\ claims' = Append(claims, wts[w])
  /\ wpc' = [wpc EXCEPT ![w] = "write"]
  /\ UNCHANGED <<clock, slots, wts, view>>

\* After the lock: write the event into its slot.
AddWrite(w) ==
  /\ wpc[w] = "write"
  /\ slots' = [slots EXCEPT ![widx[w] % Cap] = wts[w]]
  /\ wpc' = [wpc EXCEPT ![w] = "idle"]
  /\ UNCHANGED <<clock, index, wts, widx, claims, view>>

-----------------------------------------------------------------------------
(* View                                                                    *)

\* Slots a..b-1 of the ring, as a sequence.
SlotRange(a, b) == [k \in 1 .. b - a |-> slots[a + k - 1]]

\* Mutant of Copied: the wrapped part of the ring is never copied.
CopiedNoWrap(i) == SlotRange(0, i % Cap)

\* if i >= cap { copy(b.events[i&mask:]) }; copy(b.events[0:i&mask])
Copied(i) ==
  (IF i >= Cap THEN SlotRange(i % Cap, Cap) ELSE <<>>) \o SlotRange(0, i % Cap)

\* sort.Slice by timestamp.
SortByTime(s) == SortSeq(s, LAMBDA a, b : a < b)

\* numEvents(all): the number of all or of the current events, whether the
\* view holds buffer or view events.
NumEvents(all) == IF all THEN Len(allEv) ELSE hi - lo

\* getEvent(i, all): event i of all or of the current events.
GetEvent(i, all) == IF all THEN allEv[i + 1] ELSE allEv[lo + i + 1]

\* getViewTimes on the times t of a view whose current events are cur:
\* a zero start time becomes the log's start truncated to the second,
\* then doViewTimes spans the first and the last current event.
GetViewTimes(t, cur) ==
  LET t1 == IF t.StartTime = 0
            THEN [t EXCEPT !.StartTime = Truncate(ViewStart, Second)] ELSE t
  IN IF Len(cur) > 0
     THEN DoViewTimes(t1, Elapsed(cur[1]), Elapsed(cur[Len(cur)]), Res)
     ELSE t1

\* The span getViewTimes gives doViewTimes, or old when there is none.
ViewSpan(cur, old) ==
  IF Len(cur) > 0 THEN <<Elapsed(cur[1]), Elapsed(cur[Len(cur)])>> ELSE old

\* Buffer.NewView: copy under lockIndex, sort, current = all, then
\* getViewTimes on the new view's zero times.
NewView ==
  LET es == SortByTime(Copied(index))
  IN /\ allEv' = es
     /\ lo' = 0 /\ hi' = Len(es)
     /\ decoded' = FALSE
     /\ snap' = [claims |-> claims, written |-> \A w \in Writers : wpc[w] # "write"]
     /\ window' = NoWindow
     /\ times' = GetViewTimes(ZeroTimes, es)
     /\ span' = ViewSpan(es, NoWindow)
     /\ UNCHANGED ring

\* sort.Search(l, f): the least i in 0..l with f(i), l if none.
SearchFirst(l, f(_)) == IF \E i \in 0 .. l - 1 : f(i)
                        THEN Min({i \in 0 .. l - 1 : f(i)}) ELSE l

\* Mutant of SearchEnd: the end of the window excludes events at t1.
SearchEndExclusive(t1) == SearchFirst(NumEvents(TRUE), LAMBDA i : GetEvent(i, TRUE) >= t1)

\* i1: the first of all events after t1.
SearchEnd(t1) == SearchFirst(NumEvents(TRUE), LAMBDA i : GetEvent(i, TRUE) > t1)

\* Mutant of SubView: t0 and t1 used as given, unordered.
SubViewNoSwap(t0, t1) ==
  /\ lo' = SearchFirst(NumEvents(TRUE), LAMBDA i : GetEvent(i, TRUE) >= t0)
  /\ hi' = SearchEnd(t1)
  /\ window' = <<t0, t1>>
  /\ times' = DoViewTimes(times, Elapsed(t0), Elapsed(t1), Res)
  /\ span' = <<Elapsed(t0), Elapsed(t1)>>
  /\ UNCHANGED <<ring, allEv, decoded, snap>>

\* View.SubView(t0, t1): search all events for [min, max], current =
\* all[i0:i1], doViewTimes(min, max).
SubView(t0, t1) ==
  LET a == IF t0 > t1 THEN t1 ELSE t0
      b == IF t0 > t1 THEN t0 ELSE t1
  IN /\ lo' = SearchFirst(NumEvents(TRUE), LAMBDA i : GetEvent(i, TRUE) >= a)
     /\ hi' = SearchEnd(b)
     /\ window' = <<a, b>>
     /\ times' = DoViewTimes(times, Elapsed(a), Elapsed(b), Res)
     /\ span' = <<Elapsed(a), Elapsed(b)>>
     /\ UNCHANGED <<ring, allEv, decoded, snap>>

\* View.Reset: current = all, the start time back to the log's start
\* truncated to the second, getViewTimes.
Reset ==
  LET t == [times EXCEPT !.StartTime = Truncate(ViewStart, Second)]
  IN /\ lo' = 0 /\ hi' = Len(allEv)
     /\ window' = NoWindow
     /\ times' = GetViewTimes(t, allEv)
     /\ span' = ViewSpan(allEv, span)
     /\ UNCHANGED <<ring, allEv, decoded, snap>>

\* convertBufferEvents: every buffer event becomes a view event;
\* currentViewEvents = allViewEvents.
ConvertBufferEvents ==
  /\ ~decoded
  /\ decoded' = TRUE
  /\ lo' = 0 /\ hi' = Len(allEv)
  /\ window' = NoWindow
  /\ UNCHANGED <<ring, allEv, snap, times, span>>

Next ==
  \/ \E w \in Writers : AddStamp(w) \/ AddClaim(w) \/ AddWrite(w)
  \/ NewView
  \/ \E t0, t1 \in Times : SubView(t0, t1)
  \/ Reset
  \/ ConvertBufferEvents

Spec == Init /\ [][Next]_vars

-----------------------------------------------------------------------------
(* Properties                                                              *)

TypeOK ==
  /\ clock \in Stamp /\ index \in 0 .. MaxEvents
  /\ slots \in [Slots -> Stamp]
  /\ wpc \in [Writers -> {"idle", "claim", "write"}]
  /\ allEv \in Seq(Stamp) /\ Len(allEv) <= Cap
  /\ 0 <= lo /\ lo <= hi /\ hi <= Len(allEv)
  /\ decoded \in BOOLEAN
  /\ times.UnitName \in UnitNames \cup {""}

\* The last Cap events claimed when the view was taken.
Recent(cs) == ToSet(SubSeq(cs, IF Len(cs) > Cap THEN Len(cs) - Cap + 1 ELSE 1, Len(cs)))

\* A view taken while no Add was between its claim and its write holds
\* min(index, Cap) events, each an event that was logged and none twice
\* (the copy covers the wrapped part of the ring exactly once).
ViewComplete ==
  snap.written =>
    /\ Len(allEv) = Min({Len(snap.claims), Cap})
    /\ IsInjective(allEv)
    /\ ToSet(allEv) \subseteq ToSet(snap.claims)

\* Spec 8.5, 3 and 5 for every view, whatever the writers are doing: the
\* view holds exactly the most recent Cap events logged; NewView never
\* copies a slot whose event is not yet written.
ViewNeverTorn == ToSet(allEv) = Recent(snap.claims)

\* Spec 8.7 and 4.4: after SubView(t0, t1) the current events are exactly
\* the view's events with elapsed time in [min(t0,t1), max(t0,t1)].
SubViewExact ==
  window # NoWindow =>
    ToSet(SubSeq(allEv, lo + 1, hi)) = {e \in ToSet(allEv) : window[1] <= e /\ e <= window[2]}

\* Spec 4 (unit selection): the unit doViewTimes picks for a span is the
\* spec's unit for it, on the edge spans of ElogViewTimes and on every span
\* a view's NewView, SubView or Reset gave it; the displayed window,
\* relative to the start time the view moved to, begins at or after it,
\* covers the whole span and overshoots it by less than a unit at each
\* end.  An empty span (one event) is left out: see README.
ViewTimesFit ==
  /\ UnitChoiceMatchesSpec
  /\ span # NoWindow =>
       LET dt == span[2] - span[1]
       IN /\ dt > 0 => times.UnitName = SpecUnit(dt, Res)
          /\ 0 <= times.MinElapsed
          /\ times.Dt = times.MaxElapsed - times.MinElapsed
          /\ dt <= times.Dt /\ times.Dt < dt + 2 * times.Unit

=============================================================================
