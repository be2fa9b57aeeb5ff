----------------------------- MODULE MCElogView -----------------------------
\* Two writers, a ring of two slots and three events: enough for the ring
\* to wrap, for a writer to stall between its claim and its write, and for
\* writers to claim in another order than they stamped.
EXTENDS ElogView

\* Every SubView moves v.Times.StartTime forward by its t0 (doViewTimes
\* adds t0 to the start time it left last time), so the start time has
\* no bound; the search stops where it is more than MaxStartShift past
\* the log's start, after a few SubViews in a row.
MaxStartShift == 4 * Second
StartTimeBound == times.StartTime <= ViewStart + MaxStartShift
=============================================================================
