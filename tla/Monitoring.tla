----------------------------- MODULE Monitoring -----------------------------
(***************************************************************************)
(* Event metrics and their exporter (src/base/monitoring).  Threads record *)
(* events; an EventMetric counts them and sums them up in two Counters,    *)
(* each with a mutex of its own; an exporter walks over the metrics of the *)
(* Registry.  The metrics are static objects, built before the first event *)
(* and export.                                                             *)
(***************************************************************************)
EXTENDS Integers, FiniteSets

CONSTANTS
  Recorders,    \* threads that call RecordEvent
  Metrics,      \* event metrics
  Labels,
  Amount,       \* of every event, so that a sum tells how many there were
  MaxEvents     \* bound: events recorded in all

\* The marks of a free mutex and of a thread between two events are their own.
MonitoringAssumption ==
  /\ Amount \in Nat \ {0} /\ MaxEvents \in Nat
  /\ "free" \notin Recorders /\ "none" \notin Labels

Counters == Metrics \X {"sum", "count"}
Unit(c) == IF c[2] = "sum" THEN Amount ELSE 1

VARIABLES
  values_,      \* the values of each counter that exist, by label
  mutex_,       \* the thread that holds the mutex of an EventMetric, or "free"
  event,        \* the label of the event that a thread is recording, or "none"
  metrics_,     \* the Registry
  todo,         \* metrics that the exporter has not come to
  exported,     \* values that it has read in this export
  exporting,
  begun, finished, floor   \* history: events, and those finished when the export began

counts == <<begun, finished, floor>>
export == <<todo, exported, exporting>>
vars   == <<values_, mutex_, event, metrics_, export, counts>>

NoEvents == [x \in Metrics \X Labels |-> 0]
NoValues == [l \in {} |-> 0]

Init ==
  /\ values_ = [c \in Counters |-> NoValues]
  /\ mutex_ = [m \in Metrics |-> "free"] /\ event = [t \in Recorders |-> "none"]
  /\ metrics_ = Counters
  /\ todo = {} /\ exported = [c \in {} |-> NoValues] /\ exporting = FALSE
  /\ begun = NoEvents /\ finished = NoEvents /\ floor = NoEvents

Get(values, l) == IF l \in DOMAIN values THEN values[l] ELSE 0

\* Mutant: a value that exists is replaced.
IncrementByAnew(c, l, amount) ==
  values_' = [values_ EXCEPT ![c] =
                [k \in DOMAIN values_[c] \cup {l} |-> IF k = l THEN amount ELSE Get(values_[c], k)]]

\* LabelledValues::IncrementBy, under its mutex.
IncrementBy(c, l, amount) ==
  values_' = [values_ EXCEPT ![c] =
                [k \in DOMAIN values_[c] \cup {l} |->
                   Get(values_[c], k) + IF k = l THEN amount ELSE 0]]

\* RecordEvent takes the mutex of its metric and adds to the sum ...
RecordEvent(t, m, l) ==
  /\ event[t] = "none" /\ mutex_[m] = "free" /\ begun[<<m, l>>] < MaxEvents
  /\ mutex_' = [mutex_ EXCEPT ![m] = t] /\ event' = [event EXCEPT ![t] = l]
  /\ IncrementBy(<<m, "sum">>, l, Amount)
  /\ begun' = [begun EXCEPT ![<<m, l>>] = @ + 1]
  /\ UNCHANGED <<metrics_, export, finished, floor>>

\* ... counts the event and releases it.
CountEvent(t, m) ==
  /\ mutex_[m] = t
  /\ IncrementBy(<<m, "count">>, event[t], 1)
  /\ mutex_' = [mutex_ EXCEPT ![m] = "free"] /\ event' = [event EXCEPT ![t] = "none"]
  /\ finished' = [finished EXCEPT ![<<m, event[t]>>] = @ + 1]
  /\ UNCHANGED <<metrics_, export, begun, floor>>

\* ExportMetricsToPrometheus copies the set of metrics ...
GetMetrics ==
  /\ ~ exporting /\ exporting' = TRUE
  /\ todo' = metrics_ /\ exported' = [c \in {} |-> NoValues]
  /\ floor' = finished
  /\ UNCHANGED <<values_, mutex_, event, metrics_, begun, finished>>

\* ... and reads one after the other, in the order of their addresses.
CurrentValues(c) ==
  /\ exporting /\ c \in todo /\ todo' = todo \ {c}
  /\ exported' = [d \in DOMAIN exported \cup {c} |-> IF d = c THEN values_[c] ELSE exported[d]]
  /\ UNCHANGED <<values_, mutex_, event, metrics_, exporting, counts>>

ExportDone ==
  /\ exporting /\ todo = {} /\ exporting' = FALSE
  /\ UNCHANGED <<values_, mutex_, event, metrics_, todo, exported, counts>>

Next ==
  \/ \E t \in Recorders, m \in Metrics :
       CountEvent(t, m) \/ \E l \in Labels : RecordEvent(t, m, l)
  \/ GetMetrics \/ ExportDone
  \/ \E c \in Counters : CurrentValues(c)

Spec == Init /\ [][Next]_vars

-----------------------------------------------------------------------------
(* Property.                                                               *)

\* Every value read in an export has all events that were recorded when it
\* began and none that has not begun since.  So the mean of an event metric is
\* off by no more than the events recorded meanwhile, and exact if there are
\* none, though sum and count are read one by one (event_metric.h:60).
ExportIsCurrent ==
  \A c \in DOMAIN exported, l \in Labels :
    LET events == Get(exported[c], l)
    IN  exporting => /\ floor[<<c[1], l>>] * Unit(c) <= events
                     /\ events <= begun[<<c[1], l>>] * Unit(c)
=============================================================================
