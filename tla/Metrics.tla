------------------------------- MODULE Metrics -------------------------------
(***************************************************************************)
(* The collector of metrics (src/core/metrics).  Recordings take the       *)
(* collector's lock; an export takes it for the list of series and for the *)
(* dropped counts, but reads the series themselves without it.             *)
(***************************************************************************)
EXTENDS Integers, FiniteSetsExt, SequencesExt

CONSTANTS
    Catalog,        \* the declared metrics in the order of their names: [name, kind, keys]
    MaxSeries       \* maxSeriesPerMetric; no cap when it is 0

VARIABLES
    recorder,       \* whether a collector is installed (SetRecorder), or the no-op
    collector,      \* [series, dropped]: the live collector
    export          \* [state, todo, series, dropped]: Export, as far as it got

metricsVars == <<recorder, collector, export>>

\* register panics at initialisation unless names and label keys are distinct.
ASSUME CatalogAssumption ==
    /\ \A i, j \in DOMAIN Catalog : Catalog[i].name = Catalog[j].name => i = j
    /\ \A i \in DOMAIN Catalog : "" \notin Catalog[i].keys
Metric(name) == Catalog[CHOOSE i \in DOMAIN Catalog : Catalog[i].name = name]
Position(name) == CHOOSE i \in DOMAIN Catalog : Catalog[i].name = name

MetricsInit ==
    /\ recorder = FALSE
    /\ collector = [series |-> <<>>, dropped |-> <<>>]
    /\ export = [state |-> "none", todo |-> {}, series |-> <<>>, dropped |-> <<>>]

\* ErrorClass.  An error is the set of what errors.Is and errors.As find in its
\* chain; classifyError tries these in turn.
Classes == <<[causes |-> {"deadline"}, class |-> "deadline_exceeded"],
             [causes |-> {"canceled"}, class |-> "canceled"],
             [causes |-> {"eof"}, class |-> "eof"],
             [causes |-> {"net_timeout"}, class |-> "timeout"],
             [causes |-> {"net", "op"}, class |-> "network"]>>
ClassifyError(err) ==
    LET found == {i \in DOMAIN Classes : Classes[i].causes \cap err # {}}
    IN  CASE err = {} -> "none"
          [] found # {} -> Classes[Min(found)].class
          [] OTHER -> "other"

SanitizeValue(value) == IF value = "" THEN "unknown" ELSE value
\* The labels a metric declares, each with its first value.
Normalize(name, labels) ==
    LET first(k) == labels[Min({i \in DOMAIN labels : labels[i].key = k})].value
    IN  [k \in {labels[i].key : i \in DOMAIN labels} \cap Metric(name).keys |-> SanitizeValue(first(k))]

SeriesKey(name, labels) == [metric |-> name, labels |-> Normalize(name, labels)]
SeriesOf(name) == {k \in DOMAIN collector.series : k.metric = name}
Full(name) == MaxSeries > 0 /\ Cardinality(SeriesOf(name)) >= MaxSeries
At(f, k, default) == IF k \in DOMAIN f THEN f[k] ELSE default
Put(f, k, v) == [x \in DOMAIN f \cup {k} |-> IF x = k THEN v ELSE f[x]]

\* What a series holds: the total of a counter, the summary of a distribution.
Fold(s, v) == [count |-> s.count + 1, sum |-> s.sum + v,
               min |-> IF s.count = 0 THEN v ELSE Min({s.min, v}),
               max |-> IF s.count = 0 THEN v ELSE Max({s.max, v})]
NoStats == [count |-> 0, sum |-> 0, min |-> 0, max |-> 0]
Update(name, key, v) ==
    IF Metric(name).kind = "counter" THEN At(collector.series, key, 0) + v
    ELSE Fold(At(collector.series, key, NoStats), v)

\* An observation past the cap goes nowhere.
Record_Silent(name, v, labels) ==
    LET key == SeriesKey(name, labels)
    IN  IF key \notin DOMAIN collector.series /\ Full(name) THEN collector
        ELSE [collector EXCEPT !.series = Put(@, key, Update(name, key, v))]
\* lookupOrCreate and the update of the series that it returns, under the lock.
Record(name, v, labels) ==
    LET key == SeriesKey(name, labels)
    IN  IF key \notin DOMAIN collector.series /\ Full(name)
        THEN [collector EXCEPT !.dropped = Put(@, name, At(@, name, 0) + 1)]
        ELSE [collector EXCEPT !.series = Put(@, key, Update(name, key, v))]

Add(name, delta, labels) ==
    /\ collector' = IF recorder /\ delta >= 0 THEN Record(name, delta, labels) ELSE collector
    /\ UNCHANGED <<recorder, export>>
Observe(name, value, labels) ==
    /\ collector' = IF recorder THEN Record(name, value, labels) ELSE collector
    /\ UNCHANGED <<recorder, export>>

SetRecorder == recorder' = TRUE /\ UNCHANGED <<collector, export>>

\* Series(): the live series, under the lock.
ExportSeries ==
    /\ export.state = "none"
    /\ export' = [export EXCEPT !.state = "reading", !.todo = DOMAIN collector.series]
    /\ UNCHANGED <<recorder, collector>>
\* exportSeries: the next one in the order of names, read without the lock.
ExportNext ==
    /\ export.state = "reading" /\ export.todo # {}
    /\ LET k == CHOOSE x \in export.todo :
                    \A y \in export.todo : Position(x.metric) <= Position(y.metric)
       IN  export' = [export EXCEPT !.todo = @ \ {k}, !.series = Put(@, k, collector.series[k])]
    /\ UNCHANGED <<recorder, collector>>
\* exportDropped: under the lock again.
ExportDropped ==
    /\ export.state = "reading" /\ export.todo = {}
    /\ export' = [export EXCEPT !.state = "done", !.dropped = collector.dropped]
    /\ UNCHANGED <<recorder, collector>>
Exporting == ExportSeries \/ ExportNext \/ ExportDropped
=============================================================================
