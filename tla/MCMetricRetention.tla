-------------------------- MODULE MCMetricRetention --------------------------
(* Instance of MetricRetention for TLC without watches.                    *)
EXTENDS MetricRetention
=============================================================================
