-------------------------- MODULE MCMetricsRecorder --------------------------
EXTENDS MetricsRecorder
==============================================================================
