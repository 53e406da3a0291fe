\* The Cortex of a pass may block in its stop(), which is shown by MCCortexStop:
\* deadlock is not an error of the model.
SPECIFICATION SeriesSpec
CONSTANTS
  MAX_THREADS = 2
  NumThreads = 3
  NumElements = 3
  Tasks = {t1, t2, t3}
  NoTask = NoTask
  CommandLines <- Lines
INVARIANTS SeriesAsAsked CortexPassLoses MqtPassComplete RawInside LastSliceCovered
PROPERTY MqtPassEnds
CHECK_DEADLOCK FALSE
