\* Slices of four, two and two numbers.
SPECIFICATION RawSpec
CONSTANTS
  NumElements = 8
  NumThreads = 3
INVARIANT RawPassComplete
