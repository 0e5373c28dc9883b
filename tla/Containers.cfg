SPECIFICATION Spec
INVARIANTS HistoryKept FiresOnTime ContentsAgree RoundTrip FeaturesAgree DevicesSound 
PROPERTIES Implements
\* A caller may stop at any time: the documents, texts and signals are bounded.
CHECK_DEADLOCK FALSE
