----------------------------- MODULE MCDiagnostics -----------------------------
EXTENDS Diagnostics, TLC

CONSTANTS g1, g2

Two == {g1, g2}
AnyOrder == Permutations(Two)

Stream(formats, first) == [formats |-> formats, domain |-> 0, first |-> first]
Pair == {Stream({"AAF", "Base"}, TRUE), Stream({"AAF", "Base"}, FALSE)}
Clock == {Stream({"CRF"}, TRUE)}
TwoListeners == {Stream({"AAF", "Base"}, TRUE), Stream({"Base"}, TRUE)}
Control(type, level, shape) == <<[type |-> type, level |-> level, shape |-> shape]>>

\* A redundant device of Milan 1.2 that does all as it should, and sends whole messages.
Sound ==
  [specification |-> 10, redundancyBit |-> TRUE, inputs |-> Pair \cup Clock, outputs |-> Clock, domains |-> {0},
   counts |-> {"top"}, numbered |-> TRUE, silent |-> {}, adpControl |-> None,
   controls |-> Control("status", "AudioUnit", "proper"), partial |-> FALSE, faulty |-> FALSE, start |-> Width - 1]

AllSettings ==
  {Sound,
   [Sound EXCEPT !.faulty = TRUE, !.adpControl = 1, !.controls = Control("identify", "Jack", "proper")],
   [Sound EXCEPT !.partial = TRUE, !.start = 1, !.redundancyBit = FALSE],
   [Sound EXCEPT !.specification = 13, !.outputs = {Stream({"AAF", "CRF"}, TRUE)}],
   [Sound EXCEPT !.specification = 0, !.silent = {"AvbInterface1"}],
   [Sound EXCEPT !.counts = {"top", "nested"}],
   [Sound EXCEPT !.numbered = FALSE, !.adpControl = 1],
   [Sound EXCEPT !.controls = Control("identify", "AudioUnit", "signalled")],
   [Sound EXCEPT !.inputs = Pair, !.outputs = Pair],
   [Sound EXCEPT !.inputs = TwoListeners \cup Clock, !.outputs = {}, !.redundancyBit = FALSE]}
=============================================================================
