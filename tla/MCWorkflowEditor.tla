--------------------------- MODULE MCWorkflowEditor ---------------------------
EXTENDS WorkflowEditor, TLC

CONSTANTS standaard, spoed, \* routes
          open, done,       \* statusTypes
          ui, api, cli,     \* requests
          d1, d2, d3

MCGraphs == {{}, {<<open, done>>}}
Alike == Permutations(Definitions) \cup Permutations(Requests \ {Ui})

(* Two worlds that are explored together.  Without a tab, two requests and *)
(* three versions, whose graphs do not matter, until something goes wrong  *)
(* twice.  With one, two versions of one route; what others do meanwhile   *)
(* is one step, and only some of the slips are followed further.           *)
MaxMishaps == 1
MaxEditorVersions == 2
Followed == {"blind", "loadFailed", "answerLost"}
Bounds ==
  /\ Cardinality(mishaps) <= MaxMishaps
  /\ sel = None =>
       statuses = Statuses /\ \A d \in Definitions : rows[d].graph = {}
  /\ sel # None =>
       /\ Cardinality({d \in Definitions : Exists(d)}) <= MaxEditorVersions
       /\ \A d \in Definitions : rows[d].route = standaard
       /\ req[api] = Idle /\ req[cli] = Idle /\ ~cases /\ mishaps = {}
       /\ slips \subseteq Followed /\ Cardinality(slips) <= 1
==============================================================================
