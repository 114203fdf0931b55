---------------------------- MODULE WorkflowEditor ----------------------------
(***************************************************************************)
(* The workflow tab of a case type (WorkflowTab, WorkflowEditor and the    *)
(* store they share) as a client of WorkflowDefinitionService, beside      *)
(* others who use the same backend.  The tab edits one copy; which version *)
(* is selected, which copy is shown and which statuses are drawn are three *)
(* things that three kinds of answers change, in the order they arrive.    *)
(* The list of versions is left out: whatever exists may be selected.      *)
(***************************************************************************)
EXTENDS WorkflowVersions

CONSTANTS
  Finals, \* the statuses with isFinal
  Ui      \* the publish request of the tab

ASSUME EditorAssumption == Finals \subseteq Statuses /\ Ui \in Requests

VARIABLES
  sel,        \* selectedVersionId
  copy,       \* currentTemplate: an id and the row as loaded and edited
  mounted,    \* the editor's loadData() has its statuses
  nodes,      \* statusNodes
  dirty,
  loads,      \* getTemplate() calls without an answer yet
  saving,     \* what save() has sent, from the button and from publish()
  publishing, \* how far publish() is
  posted,     \* the id publishVersion() was called with
  slips       \* history: what undermined the tab's view

view == <<sel, copy, mounted, nodes, dirty, loads, saving, publishing, posted>>
tab == <<view, slips>>
vars == <<backend, tab>>

NoCopy == [id |-> None, row |-> NoRow]
CopyOf(d, row) == [id |-> d, row |-> row]
IsDraft == copy.row.life = "draft"

(* What validateWorkflow() is given. *)
Graph(drawn, transitions) ==
  [nodes |-> drawn, finals |-> drawn \cap Finals, edges |-> transitions, repeats |-> {}]
Shown == Graph(nodes, copy.row.graph)

EditorInit ==
  /\ Init
  /\ sel = None /\ copy = NoCopy /\ mounted = FALSE /\ nodes = {}
  /\ dirty = FALSE /\ loads = {}
  /\ saving = [by \in {"button", "publish"} |-> NoCopy]
  /\ publishing = "no" /\ posted = None
  /\ slips = {}
------------------------------------------------------------------------------
(* loadVersions(): a draft is preferred, then the active version.          *)
Open(d) ==
  /\ sel = None /\ Exists(d)
  /\ \/ rows[d].life = "draft"
     \/ /\ \A e \in Definitions : rows[e].life # "draft"
        /\ rows[d].life = "published" \/ Published = {}
  /\ sel' = d
  /\ loads' = {[id |-> d, by |-> "mount"]}
  /\ UNCHANGED <<backend, copy, mounted, nodes, dirty, saving, publishing, posted, slips>>

(* The part of loadData() that matters: the statuses, none when the fetch  *)
(* fails, and then the copy once more.                                     *)
LoadData ==
  /\ sel # None /\ ~mounted
  /\ mounted' = TRUE
  /\ nodes' \in {statuses, {}}
  /\ loads' = loads \cup {[id |-> sel, by |-> "mount"]}
  /\ UNCHANGED <<backend, sel, copy, dirty, saving, publishing, posted, slips>>

ChangeVersion(d) ==
  /\ sel # None /\ Exists(d) /\ d # sel
  /\ sel' = d
  /\ loads' = loads \cup {[id |-> d, by |-> "select"]}
  /\ UNCHANGED <<backend, copy, mounted, nodes, dirty, saving, publishing, posted, slips>>

(* getTemplate() answers, or fails; onVersionChange() calls the copy clean *)
(* in either case.                                                         *)
Loaded(l) ==
  /\ l \in loads
  /\ loads' = loads \ {l}
  /\ dirty' = (dirty /\ l.by = "mount")
  /\ \/ copy' = CopyOf(l.id, rows[l.id]) /\ UNCHANGED slips
     \/ /\ copy' \in {copy, NoCopy}
        /\ slips' = slips \cup {"loadFailed"}
  /\ UNCHANGED <<backend, sel, mounted, nodes, saving, publishing, posted>>
------------------------------------------------------------------------------
(* New drafts of the tab, all without a variant: an empty one, a copy of   *)
(* the selected version, an imported one.                                  *)
NewDraft(d, graph) ==
  /\ CreateDraft(d, Standaard, graph)
  /\ sel' = d
  /\ copy' = CopyOf(d, Draft(Standaard, graph))
  /\ UNCHANGED <<mounted, nodes, dirty, loads, saving, publishing, posted, slips>>

CreateWorkflow(d) ==
  /\ \A e \in Definitions : ~Exists(e)
  /\ NewDraft(d, {})

EditPublished(d) ==
  /\ sel # None /\ copy # NoCopy /\ ~IsDraft
  /\ NewDraft(d, rows[sel].graph)

ImportWorkflow(d, graph) ==
  /\ graph \subseteq statuses \X statuses
  /\ NewDraft(d, graph)
------------------------------------------------------------------------------
Busy == publishing # "no" \/ \E by \in DOMAIN saving : saving[by] # NoCopy
Meanwhile == IF Busy THEN {"editedMeanwhile"} ELSE {}

(* A slip: an edit is not announced as dirty. *)
EditSilently(graph) ==
  /\ copy # NoCopy
  /\ graph # copy.row.graph
  /\ graph \ copy.row.graph \subseteq nodes \X nodes
  /\ copy' = [copy EXCEPT !.row.graph = graph]
  /\ slips' = slips \cup Meanwhile
  /\ UNCHANGED <<backend, sel, mounted, nodes, dirty, loads, saving, publishing, posted>>

(* addTransition(), removeTransition() *)
EditTransitions(graph) ==
  /\ copy # NoCopy
  /\ graph # copy.row.graph
  /\ graph \ copy.row.graph \subseteq nodes \X nodes
  /\ copy' = [copy EXCEPT !.row.graph = graph]
  /\ dirty' = TRUE
  /\ slips' = slips \cup Meanwhile
  /\ UNCHANGED <<backend, sel, mounted, nodes, loads, saving, publishing, posted>>

(* onDeleteStatusNode() *)
DeleteNode(s) ==
  /\ s \in nodes
  /\ s \in Finals => (nodes \cap Finals) \ {s} # {}
  /\ DeleteStatus(s)
  /\ copy' = [copy EXCEPT !.row.graph = {e \in @ : s \notin {e[1], e[2]}}]
  /\ nodes' = nodes \ {s}
  /\ dirty' = TRUE
  /\ slips' = slips \cup Meanwhile
  /\ UNCHANGED <<sel, mounted, loads, saving, publishing, posted>>
------------------------------------------------------------------------------
(* A slip: what is published may be saved as well. *)
SaveAny ==
  /\ copy # NoCopy /\ dirty
  /\ \A by \in DOMAIN saving : saving[by] = NoCopy
  /\ saving' = [saving EXCEPT !["button"] = copy]
  /\ UNCHANGED <<backend, sel, copy, mounted, nodes, dirty, loads, publishing, posted, slips>>

Save ==
  /\ IsDraft /\ dirty
  /\ \A by \in DOMAIN saving : saving[by] = NoCopy
  /\ saving' = [saving EXCEPT !["button"] = copy]
  /\ UNCHANGED <<backend, sel, copy, mounted, nodes, dirty, loads, publishing, posted, slips>>

(* saveTemplate() writes the copy as it was sent and shows the answer; it  *)
(* does not throw, and the copy is called clean even when it failed.       *)
Saved(by) ==
  /\ saving[by] # NoCopy
  /\ saving' = [saving EXCEPT ![by] = NoCopy]
  /\ dirty' = FALSE
  /\ publishing' = IF by = "publish" THEN "posting" ELSE publishing
  /\ \/ /\ EditorSaves(saving[by].id, saving[by].row.graph)
        /\ copy' = saving[by]
        /\ UNCHANGED slips
     \/ /\ copy' \in {copy, NoCopy}
        /\ slips' = slips \cup {"saveFailed"}
        /\ UNCHANGED backend
  /\ UNCHANGED <<sel, mounted, nodes, loads, posted>>

(* publish(): validate, save when dirty.  A save of the button may still   *)
(* be on its way.                                                          *)
ClickPublish ==
  /\ IsDraft /\ publishing = "no"
  /\ ~Raises(Shown)
  /\ publishing' = IF dirty THEN "saving" ELSE "posting"
  /\ saving' = IF dirty THEN [saving EXCEPT !["publish"] = copy] ELSE saving
  /\ slips' = slips \cup (IF saving["button"] # NoCopy THEN {"savedTwice"} ELSE {})
  /\ UNCHANGED <<backend, sel, copy, mounted, nodes, dirty, loads, posted>>

(* A slip: what publish() validated is not validated again. *)
PostUnchecked ==
  /\ publishing = "posting"
  /\ \/ /\ Publish(Ui, sel)
        /\ publishing' = "waiting"
        /\ posted' = sel
        /\ slips' = slips \cup (IF sel # copy.id THEN {"crossed"} ELSE {})
                          \cup (IF nodes # statuses THEN {"blind"} ELSE {})
     \/ /\ rows[sel].life # "draft" \/ Foreign(rows[sel].graph)
        /\ publishing' = "no"
        /\ UNCHANGED <<backend, posted, slips>>
  /\ UNCHANGED <<sel, copy, mounted, nodes, dirty, loads, saving>>

(* publishVersion(): the copy is validated once more, and the version that *)
(* is selected now is published.  The backend may refuse.                  *)
Post ==
  /\ publishing = "posting"
  /\ \/ /\ ~Raises(Shown)
        /\ Publish(Ui, sel)
        /\ publishing' = "waiting"
        /\ posted' = sel
        /\ slips' = slips \cup (IF sel # copy.id THEN {"crossed"} ELSE {})
                          \cup (IF nodes # statuses THEN {"blind"} ELSE {})
     \/ /\ Raises(Shown) \/ rows[sel].life # "draft" \/ Foreign(rows[sel].graph)
        /\ publishing' = "no"
        /\ UNCHANGED <<backend, posted, slips>>
  /\ UNCHANGED <<sel, copy, mounted, nodes, dirty, loads, saving>>

(* A slip: the tab does not wait for the answer. *)
AnsweredEarly ==
  /\ publishing = "waiting"
  /\ publishing' = "no" /\ posted' = None
  /\ UNCHANGED <<backend, sel, copy, mounted, nodes, dirty, loads, saving, slips>>

(* The answer: the published definition, or an error, which may also come  *)
(* for a publish that had its effect.                                      *)
Answered ==
  /\ publishing = "waiting" /\ req[Ui] = Idle
  /\ publishing' = "no" /\ posted' = None
  /\ \/ /\ rows[posted].life = "published"
        /\ copy' = CopyOf(posted, rows[posted])
        /\ UNCHANGED slips
     \/ /\ slips' = IF rows[posted].life = "draft" THEN slips
                    ELSE slips \cup {"answerLost"}
        /\ UNCHANGED copy
  /\ UNCHANGED <<backend, sel, mounted, nodes, dirty, loads, saving>>
------------------------------------------------------------------------------
(* Everybody else who uses the backend; the tab hears nothing of it. *)
Others ==
  /\ \/ Seed \/ Edit \/ StartCase \/ CaseTypeSaved
     \/ \E r \in Requests \ {Ui} : Step(r) \/ \E d \in Definitions : Call(r, d)
  /\ slips' = IF /\ sel # None
                 /\ \/ statuses' # statuses
                    \/ \E d \in Definitions : Exists(d) /\ rows'[d] # rows[d]
              THEN slips \cup {"rival"} ELSE slips
  /\ UNCHANGED view

EditorNext ==
  \/ Others
  \/ Step(Ui) /\ UNCHANGED tab
  \/ LoadData \/ Save \/ ClickPublish \/ Post \/ Answered
  \/ \E l \in loads : Loaded(l)
  \/ \E by \in DOMAIN saving : Saved(by)
  \/ \E graph \in Graphs : EditTransitions(graph)
  \/ \E s \in statuses : DeleteNode(s)
  \/ \E d \in Definitions :
       \/ Open(d) \/ ChangeVersion(d) \/ CreateWorkflow(d) \/ EditPublished(d)
       \/ \E graph \in Graphs : ImportWorkflow(d, graph)

EditorSpec == EditorInit /\ [][EditorNext]_vars
------------------------------------------------------------------------------
(* The tab's own part; a publish that waits knows what it waits for.       *)
TabTypeOK ==
  /\ sel \in Definitions \cup {None}
  /\ copy \in [id : Definitions \cup {None}, row : Row]
  /\ mounted \in BOOLEAN /\ nodes \subseteq Statuses /\ dirty \in BOOLEAN
  /\ loads \subseteq [id : Definitions, by : {"mount", "select"}]
  /\ saving \in [{"button", "publish"} -> [id : Definitions \cup {None}, row : Row]]
  /\ publishing \in {"no", "saving", "posting", "waiting"}
  /\ posted \in Definitions \cup {None}
  /\ posted # None <=> publishing = "waiting"
  /\ req[Ui].op # "none" => posted = req[Ui].id

(* Types, of the backend and of the tab (WorkflowTab, WorkflowEditor).      *)
EditorTypeOK == TypeOK /\ TabTypeOK

(* Publishing from the tab never makes a workflow active that validation   *)
(* would refuse, unless what was validated is not what is published: the   *)
(* version was changed meanwhile (crossed), the statuses shown were not    *)
(* those of the case type (blind), the save before failed or was overtaken *)
(* by an earlier one, or it was edited by anybody after the check.         *)
PublishesOnlyValid ==
  [][/\ req[Ui].pc = "writeTarget" /\ req'[Ui].pc = "decide"
     /\ slips \cap {"crossed", "blind", "saveFailed", "loadFailed", "editedMeanwhile",
                    "savedTwice", "rival"} = {}
     => ~Raises(Graph(statuses, rows'[posted].graph))]_vars

(* A save of the tab never turns a version in use back into a draft,       *)
(* unless it was published by somebody else, edited or saved by the button *)
(* while the tab itself was publishing it, or the answer to that was lost. *)
SavesOnlyDrafts ==
  [][\A by \in DOMAIN saving :
       /\ saving[by] # NoCopy /\ saving'[by] = NoCopy
       /\ slips' \cap {"rival", "editedMeanwhile", "savedTwice", "answerLost"} = {}
       => rows[saving[by].id].life = "draft"]_vars

(* A copy that is called clean is what is stored, also while answers are   *)
(* still on their way, unless a save or load failed, two saves crossed, or *)
(* it was edited while one was under way, or by others.                    *)
CleanCopyIsStored ==
  /\ copy.id # None /\ ~dirty
  /\ slips \cap {"saveFailed", "loadFailed", "editedMeanwhile", "savedTwice", "rival"} = {}
  => rows[copy.id].graph = copy.row.graph
==============================================================================
