--------------------------- MODULE WorkflowVersions ---------------------------
(***************************************************************************)
(* WorkflowDefinitionService with its repository and lifecycle guard: the  *)
(* versions of one case type's workflow.  A case type has routes           *)
(* (variants), each served by its active version, and a default route,     *)
(* recorded as a pin on one version.  Publish, deprecate and set-default   *)
(* are requests of several store calls each, which interleave and may fail *)
(* or die at every call; an update reads the row and writes it back whole. *)
(* A write that fails ends its request.  A read that fails is logged and   *)
(* taken for an empty answer, and the request goes on with that.           *)
(*                                                                         *)
(* lifecycleStatus, isDraft and isActive change together, so life stands   *)
(* for all three.  Version numbers are left out: which of several active   *)
(* versions is listed first is left open.                                  *)
(***************************************************************************)
EXTENDS WorkflowRules

CONSTANTS
  Definitions, \* row ids
  Routes,
  Standaard,   \* VARIANT_DEFAULT
  Statuses,    \* statusTypes of the case type
  Graphs,      \* sets of transitions a version may hold
  Requests,    \* requests that may run at the same time
  None

ASSUME VersionsAssumption ==
  /\ Standaard \in Routes
  /\ {} \in Graphs /\ \A graph \in Graphs : SUBSET graph \subseteq Graphs
  /\ None \notin Definitions /\ None \notin Graphs

VARIABLES
  rows,     \* workflowTemplate objects
  statuses, \* statusTypes that exist
  pin,      \* caseType.workflowDefinition
  cases,    \* whether any case of the type exists
  req,      \* per request what it does and what it has read
  offered,  \* history: routes published and not deprecated on request
  mishaps   \* history: what went wrong on which route

backend == <<rows, statuses, pin, cases, req, offered, mishaps>>

Row == [life : {"none", "draft", "published", "deprecated"},
        route : Routes, graph : Graphs]
NoRow == [life |-> "none", route |-> Standaard, graph |-> {}]
Draft(route, graph) == [life |-> "draft", route |-> route, graph |-> graph]

Request == [op : {"none", "publish", "deprecate", "setDefault"},
            pc : {"idle", "list", "readPrev", "writePrev", "readTarget",
                  "writeTarget", "decide", "pin"},
            id : Definitions \cup {None},   \* the row to publish or to pin
            prev : Definitions \cup {None}, \* the row to deprecate
            stamped : Graphs \cup {None},   \* authoredTransitions
            held : Row]                     \* the row as last read
Idle == [op |-> "none", pc |-> "idle", id |-> None, prev |-> None,
         stamped |-> None, held |-> NoRow]

Exists(d) == rows[d].life # "none"
Active(route) == {d \in Definitions : rows[d].life = "published" /\ rows[d].route = route}
Published == {d \in Definitions : rows[d].life = "published"}
Foreign(graph) == statuses # {} /\ ~(graph \subseteq statuses \X statuses)

(* The route a request works on. *)
RouteOf(r) == rows[IF req[r].id # None THEN req[r].id ELSE req[r].prev].route
BusyOn(route) == {r \in Requests : req[r].op # "none" /\ RouteOf(r) = route}
Publishing(route) == {r \in BusyOn(route) : req[r].op = "publish"}

Init ==
  /\ rows = [d \in Definitions |-> NoRow]
  /\ statuses = Statuses
  /\ pin = None
  /\ cases = FALSE
  /\ req = [r \in Requests |-> Idle]
  /\ offered = {}
  /\ mishaps = {}
------------------------------------------------------------------------------
(* Drafts: from a seed or a client, as a clone, or saved over by an editor *)
(* that holds the whole row, possibly as it was before it was published.   *)
CreateDraft(d, route, graph) ==
  /\ ~Exists(d)
  /\ rows' = [rows EXCEPT ![d] = Draft(route, graph)]
  /\ UNCHANGED <<statuses, pin, cases, req, offered, mishaps>>

CloneDefinition(d, source) ==
  /\ Exists(source)
  /\ CreateDraft(d, rows[source].route, rows[source].graph)

EditorSaves(d, graph) ==
  /\ Exists(d)
  /\ rows' = [rows EXCEPT ![d] = Draft(@.route, graph)]
  /\ mishaps' = IF rows[d].life = "draft" THEN mishaps
                ELSE mishaps \cup {<<"overwritten", rows[d].route>>}
  /\ UNCHANGED <<statuses, pin, cases, req, offered>>

DeleteStatus(s) ==
  /\ statuses' = statuses \ {s}
  /\ UNCHANGED <<rows, pin, cases, req, offered, mishaps>>

(* A case is started on whatever version is offered; a deprecation under   *)
(* way may have looked for cases before.                                   *)
StartCase ==
  /\ Published # {}
  /\ cases' = TRUE
  /\ mishaps' = mishaps \cup
       {<<"stranding", RouteOf(r)>> : r \in {q \in Requests : req[q].op = "deprecate"}}
  /\ UNCHANGED <<rows, statuses, pin, req, offered>>
------------------------------------------------------------------------------
(* Requests that are under way at the same time: on one route, and two     *)
(* deprecations on any.                                                    *)
Overlaps(op, route) ==
  (IF BusyOn(route) # {} THEN {<<"overlap", route>>} ELSE {})
    \cup
  (IF op = "deprecate" /\ \E r \in Requests : req[r].op = "deprecate"
   THEN {<<"stranding", route>>} ELSE {})

Begin(r, call) ==
  /\ req' = [req EXCEPT ![r] = call]
  /\ mishaps' = mishaps \cup
       Overlaps(call.op, rows[IF call.id # None THEN call.id ELSE call.prev].route)
  /\ UNCHANGED <<rows, statuses, pin, cases, offered>>

(* isPublishableDraft(), and the stamper, which copies the transitions as  *)
(* they were read now when it resolves a role.                             *)
Publish(r, d) ==
  /\ req[r] = Idle
  /\ rows[d].life = "draft"
  /\ ~Foreign(rows[d].graph)
  /\ \E stamped \in {None, rows[d].graph} :
       Begin(r, [Idle EXCEPT !.op = "publish", !.pc = "list", !.id = d,
                             !.stamped = stamped])

(* A slip: the last published version may go although there are cases. *)
DeprecateAny(r, d) ==
  /\ req[r] = Idle
  /\ rows[d].life = "published"
  /\ Begin(r, [Idle EXCEPT !.op = "deprecate", !.pc = "readPrev", !.prev = d])

(* isDeprecatable(): a read that fails counts as no other version, or as   *)
(* cases, and can only refuse.                                             *)
Deprecate(r, d) ==
  /\ req[r] = Idle
  /\ rows[d].life = "published"
  /\ Published \ {d} # {} \/ ~cases
  /\ Begin(r, [Idle EXCEPT !.op = "deprecate", !.pc = "readPrev", !.prev = d])

SetDefaultDefinition(r, d) ==
  /\ req[r] = Idle
  /\ rows[d].life = "published"
  /\ Begin(r, [Idle EXCEPT !.op = "setDefault", !.pc = "pin", !.id = d])
------------------------------------------------------------------------------
(* A slip: the active versions of all routes are looked through. *)
ListAnyActive(r) ==
  /\ req[r].pc = "list"
  /\ \/ /\ Published \subseteq {req[r].id} \/ req[r].id \in Published
        /\ req' = [req EXCEPT ![r].pc = "readTarget"]
     \/ \E prev \in Published \ {req[r].id} :
          req' = [req EXCEPT ![r].pc = "readPrev", ![r].prev = prev]
  /\ UNCHANGED <<rows, statuses, pin, cases, offered, mishaps>>

(* deprecatePreviousActive(): the first active version of the route.  When *)
(* the versions cannot be listed there seems to be none.                   *)
ListActive(r) ==
  /\ req[r].pc = "list"
  /\ LET active == Active(RouteOf(r)) IN
       \/ /\ active = {} \/ req[r].id \in active
          /\ req' = [req EXCEPT ![r].pc = "readTarget"]
          /\ UNCHANGED mishaps
       \/ \E prev \in active \ {req[r].id} :
            /\ req' = [req EXCEPT ![r].pc = "readPrev", ![r].prev = prev]
            /\ UNCHANGED mishaps
       \/ /\ active # {}
          /\ req' = [req EXCEPT ![r].pc = "readTarget"]
          /\ mishaps' = mishaps \cup {<<"unlisted", RouteOf(r)>>}
  /\ UNCHANGED <<rows, statuses, pin, cases, offered>>

(* mergeOntoStored() *)
Read(r) ==
  /\ \/ /\ req[r].pc = "readPrev"
        /\ req' = [req EXCEPT ![r].pc = "writePrev", ![r].held = rows[req[r].prev]]
     \/ /\ req[r].pc = "readTarget"
        /\ req' = [req EXCEPT ![r].pc = "writeTarget", ![r].held = rows[req[r].id]]
  /\ UNCHANGED <<rows, statuses, pin, cases, offered, mishaps>>

(* A deprecation is over with its write, a publish goes on to its target.  *)
WritePrev(r) ==
  /\ req[r].pc = "writePrev"
  /\ rows' = [rows EXCEPT ![req[r].prev] = [req[r].held EXCEPT !.life = "deprecated"]]
  /\ IF req[r].op = "publish"
     THEN /\ req' = [req EXCEPT ![r].pc = "readTarget", ![r].held = NoRow]
          /\ UNCHANGED offered
     ELSE /\ req' = [req EXCEPT ![r] = Idle]
          /\ offered' = offered \ {RouteOf(r)}
  /\ UNCHANGED <<statuses, pin, cases, mishaps>>

WriteTarget(r) ==
  /\ req[r].pc = "writeTarget"
  /\ LET graph == IF req[r].stamped # None THEN req[r].stamped ELSE req[r].held.graph IN
       rows' = [rows EXCEPT ![req[r].id] =
                  [req[r].held EXCEPT !.life = "published", !.graph = graph]]
  /\ req' = [req EXCEPT ![r] = [Idle EXCEPT !.op = "publish", !.pc = "decide", !.id = req[r].id]]
  /\ offered' = offered \cup {RouteOf(r)}
  /\ UNCHANGED <<statuses, pin, cases, mishaps>>

(* A slip: whatever is published becomes the default. *)
DecideAlways(r) ==
  /\ req[r].pc = "decide"
  /\ req' = [req EXCEPT ![r].pc = "pin"]
  /\ UNCHANGED <<rows, statuses, pin, cases, offered, mishaps>>

(* A slip: a default once recorded is never moved. *)
DecideOnce(r) ==
  /\ req[r].pc = "decide"
  /\ req' = IF pin # None THEN [req EXCEPT ![r] = Idle] ELSE [req EXCEPT ![r].pc = "pin"]
  /\ UNCHANGED <<rows, statuses, pin, cases, offered, mishaps>>

(* takeDefaultWhenEntitled(): read the pin, then the pinned row.  A row    *)
(* never changes its route, so the second read is taken with the first.    *)
(* When either fails there seems to be no default.                         *)
Decide(r) ==
  /\ req[r].pc = "decide"
  /\ LET elsewhere == pin # None /\ rows[pin].route # RouteOf(r) IN
       \/ /\ req' = IF elsewhere THEN [req EXCEPT ![r] = Idle]
                                 ELSE [req EXCEPT ![r].pc = "pin"]
          /\ UNCHANGED mishaps
       \/ /\ elsewhere
          /\ req' = [req EXCEPT ![r].pc = "pin"]
          /\ mishaps' = mishaps \cup {<<"misread", RouteOf(r)>>}
  /\ UNCHANGED <<rows, statuses, pin, cases, offered>>

(* Publishes that have decided to pin. *)
AboutToPin == {r \in Requests : req[r].op = "publish" /\ req[r].pc = "pin"}

(* Whoever has decided before and pins later overrides this one. *)
PinDefinition(r) ==
  /\ req[r].pc = "pin"
  /\ pin' = req[r].id
  /\ req' = [req EXCEPT ![r] = Idle]
  /\ mishaps' = mishaps \cup
       {<<"raced", RouteOf(q)>> : q \in AboutToPin \ {r}}
  /\ UNCHANGED <<rows, statuses, cases, offered>>

(* The form of the case type saves it whole, with the pin as it was when   *)
(* the form was opened: none, or a version published once.                 *)
CaseTypeSaved ==
  /\ \E loaded \in {None} \cup {d \in Definitions : rows[d].life \in {"published", "deprecated"}} :
       /\ loaded # pin
       /\ pin' = loaded
       /\ mishaps' = mishaps \cup {<<"raced", RouteOf(r)>> : r \in AboutToPin}
            \cup (IF loaded = None \/ loaded \in Published THEN {}
                  ELSE {<<"repinned", rows[loaded].route>>})
  /\ UNCHANGED <<rows, statuses, cases, req, offered>>

(* A store call throws and the request gives up, or its process dies. What *)
(* it has written stays: the predecessor deprecated, or the target         *)
(* published and not made the default.                                     *)
CutShort(r) ==
  /\ req[r].op # "none"
  /\ req' = [req EXCEPT ![r] = Idle]
  /\ mishaps' = IF /\ req[r].op = "publish"
                   /\ \/ req[r].pc \in {"decide", "pin"}
                      \/ req[r].pc \in {"readTarget", "writeTarget"} /\ req[r].prev # None
                THEN mishaps \cup {<<"cut", RouteOf(r)>>} ELSE mishaps
  /\ UNCHANGED <<rows, statuses, pin, cases, offered>>

Step(r) ==
  ListActive(r) \/ Read(r) \/ WritePrev(r) \/ WriteTarget(r) \/ Decide(r)
    \/ PinDefinition(r) \/ CutShort(r)

Call(r, d) == Publish(r, d) \/ Deprecate(r, d) \/ SetDefaultDefinition(r, d)

Seed ==
  \E d \in Definitions :
    \/ \E route \in Routes, graph \in Graphs : CreateDraft(d, route, graph)
    \/ \E source \in Definitions : CloneDefinition(d, source)

Edit ==
  \/ \E d \in Definitions, graph \in Graphs : EditorSaves(d, graph)
  \/ \E s \in statuses : DeleteStatus(s)

Next ==
  \/ Seed \/ Edit \/ StartCase \/ CaseTypeSaved
  \/ \E r \in Requests : Step(r) \/ \E d \in Definitions : Call(r, d)

Spec == Init /\ [][Next]_backend
------------------------------------------------------------------------------
(* Types, and what is pinned or worked on is there.                        *)
TypeOK ==
  /\ rows \in [Definitions -> Row]
  /\ statuses \subseteq Statuses
  /\ pin \in Definitions \cup {None}
  /\ cases \in BOOLEAN
  /\ req \in [Requests -> Request]
  /\ offered \subseteq Routes
  /\ mishaps \subseteq {"overlap", "unlisted", "misread", "stranding", "raced", "repinned", "cut",
                  "overwritten"} \X Routes
  /\ pin # None => Exists(pin)
  /\ \A r \in Requests :
       /\ req[r].id # None => Exists(req[r].id)
       /\ req[r].prev # None => Exists(req[r].prev)
       /\ req[r].pc \in {"readPrev", "writePrev"} => req[r].prev # None
       /\ req[r].op \in {"publish", "setDefault"} => req[r].id # None

(* At most one version of a route backs new cases, as long as no two       *)
(* requests on the route were under way at the same time and no publish    *)
(* failed to list what is active there.                                    *)
OneActivePerRoute ==
  \A route \in Routes :
    {<<"overlap", route>>, <<"unlisted", route>>} \cap mishaps = {} =>
      \A d, e \in Active(route) : d = e

(* Publishing a new version leaves no gap for good: a route once published *)
(* and not deprecated on request has an active version, unless one is just *)
(* being exchanged, a publish was cut short between its two writes, or an  *)
(* editor saved a draft over a published version.                          *)
RouteServed ==
  \A route \in offered :
    \/ Active(route) # {} \/ Publishing(route) # {}
    \/ {<<"cut", route>>, <<"overwritten", route>>} \cap mishaps # {}

(* getActiveDefinitionFor() without a route, with reads that do not fail:  *)
(* the pinned version if it is active, the only one, or any (the sort      *)
(* order of the routes).                                                   *)
Answers ==
  IF pin \in Published THEN {pin} ELSE Published

(* A case that names no route takes the default one as long as that one is *)
(* offered, unless it is just being exchanged or something went wrong on   *)
(* that route: a publish cut short, requests that overlapped, a version    *)
(* overwritten, a predecessor left active because it was not listed, or a  *)
(* deprecated version pinned again by the form of the case type.           *)
DefaultRouteIsTaken ==
  pin # None =>
    LET route == rows[pin].route IN
      \/ \A d \in Answers : rows[d].route = route
      \/ Active(route) = {} \/ Publishing(route) # {}
      \/ {<<"cut", route>>, <<"overlap", route>>, <<"unlisted", route>>,
          <<"repinned", route>>, <<"overwritten", route>>} \cap mishaps # {}

(* Publishing a version of another route leaves the default route alone,   *)
(* unless a publish of its route had decided before that default was       *)
(* recorded, or could not read it.                                         *)
KeepsDefaultRoute ==
  [][\A r \in Requests :
       /\ req[r].op = "publish" /\ req[r].pc = "pin" /\ req'[r] = Idle
       /\ pin' # pin /\ pin # None
       => \/ rows[pin].route = RouteOf(r)
          \/ {<<"raced", RouteOf(r)>>, <<"misread", RouteOf(r)>>} \cap mishaps # {}]_backend

(* While there are cases of the type some version is published: deprecate  *)
(* checks both before it writes, and only what comes in between (another   *)
(* deprecation, the first case) can make that check worthless.             *)
NotStranded ==
  cases =>
    \/ Published # {}
    \/ \E route \in Routes :
         \/ Publishing(route) # {}
         \/ {<<"cut", route>>, <<"stranding", route>>, <<"overlap", route>>,
             <<"overwritten", route>>} \cap mishaps # {}
==============================================================================
