------------------------- MODULE WorkflowEditorProofs -------------------------
(***************************************************************************)
(* Proofs about WorkflowVersions for any set of versions, routes and       *)
(* requests, and then about WorkflowEditor.                                *)
(*                                                                         *)
(* The request that publishes on a route is the only one that works on it  *)
(* (Alone), what it has listed is all that is active there (Cleared), and  *)
(* rows never change their route (Placed).  The default is left on a       *)
(* version that is not active only by a publish that is about to move it   *)
(* (PinHolds), and whoever deprecates leaves another version for the cases *)
(* there are (Backed).                                                     *)
(*                                                                         *)
(* The workflow tab is one more client of that backend: whatever it does   *)
(* is a step of WorkflowVersions, so what is proved there holds while tabs *)
(* are open.  What the tab knows, and what undermines that, is TabView: as *)
(* long as it publishes nothing else of its own is under way (Quiet), so   *)
(* its request writes what it has read (Fresh) and checked (Checked), and  *)
(* its copy is what is stored (Stored) and as far as it is taken to be     *)
(* (InDraft).                                                              *)
(***************************************************************************)
EXTENDS WorkflowEditor, TLAPS

Overlapped(route) == <<"overlap", route>> \in mishaps
Unlisted(route) == <<"unlisted", route>> \in mishaps

(* What the stages of a request imply about what it does. *)
Staged ==
  \A r \in Requests :
    /\ req[r].pc \in {"list", "readTarget", "writeTarget", "decide"} => req[r].op = "publish"
    /\ req[r].op = "setDefault" => req[r].pc = "pin"
    /\ req[r].op = "deprecate" => req[r].pc \in {"readPrev", "writePrev"} /\ req[r].id = None
    /\ req[r].op = "none" => req[r].pc = "idle"
    /\ req[r].op # "none" => req[r].id # None \/ req[r].prev # None

(* A row that is held, or is the other one of the two, is of the route. *)
Placed ==
  \A r \in Requests :
    /\ req[r].pc = "writePrev" => req[r].held.route = rows[req[r].prev].route
    /\ req[r].pc = "writeTarget" => req[r].held.route = rows[req[r].id].route
    /\ req[r].prev # None => rows[req[r].prev].route = RouteOf(r)

Alone ==
  \A r, q \in Requests :
    r # q /\ req[r].op # "none" /\ req[q].op # "none" /\ RouteOf(r) = RouteOf(q)
    => Overlapped(RouteOf(r))

Cleared ==
  \A r \in Requests :
    req[r].op = "publish" /\ ~Overlapped(RouteOf(r)) /\ ~Unlisted(RouteOf(r)) =>
      /\ req[r].pc \in {"readPrev", "writePrev"} => Active(RouteOf(r)) \subseteq {req[r].prev}
      /\ req[r].pc \in {"readTarget", "writeTarget"} => Active(RouteOf(r)) \subseteq {req[r].id}

(* Only a publish between its two writes leaves an offered route without. *)
Exchanging(route) ==
  {r \in Requests : /\ req[r].op = "publish" /\ req[r].pc \in {"readTarget", "writeTarget"}
                    /\ req[r].prev # None /\ RouteOf(r) = route}
Bridged ==
  \A route \in offered :
    \/ Active(route) # {} \/ Exchanging(route) # {}
    \/ {<<"cut", route>>, <<"overwritten", route>>} \cap mishaps # {}

(* A publish about to pin has seen no default of another route. *)
Entitled ==
  \A r \in Requests :
    req[r].op = "publish" /\ req[r].pc = "pin" =>
      \/ pin = None \/ rows[pin].route = RouteOf(r)
      \/ <<"raced", RouteOf(r)>> \in mishaps
      \/ <<"misread", RouteOf(r)>> \in mishaps

Typed == TypeOK /\ Staged
Inv == Typed /\ Placed /\ Alone /\ Cleared /\ OneActivePerRoute /\ Bridged /\ Entitled
------------------------------------------------------------------------------
Mishaps == {"overlap", "unlisted", "misread", "stranding", "raced", "repinned", "cut",
            "overwritten"} \X Routes

LEMMA RouteOfRequest ==
  ASSUME Typed, NEW r \in Requests, req[r].op # "none"
  PROVE  RouteOf(r) \in Routes
<1>1. req[r] \in Request
  BY DEF Typed, TypeOK
<1>2. \E d \in Definitions : RouteOf(r) = rows[d].route
  <2>1. CASE req[r].id # None
    BY <2>1, <1>1 DEF RouteOf, Request
  <2>2. CASE req[r].id = None
    BY <2>2, <1>1 DEF RouteOf, Request, Typed, Staged
  <2> QED BY <2>1, <2>2
<1> QED BY <1>2 DEF Typed, TypeOK, Row

(* What remains to be checked of the types when only one request moves on. *)
LEMMA OneMoves ==
  ASSUME Typed, NEW r \in Requests, NEW call \in Request,
         req' = [req EXCEPT ![r] = call],
         UNCHANGED <<statuses, cases>>,
         rows' \in [Definitions -> Row],
         \A d \in Definitions : Exists(d) => Exists(d)',
         pin' \in Definitions \cup {None}, pin' # None => Exists(pin)',
         offered' \subseteq Routes,
         mishaps' \subseteq Mishaps,
         call.id # None => Exists(call.id),
         call.prev # None => Exists(call.prev),
         call.pc \in {"readPrev", "writePrev"} => call.prev # None,
         call.op \in {"publish", "setDefault"} => call.id # None,
         call.pc \in {"list", "readTarget", "writeTarget", "decide"} => call.op = "publish",
         call.op = "setDefault" => call.pc = "pin",
         call.op = "deprecate" => call.pc \in {"readPrev", "writePrev"} /\ call.id = None,
         call.op = "none" => call.pc = "idle",
         call.op # "none" => call.id # None \/ call.prev # None
  PROVE  Typed'
<1>1. req' \in [Requests -> Request] /\ req'[r] = call /\ \A q \in Requests \ {r} : req'[q] = req[q]
  BY DEF Typed, TypeOK
<1>2. ASSUME NEW q \in Requests
      PROVE  /\ req'[q].id # None => rows'[req'[q].id].life # "none"
             /\ req'[q].prev # None => rows'[req'[q].prev].life # "none"
             /\ req'[q].pc \in {"readPrev", "writePrev"} => req'[q].prev # None
             /\ req'[q].op \in {"publish", "setDefault"} => req'[q].id # None
  <2>1. CASE q = r
    BY <2>1, <1>1 DEF Exists, Request
  <2>2. CASE q # r
    BY <2>2, <1>1 DEF Exists, Typed, TypeOK, Request
  <2> QED BY <2>1, <2>2
<1>3. TypeOK'
  BY <1>1, <1>2 DEF Typed, TypeOK, Mishaps, Exists
<1>4. Staged'
  BY <1>1 DEF Typed, Staged
<1> QED BY <1>3, <1>4 DEF Typed

(* Actions on rows alone, which leave the requests as they are. *)
LEMMA RowsMove ==
  ASSUME Typed, UNCHANGED <<req, pin, offered>>,
         statuses' \subseteq Statuses, cases' \in BOOLEAN,
         rows' \in [Definitions -> Row],
         \A d \in Definitions : Exists(d) => Exists(d)',
         mishaps' \subseteq Mishaps
  PROVE  Typed'
<1>1. ASSUME NEW r \in Requests
      PROVE  /\ req[r].id # None => rows'[req[r].id].life # "none"
             /\ req[r].prev # None => rows'[req[r].prev].life # "none"
  BY DEF Typed, TypeOK, Exists, Request
<1>2. pin # None => rows'[pin].life # "none"
  BY DEF Typed, TypeOK, Exists
<1>3. TypeOK'
  BY <1>1, <1>2 DEF Typed, TypeOK, Mishaps, Exists
<1>4. Staged'
  BY DEF Typed, Staged
<1> QED BY <1>3, <1>4 DEF Typed

LEMMA MishapsTyped ==
  ASSUME Typed, NEW kind \in {"overlap", "unlisted", "misread", "stranding", "raced", "repinned", "cut",
                       "overwritten"},
         NEW Who, Who \subseteq Requests, \A r \in Who : req[r].op # "none"
  PROVE  mishaps \cup {<<kind, RouteOf(r)>> : r \in Who} \subseteq Mishaps
<1>1. \A r \in Who : RouteOf(r) \in Routes
  BY RouteOfRequest
<1> QED BY <1>1 DEF Typed, TypeOK, Mishaps

LEMMA TypeKept == Typed /\ [Next]_backend => Typed'
<1> SUFFICES ASSUME Typed, [Next]_backend PROVE Typed'
  OBVIOUS
<1>1. ASSUME NEW d \in Definitions, NEW route \in Routes, NEW graph \in Graphs,
             CreateDraft(d, route, graph)
      PROVE  Typed'
  <2>1. rows' \in [Definitions -> Row] /\ \A e \in Definitions : Exists(e) => Exists(e)'
    BY <1>1 DEF Typed, TypeOK, CreateDraft, Draft, Exists, Row
  <2> QED BY <1>1, <2>1, RowsMove DEF Typed, TypeOK, CreateDraft, Mishaps
<1>2. ASSUME NEW d \in Definitions, NEW source \in Definitions, CloneDefinition(d, source)
      PROVE  Typed'
  <2>1. rows[source].route \in Routes /\ rows[source].graph \in Graphs
    BY DEF Typed, TypeOK, Row
  <2> QED BY <1>1, <1>2, <2>1 DEF CloneDefinition
<1>3. ASSUME NEW d \in Definitions, NEW graph \in Graphs, EditorSaves(d, graph)
      PROVE  Typed'
  <2>1. rows[d].route \in Routes
    BY DEF Typed, TypeOK, Row
  <2>2. rows' \in [Definitions -> Row] /\ \A e \in Definitions : Exists(e) => Exists(e)'
    BY <1>3, <2>1 DEF Typed, TypeOK, EditorSaves, Draft, Exists, Row
  <2>3. mishaps' \subseteq Mishaps
    BY <1>3, <2>1 DEF Typed, TypeOK, EditorSaves, Mishaps
  <2> QED BY <1>3, <2>2, <2>3, RowsMove DEF Typed, TypeOK, EditorSaves
<1>4. ASSUME NEW s \in statuses, DeleteStatus(s)
      PROVE  Typed'
  BY <1>4, RowsMove DEF Typed, TypeOK, DeleteStatus, Mishaps, Exists
<1>5. CASE StartCase
  <2>1. mishaps' \subseteq Mishaps
    BY <1>5, MishapsTyped DEF StartCase
  <2> QED BY <1>5, <2>1, RowsMove DEF Typed, TypeOK, StartCase, Exists
<1>6. ASSUME NEW r \in Requests, NEW call \in Request, Begin(r, call),
             call.op \in {"publish", "deprecate", "setDefault"},
             call.id # None => Exists(call.id),
             call.prev # None => Exists(call.prev),
             call.op = "publish" => call.pc = "list" /\ call.id # None,
             call.op = "setDefault" => call.pc = "pin" /\ call.id # None,
             call.op = "deprecate" => call.pc = "readPrev" /\ call.id = None /\ call.prev # None
      PROVE  Typed'
  <2> DEFINE route == rows[IF call.id # None THEN call.id ELSE call.prev].route
  <2>1. route \in Routes
    <3>1. CASE call.id # None
      BY <3>1 DEF Typed, TypeOK, Request, Row
    <3>2. CASE call.id = None
      BY <3>2, <1>6 DEF Typed, TypeOK, Request, Row
    <3> QED BY <3>1, <3>2
  <2>2. Overlaps(call.op, route) \subseteq Mishaps
    BY <2>1 DEF Overlaps, Mishaps
  <2>3. mishaps' \subseteq Mishaps
    BY <2>2, <1>6 DEF Begin, Typed, TypeOK, Mishaps
  <2> QED BY <1>6, <2>3, OneMoves DEF Begin, Typed, TypeOK, Exists
<1>7. ASSUME NEW r \in Requests, NEW d \in Definitions, Call(r, d)
      PROVE  Typed'
  <2>1. CASE Publish(r, d)
    <3>1. PICK stamped \in {None, rows[d].graph} :
            Begin(r, [Idle EXCEPT !.op = "publish", !.pc = "list", !.id = d, !.stamped = stamped])
      BY <2>1 DEF Publish
    <3> DEFINE call == [Idle EXCEPT !.op = "publish", !.pc = "list", !.id = d, !.stamped = stamped]
    <3>2. stamped \in Graphs \cup {None}
      BY DEF Typed, TypeOK, Row
    <3>3. call \in Request
      BY <3>2, VersionsAssumption DEF Idle, Request, Row, NoRow
    <3>4. call.op = "publish" /\ call.pc = "list" /\ call.id = d /\ call.prev = None
      BY DEF Idle
    <3>5. Exists(d)
      BY <2>1 DEF Publish, Exists
    <3> HIDE DEF call
    <3>6. Begin(r, call)
      BY <3>1 DEF call
    <3> QED BY <1>6, <3>3, <3>4, <3>5, <3>6, VersionsAssumption
  <2>2. CASE Deprecate(r, d)
    <3> DEFINE call == [Idle EXCEPT !.op = "deprecate", !.pc = "readPrev", !.prev = d]
    <3>1. call \in Request
      BY VersionsAssumption DEF Idle, Request, Row, NoRow
    <3>2. call.op = "deprecate" /\ call.pc = "readPrev" /\ call.id = None /\ call.prev = d
      BY DEF Idle
    <3>3. Exists(d)
      BY <2>2 DEF Deprecate, Exists
    <3>4. Begin(r, call)
      BY <2>2 DEF Deprecate
    <3> HIDE DEF call
    <3> QED BY <1>6, <3>1, <3>2, <3>3, <3>4, VersionsAssumption
  <2>3. CASE SetDefaultDefinition(r, d)
    <3> DEFINE call == [Idle EXCEPT !.op = "setDefault", !.pc = "pin", !.id = d]
    <3>1. call \in Request
      BY VersionsAssumption DEF Idle, Request, Row, NoRow
    <3>2. call.op = "setDefault" /\ call.pc = "pin" /\ call.id = d /\ call.prev = None
      BY DEF Idle
    <3>3. Exists(d)
      BY <2>3 DEF SetDefaultDefinition, Exists
    <3>4. Begin(r, call)
      BY <2>3 DEF SetDefaultDefinition
    <3> HIDE DEF call
    <3> QED BY <1>6, <3>1, <3>2, <3>3, <3>4, VersionsAssumption
  <2> QED BY <1>7, <2>1, <2>2, <2>3 DEF Call
<1>8. ASSUME NEW r \in Requests, NEW call \in Request, req' = [req EXCEPT ![r] = call],
             UNCHANGED <<rows, statuses, pin, cases, offered>>, mishaps' \subseteq Mishaps,
             call.op = req[r].op, call.id = req[r].id,
             call.prev # None => Exists(call.prev),
             call.pc \in {"readPrev", "writePrev"} => call.prev # None,
             call.pc \in {"list", "readTarget", "writeTarget", "decide"} => call.op = "publish",
             call.op = "setDefault" => call.pc = "pin",
             call.op = "deprecate" => call.pc \in {"readPrev", "writePrev"},
             call.op # "none"
      PROVE  Typed'
  <2>1. /\ call.id # None => Exists(call.id)
        /\ call.op \in {"publish", "setDefault"} => call.id # None
        /\ call.op = "deprecate" => call.id = None /\ call.prev # None
    BY <1>8 DEF Typed, TypeOK, Staged
  <2>2. call.op \in {"publish", "deprecate", "setDefault"}
    BY <1>8 DEF Request
  <2> QED BY <1>8, <2>1, <2>2, OneMoves DEF Typed, TypeOK, Exists, Mishaps
<1>9. ASSUME NEW r \in Requests, ListActive(r)
      PROVE  Typed'
  <2>1. req[r] \in Request /\ req[r].op = "publish"
    BY <1>9 DEF Typed, TypeOK, Staged, ListActive
  <2>4. mishaps' \subseteq Mishaps
    BY <1>9, <2>1, RouteOfRequest DEF ListActive, Typed, TypeOK, Mishaps
  <2>2. CASE req' = [req EXCEPT ![r].pc = "readTarget"]
    <3>1. req' = [req EXCEPT ![r] = [req[r] EXCEPT !.pc = "readTarget"]]
      BY <2>2, <2>1 DEF Typed, TypeOK
    <3>2. /\ [req[r] EXCEPT !.pc = "readTarget"] \in Request
          /\ req[r].prev # None => Exists(req[r].prev)
      BY <2>1 DEF Request, Typed, TypeOK
    <3> QED BY <1>8, <1>9, <2>1, <2>4, <3>1, <3>2 DEF ListActive, Request
  <2>3. ASSUME NEW prev \in Definitions, rows[prev].life = "published",
               req' = [req EXCEPT ![r].pc = "readPrev", ![r].prev = prev]
        PROVE  Typed'
    <3> DEFINE call == [req[r] EXCEPT !.pc = "readPrev", !.prev = prev]
    <3>1. req' = [req EXCEPT ![r] = call]
      BY <2>3, <2>1 DEF Typed, TypeOK
    <3>2. /\ call \in Request
          /\ call.op = req[r].op /\ call.id = req[r].id /\ call.pc = "readPrev" /\ call.prev = prev
      BY <2>1 DEF Request
    <3>3. prev # None /\ Exists(prev)
      BY <2>3, VersionsAssumption DEF Exists
    <3> HIDE DEF call
    <3> QED BY <1>8, <1>9, <2>1, <2>4, <3>1, <3>2, <3>3 DEF ListActive
  <2> QED BY <1>9, <2>2, <2>3 DEF ListActive, Active
<1>10. ASSUME NEW r \in Requests, Read(r)
       PROVE  Typed'
  <2>1. req[r] \in Request /\ \A d \in Definitions : rows[d] \in Row
    BY DEF Typed, TypeOK
  <2>2. ASSUME NEW pc \in {"writePrev", "writeTarget"}, NEW d \in Definitions,
               req' = [req EXCEPT ![r].pc = pc, ![r].held = rows[d]],
               pc = "writePrev" => req[r].pc = "readPrev",
               pc = "writeTarget" => req[r].pc = "readTarget"
        PROVE  Typed'
    <3>1. req' = [req EXCEPT ![r] = [req[r] EXCEPT !.pc = pc, !.held = rows[d]]]
      BY <2>2, <2>1 DEF Typed, TypeOK
    <3>2. [req[r] EXCEPT !.pc = pc, !.held = rows[d]] \in Request
      BY <2>1 DEF Request
    <3>3. /\ req[r].op # "none"
          /\ req[r].prev # None => Exists(req[r].prev)
          /\ pc = "writePrev" => req[r].prev # None
          /\ pc = "writeTarget" => req[r].op = "publish"
          /\ req[r].op # "setDefault"
          /\ req[r].op = "deprecate" => pc = "writePrev"
      BY <2>2 DEF Typed, TypeOK, Staged
    <3>4. mishaps' \subseteq Mishaps
      BY <1>10 DEF Read, Typed, TypeOK, Mishaps
    <3> QED BY <1>8, <1>10, <2>1, <3>1, <3>2, <3>3, <3>4 DEF Read, Request
  <2>3. CASE req[r].pc = "readPrev"
    <3>1. req[r].prev \in Definitions
      BY <2>1, <2>3 DEF Typed, TypeOK, Request
    <3> QED BY <1>10, <2>2, <2>3, <3>1 DEF Read
  <2>4. CASE req[r].pc = "readTarget"
    <3>1. req[r].id \in Definitions
      BY <2>1, <2>4 DEF Typed, TypeOK, Request, Staged
    <3> QED BY <1>10, <2>2, <2>4, <3>1 DEF Read
  <2> QED BY <1>10, <2>3, <2>4 DEF Read
<1>11. ASSUME NEW r \in Requests, NEW call \in {Idle, [Idle EXCEPT !.op = "publish", !.pc = "decide", !.id = req[r].id]},
              req' = [req EXCEPT ![r] = call],
              req[r].op # "none",
              call = Idle \/ req[r].id # None,
              UNCHANGED <<statuses, cases>>,
              rows' \in [Definitions -> Row],
              \A d \in Definitions : Exists(d) => Exists(d)',
              pin' \in {pin, req[r].id}, req[r].id = None => pin' = pin,
              offered' \subseteq Routes,
              mishaps' \subseteq Mishaps
       PROVE  Typed'
  <2>1. req[r] \in Request /\ (req[r].id # None => Exists(req[r].id))
    BY DEF Typed, TypeOK
  <2>2. ASSUME call = Idle
        PROVE  call \in Request /\ call.op = "none" /\ call.pc = "idle" /\ call.id = None /\ call.prev = None
    <3>1. Idle \in Request
      BY VersionsAssumption DEF Idle, Request, Row, NoRow
    <3>2. Idle.op = "none" /\ Idle.pc = "idle" /\ Idle.id = None /\ Idle.prev = None
      BY DEF Idle
    <3> QED BY <2>2, <3>1, <3>2
  <2>3. ASSUME call # Idle
        PROVE  /\ call \in Request /\ call.op = "publish" /\ call.pc = "decide"
               /\ call.id = req[r].id /\ req[r].id # None /\ call.prev = None
    <3>1. call = [Idle EXCEPT !.op = "publish", !.pc = "decide", !.id = req[r].id] /\ req[r].id # None
      BY <1>11, <2>3
    <3>2. [Idle EXCEPT !.op = "publish", !.pc = "decide", !.id = req[r].id] \in Request
      BY <2>1, VersionsAssumption DEF Idle, Request, Row, NoRow
    <3>3. call.op = "publish" /\ call.pc = "decide" /\ call.id = req[r].id /\ call.prev = None
      BY <3>1 DEF Idle
    <3> QED BY <3>1, <3>2, <3>3
  <2>4. pin' \in Definitions \cup {None} /\ (pin' # None => Exists(pin'))
    <3>1. CASE pin' = pin
      BY <3>1 DEF Typed, TypeOK
    <3>2. CASE pin' = req[r].id /\ req[r].id # None
      BY <3>2, <2>1 DEF Request
    <3> QED BY <1>11, <3>1, <3>2
  <2>5. (pin # None => Exists(pin))'
    BY <1>11, <2>4 DEF Exists
  <2> QED BY <1>11, <2>1, <2>2, <2>3, <2>4, <2>5, OneMoves
<1>12. ASSUME NEW r \in Requests, Decide(r)
       PROVE  Typed'
  <2>1. req[r] \in Request /\ req[r].op = "publish"
    BY <1>12 DEF Typed, TypeOK, Staged, Decide
  <2>4. mishaps' \subseteq Mishaps
    BY <1>12, <2>1, RouteOfRequest DEF Decide, Typed, TypeOK, Mishaps
  <2>2. CASE req' = [req EXCEPT ![r] = Idle]
    BY <1>11, <1>12, <2>1, <2>2, <2>4 DEF Decide, Typed, TypeOK, Exists
  <2>3. CASE req' = [req EXCEPT ![r].pc = "pin"]
    <3> DEFINE call == [req[r] EXCEPT !.pc = "pin"]
    <3>1. req' = [req EXCEPT ![r] = call]
      BY <2>3, <2>1 DEF Typed, TypeOK
    <3>2. /\ call \in Request
          /\ call.op = req[r].op /\ call.id = req[r].id /\ call.pc = "pin" /\ call.prev = req[r].prev
      BY <2>1 DEF Request
    <3>3. call.prev # None => Exists(call.prev)
      BY <3>2 DEF Typed, TypeOK
    <3> HIDE DEF call
    <3> QED BY <1>8, <1>12, <2>1, <2>4, <3>1, <3>2, <3>3 DEF Decide
  <2> QED BY <1>12, <2>2, <2>3 DEF Decide
<1>13. ASSUME NEW r \in Requests, PinDefinition(r)
       PROVE  Typed'
  <2> DEFINE raced == AboutToPin \ {r}
  <2>1. req[r].pc = "pin" /\ pin' = req[r].id /\ req' = [req EXCEPT ![r] = Idle]
        /\ UNCHANGED <<rows, statuses, cases, offered>>
    BY <1>13 DEF PinDefinition
  <2>2. mishaps' = mishaps \cup {<<"raced", RouteOf(q)>> : q \in raced}
    BY <1>13 DEF PinDefinition
  <2>3. mishaps' \subseteq Mishaps
    <3>1. raced \subseteq Requests /\ \A q \in raced : req[q].op # "none"
      BY DEF AboutToPin
    <3> HIDE DEF raced
    <3> QED BY <2>2, <3>1, MishapsTyped
  <2>4. req[r].op \in {"publish", "setDefault"} /\ req[r].id # None
    BY <2>1 DEF Typed, TypeOK, Staged, Request
  <2> QED BY <1>11, <2>1, <2>3, <2>4 DEF Typed, TypeOK, Exists
<1>14. ASSUME NEW r \in Requests, CutShort(r)
       PROVE  Typed'
  <2>1. req[r].op # "none" /\ req' = [req EXCEPT ![r] = Idle]
        /\ UNCHANGED <<rows, statuses, pin, cases, offered>>
    BY <1>14 DEF CutShort
  <2>2. mishaps' \subseteq Mishaps
    BY <1>14, <2>1, RouteOfRequest DEF CutShort, Typed, TypeOK, Mishaps
  <2> QED BY <1>11, <2>1, <2>2 DEF Typed, TypeOK, Exists
<1>15. ASSUME NEW r \in Requests, WritePrev(r)
       PROVE  Typed'
  <2>1. /\ req[r] \in Request /\ req[r].op # "none"
        /\ req[r].prev \in Definitions /\ Exists(req[r].prev)
    BY <1>15 DEF WritePrev, Typed, TypeOK, Staged, Request
  <2>2. [req[r].held EXCEPT !.life = "deprecated"] \in Row
    BY <2>1 DEF Request, Row
  <2>3. rows' \in [Definitions -> Row] /\ \A d \in Definitions : Exists(d) => Exists(d)'
    BY <1>15, <2>1, <2>2 DEF WritePrev, Typed, TypeOK, Exists, Request, Row
  <2>4. CASE req[r].op # "publish"
    BY <1>11, <1>15, <2>1, <2>3, <2>4 DEF WritePrev, Typed, TypeOK, Mishaps
  <2>5. CASE req[r].op = "publish"
    <3> DEFINE call == [req[r] EXCEPT !.pc = "readTarget", !.held = NoRow]
    <3>1. /\ req' = [req EXCEPT ![r] = call]
          /\ UNCHANGED <<statuses, pin, cases, offered, mishaps>>
      BY <1>15, <2>1, <2>5 DEF WritePrev, Typed, TypeOK
    <3>2. /\ call \in Request
          /\ call.op = "publish" /\ call.id = req[r].id /\ call.pc = "readTarget" /\ call.prev = req[r].prev
      BY <2>1, <2>5, VersionsAssumption DEF Request, NoRow, Row
    <3>3. req[r].id # None /\ Exists(req[r].id)
      BY <2>5 DEF Typed, TypeOK
    <3>4. (pin # None => Exists(pin))'
      BY <2>3, <3>1 DEF Typed, TypeOK, Exists
    <3> HIDE DEF call
    <3> QED BY OneMoves, <2>1, <2>3, <3>1, <3>2, <3>3, <3>4 DEF Typed, TypeOK, Mishaps
  <2> QED BY <2>4, <2>5
<1>16. ASSUME NEW r \in Requests, WriteTarget(r)
       PROVE  Typed'
  <2>1. req[r] \in Request /\ req[r].op = "publish" /\ req[r].id \in Definitions /\ Exists(req[r].id)
    BY <1>16 DEF WriteTarget, Typed, TypeOK, Staged, Request
  <2> DEFINE graph == IF req[r].stamped # None THEN req[r].stamped ELSE req[r].held.graph
             row == [req[r].held EXCEPT !.life = "published", !.graph = graph]
  <2>2. graph \in Graphs
    BY <2>1 DEF Request, Row
  <2>3. row \in Row /\ row.life = "published"
    BY <2>1, <2>2 DEF Request, Row
  <2>4. rows' = [rows EXCEPT ![req[r].id] = row]
    BY <1>16 DEF WriteTarget
  <2> HIDE DEF row, graph
  <2>5. rows' \in [Definitions -> Row] /\ \A d \in Definitions : Exists(d) => Exists(d)'
    BY <2>1, <2>3, <2>4 DEF Typed, TypeOK, Exists
  <2>6. offered' \subseteq Routes
    BY <1>16, <2>1, RouteOfRequest DEF WriteTarget, Typed, TypeOK
  <2> QED BY <1>11, <1>16, <2>1, <2>5, <2>6 DEF WriteTarget, Typed, TypeOK, Mishaps
<1>17. CASE UNCHANGED backend
  BY <1>17, RowsMove DEF backend, Typed, TypeOK, Mishaps, Exists
<1>18. CASE CaseTypeSaved
  <2>1. PICK loaded \in {None} \cup {d \in Definitions : rows[d].life \in {"published", "deprecated"}} :
          /\ pin' = loaded
          /\ mishaps' = mishaps \cup {<<"raced", RouteOf(r)>> : r \in AboutToPin}
               \cup (IF loaded = None \/ loaded \in Published THEN {}
                     ELSE {<<"repinned", rows[loaded].route>>})
    BY <1>18 DEF CaseTypeSaved
  <2>2. /\ pin' \in Definitions \cup {None} /\ (pin' # None => rows[pin'].life # "none")
        /\ UNCHANGED <<rows, statuses, cases, req, offered>>
    BY <1>18, <2>1 DEF CaseTypeSaved
  <2>3. mishaps \cup {<<"raced", RouteOf(r)>> : r \in AboutToPin} \subseteq Mishaps
    BY MishapsTyped DEF AboutToPin
  <2>4. mishaps' \subseteq Mishaps
    BY <2>1, <2>3 DEF Typed, TypeOK, Row, Mishaps
  <2>5. ASSUME NEW r \in Requests
        PROVE  /\ req[r].id # None => rows'[req[r].id].life # "none"
               /\ req[r].prev # None => rows'[req[r].prev].life # "none"
    BY <2>2 DEF Typed, TypeOK, Exists
  <2>6. TypeOK'
    BY <2>2, <2>4, <2>5 DEF Typed, TypeOK, Mishaps, Exists
  <2> QED BY <2>2, <2>6 DEF Typed, Staged
<1> QED
  BY <1>1, <1>2, <1>3, <1>4, <1>5, <1>7, <1>9, <1>10, <1>12, <1>13, <1>14, <1>15, <1>16, <1>17, <1>18
     DEF Next, Seed, Edit, Step
------------------------------------------------------------------------------
(* Rows never go and never change their route; a version becomes active    *)
(* only as the target of a publish; nothing that went wrong is forgotten.  *)
LEMMA RowsStay ==
  ASSUME Typed, Placed, [Next]_backend
  PROVE  /\ \A d \in Definitions : Exists(d) => Exists(d)' /\ rows'[d].route = rows[d].route
         /\ \A d \in Definitions : rows'[d].life = "published" =>
              \/ rows[d].life = "published"
              \/ \E r \in Requests : WriteTarget(r) /\ d = req[r].id
         /\ mishaps \subseteq mishaps'
<1> USE DEF Exists
<1>1. ASSUME NEW d \in Definitions, NEW route \in Routes, NEW graph \in Graphs,
             CreateDraft(d, route, graph)
      PROVE  /\ \A e \in Definitions : Exists(e) => Exists(e)' /\ rows'[e].route = rows[e].route
             /\ \A e \in Definitions : rows'[e].life = "published" => rows[e].life = "published"
             /\ mishaps \subseteq mishaps'
  BY <1>1 DEF CreateDraft, Draft, Typed, TypeOK
<1>2. ASSUME NEW d \in Definitions, NEW source \in Definitions, CloneDefinition(d, source)
      PROVE  /\ \A e \in Definitions : Exists(e) => Exists(e)' /\ rows'[e].route = rows[e].route
             /\ \A e \in Definitions : rows'[e].life = "published" => rows[e].life = "published"
             /\ mishaps \subseteq mishaps'
  BY <1>2 DEF CloneDefinition, CreateDraft, Draft, Typed, TypeOK
<1>3. ASSUME NEW d \in Definitions, NEW graph \in Graphs, EditorSaves(d, graph)
      PROVE  /\ \A e \in Definitions : Exists(e) => Exists(e)' /\ rows'[e].route = rows[e].route
             /\ \A e \in Definitions : rows'[e].life = "published" => rows[e].life = "published"
             /\ mishaps \subseteq mishaps'
  BY <1>3 DEF EditorSaves, Draft, Typed, TypeOK
<1>4. ASSUME NEW r \in Requests, WritePrev(r)
      PROVE  /\ \A e \in Definitions : Exists(e) => Exists(e)' /\ rows'[e].route = rows[e].route
             /\ \A e \in Definitions : rows'[e].life = "published" => rows[e].life = "published"
             /\ mishaps \subseteq mishaps'
  <2>1. req[r] \in Request /\ req[r].held.route = rows[req[r].prev].route
    BY <1>4 DEF WritePrev, Typed, TypeOK, Placed
  <2>2. /\ [req[r].held EXCEPT !.life = "deprecated"].life = "deprecated"
        /\ [req[r].held EXCEPT !.life = "deprecated"].route = rows[req[r].prev].route
    BY <2>1 DEF Request, Row
  <2> QED BY <1>4, <2>2 DEF WritePrev, Typed, TypeOK
<1>5. ASSUME NEW r \in Requests, WriteTarget(r)
      PROVE  /\ \A e \in Definitions : Exists(e) => Exists(e)' /\ rows'[e].route = rows[e].route
             /\ \A e \in Definitions : rows'[e].life = "published" =>
                  rows[e].life = "published" \/ e = req[r].id
             /\ mishaps \subseteq mishaps'
  <2> DEFINE graph == IF req[r].stamped # None THEN req[r].stamped ELSE req[r].held.graph
             row == [req[r].held EXCEPT !.life = "published", !.graph = graph]
  <2>1. req[r] \in Request /\ req[r].held.route = rows[req[r].id].route
    BY <1>5 DEF WriteTarget, Typed, TypeOK, Placed
  <2>2. row.life = "published" /\ row.route = rows[req[r].id].route
    BY <2>1 DEF Request, Row
  <2>3. rows' = [rows EXCEPT ![req[r].id] = row] /\ UNCHANGED mishaps
    BY <1>5 DEF WriteTarget
  <2> HIDE DEF row, graph
  <2> QED BY <2>2, <2>3 DEF Typed, TypeOK
<1>6. CASE UNCHANGED rows /\ mishaps \subseteq mishaps'
  BY <1>6
<1>7. ASSUME NEW r \in Requests, NEW d \in Definitions, Call(r, d)
      PROVE  UNCHANGED rows /\ mishaps \subseteq mishaps'
  BY <1>7 DEF Call, Publish, Deprecate, SetDefaultDefinition, Begin
<1>8. ASSUME NEW r \in Requests,
             ListActive(r) \/ Read(r) \/ Decide(r) \/ PinDefinition(r) \/ CutShort(r)
      PROVE  UNCHANGED rows /\ mishaps \subseteq mishaps'
  BY <1>8 DEF ListActive, Read, Decide, PinDefinition, CutShort
<1>9. ASSUME NEW s \in statuses, DeleteStatus(s)
      PROVE  UNCHANGED rows /\ mishaps \subseteq mishaps'
  BY <1>9 DEF DeleteStatus
<1>10. CASE StartCase \/ CaseTypeSaved \/ UNCHANGED backend
  BY <1>10 DEF StartCase, CaseTypeSaved, backend
<1> QED
  BY <1>1, <1>2, <1>3, <1>4, <1>5, <1>6, <1>7, <1>8, <1>9, <1>10 DEF Next, Seed, Edit, Step

(* A request works on one version of one route from beginning to end. *)
LEMMA RequestStays ==
  ASSUME Typed, Placed, [Next]_backend, NEW r \in Requests,
         req[r].op # "none", req'[r].op # "none"
  PROVE  /\ req'[r].op = req[r].op /\ req'[r].id = req[r].id
         /\ RouteOf(r)' = RouteOf(r)
<1>1. req'[r].op = req[r].op /\ req'[r].id = req[r].id /\ (req[r].id = None => req'[r].prev = req[r].prev)
  <2>1. CASE UNCHANGED req
    BY <2>1
  <2>2. ASSUME NEW q \in Requests, NEW d \in Definitions, Call(q, d)
        PROVE  req'[r] = req[r]
    <3>1. q # r
      BY <2>2 DEF Call, Publish, Deprecate, SetDefaultDefinition, Idle
    <3> QED BY <2>2, <3>1 DEF Call, Publish, Deprecate, SetDefaultDefinition, Begin, Typed, TypeOK
  <2>3. ASSUME NEW q \in Requests \ {r}, Step(q)
        PROVE  req'[r] = req[r]
    BY <2>3 DEF Step, ListActive, Read, WritePrev, WriteTarget, Decide, PinDefinition, CutShort, Typed, TypeOK
  <2>4. CASE Step(r)
    <3>1. /\ Idle.op = "none" /\ req[r] \in Request
          /\ req[r].op = "publish" => req[r].id # None
      BY DEF Idle, Typed, TypeOK
    <3>2. CASE ListActive(r)
      BY <3>1, <3>2 DEF ListActive, Typed, TypeOK, Staged, Request
    <3>3. CASE Read(r)
      <4>1. CASE req[r].pc = "readPrev"
        BY <3>1, <3>3, <4>1 DEF Read, Typed, TypeOK, Request
      <4>2. CASE req[r].pc = "readTarget"
        BY <3>1, <3>3, <4>2 DEF Read, Typed, TypeOK, Request
      <4> QED BY <3>3, <4>1, <4>2 DEF Read
    <3>4. CASE WritePrev(r)
      BY <3>1, <3>4 DEF WritePrev, Typed, TypeOK, Request
    <3>5. CASE WriteTarget(r)
      <4>1. req'[r] = [Idle EXCEPT !.op = "publish", !.pc = "decide", !.id = req[r].id]
        BY <3>5 DEF WriteTarget, Typed, TypeOK
      <4>2. req[r].op = "publish"
        BY <3>5 DEF WriteTarget, Typed, Staged
      <4> QED BY <3>1, <4>1, <4>2 DEF Idle
    <3>6. CASE Decide(r)
      <4>1. req' = [req EXCEPT ![r].pc = "pin"]
        BY <3>1, <3>6 DEF Decide, Typed, TypeOK
      <4> QED BY <3>1, <4>1 DEF Typed, TypeOK, Request
    <3>7. CASE PinDefinition(r) \/ CutShort(r)
      BY <3>1, <3>7 DEF PinDefinition, CutShort, Typed, TypeOK
    <3> QED BY <2>4, <3>2, <3>3, <3>4, <3>5, <3>6, <3>7 DEF Step
  <2>5. CASE Seed \/ Edit \/ StartCase \/ CaseTypeSaved \/ UNCHANGED backend
    BY <2>5 DEF Seed, Edit, StartCase, CaseTypeSaved, backend, CreateDraft, CloneDefinition, EditorSaves, DeleteStatus
  <2> QED BY <2>1, <2>2, <2>3, <2>4, <2>5 DEF Next
<1>2. CASE req[r].id # None
  <2>1. req[r].id \in Definitions /\ Exists(req[r].id)
    BY <1>2 DEF Typed, TypeOK, Request
  <2> QED BY <1>1, <1>2, <2>1, RowsStay DEF RouteOf
<1>3. CASE req[r].id = None
  <2>1. req[r].prev \in Definitions /\ Exists(req[r].prev)
    BY <1>3 DEF Typed, TypeOK, Staged, Request
  <2> QED BY <1>1, <1>3, <2>1, RowsStay DEF RouteOf
<1> QED BY <1>1, <1>2, <1>3

(* A new request is the only one that moves, and notes whom it overlaps.   *)
LEMMA RequestBegins ==
  ASSUME Typed, [Next]_backend, NEW r \in Requests, req[r].op = "none", req'[r].op # "none"
  PROVE  /\ \E d \in Definitions : Call(r, d)
         /\ req'[r].pc \in {"list", "readPrev", "pin"}
         /\ req'[r].op = "publish" => req'[r].pc = "list"
         /\ req'[r].id = None \/ req'[r].prev = None
         /\ UNCHANGED <<rows, pin, offered>>
         /\ \A q \in Requests \ {r} : req'[q] = req[q]
         /\ BusyOn(RouteOf(r)') # {} => <<"overlap", RouteOf(r)'>> \in mishaps'
<1>1. PICK d \in Definitions : Call(r, d)
  <2>1. CASE UNCHANGED req
    BY <2>1
  <2>2. ASSUME NEW q \in Requests \ {r}, NEW d \in Definitions, Call(q, d)
        PROVE  req'[r] = req[r]
    BY <2>2 DEF Call, Publish, Deprecate, SetDefaultDefinition, Begin, Typed, TypeOK
  <2>3. ASSUME NEW q \in Requests \ {r}, Step(q)
        PROVE  req'[r] = req[r]
    BY <2>3 DEF Step, ListActive, Read, WritePrev, WriteTarget, Decide, PinDefinition, CutShort, Typed, TypeOK
  <2>4. ~Step(r)
    BY DEF Step, ListActive, Read, WritePrev, WriteTarget, Decide, PinDefinition, CutShort, Typed, Staged
  <2>5. CASE Seed \/ Edit \/ StartCase \/ CaseTypeSaved \/ UNCHANGED backend
    BY <2>5 DEF Seed, Edit, StartCase, CaseTypeSaved, backend, CreateDraft, CloneDefinition, EditorSaves, DeleteStatus
  <2> QED BY <2>1, <2>2, <2>3, <2>4, <2>5 DEF Next
<1>2. ASSUME NEW call \in Request, Begin(r, call),
             call.op = "publish" => call.pc = "list",
             call.pc \in {"list", "readPrev", "pin"}, call.id = None \/ call.prev = None
      PROVE  /\ req'[r].pc \in {"list", "readPrev", "pin"}
             /\ req'[r].op = "publish" => req'[r].pc = "list"
             /\ req'[r].id = None \/ req'[r].prev = None
             /\ UNCHANGED <<rows, pin, offered>>
             /\ \A q \in Requests \ {r} : req'[q] = req[q]
             /\ BusyOn(RouteOf(r)') # {} => <<"overlap", RouteOf(r)'>> \in mishaps'
  <2>1. req'[r] = call /\ \A q \in Requests \ {r} : req'[q] = req[q]
    BY <1>2 DEF Begin, Typed, TypeOK
  <2>2. UNCHANGED <<rows, pin, offered>>
    BY <1>2 DEF Begin
  <2>3. RouteOf(r)' = rows[IF call.id # None THEN call.id ELSE call.prev].route
    BY <2>1, <2>2 DEF RouteOf
  <2> QED BY <1>2, <2>1, <2>2, <2>3 DEF Begin, Overlaps
<1>3. CASE Publish(r, d)
  <2>1. PICK stamped \in {None, rows[d].graph} :
          Begin(r, [Idle EXCEPT !.op = "publish", !.pc = "list", !.id = d, !.stamped = stamped])
    BY <1>3 DEF Publish
  <2> DEFINE call == [Idle EXCEPT !.op = "publish", !.pc = "list", !.id = d, !.stamped = stamped]
  <2>2. stamped \in Graphs \cup {None}
    BY DEF Typed, TypeOK, Row
  <2>3. call \in Request /\ call.pc = "list" /\ call.prev = None
    BY <2>2, VersionsAssumption DEF Idle, Request, Row, NoRow
  <2> HIDE DEF call
  <2>4. Begin(r, call)
    BY <2>1 DEF call
  <2> QED BY <1>1, <1>2, <2>3, <2>4
<1>4. CASE Deprecate(r, d)
  <2> DEFINE call == [Idle EXCEPT !.op = "deprecate", !.pc = "readPrev", !.prev = d]
  <2>1. call \in Request /\ call.op = "deprecate" /\ call.pc = "readPrev" /\ call.id = None
    BY VersionsAssumption DEF Idle, Request, Row, NoRow
  <2>2. Begin(r, call)
    BY <1>4 DEF Deprecate
  <2> HIDE DEF call
  <2> QED BY <1>1, <1>2, <2>1, <2>2
<1>5. CASE SetDefaultDefinition(r, d)
  <2> DEFINE call == [Idle EXCEPT !.op = "setDefault", !.pc = "pin", !.id = d]
  <2>1. call \in Request /\ call.op = "setDefault" /\ call.pc = "pin" /\ call.prev = None
    BY VersionsAssumption DEF Idle, Request, Row, NoRow
  <2>2. Begin(r, call)
    BY <1>5 DEF SetDefaultDefinition
  <2> HIDE DEF call
  <2> QED BY <1>1, <1>2, <2>1, <2>2
<1> QED BY <1>1, <1>3, <1>4, <1>5 DEF Call

(* Requests on one route that were under way together are on record.       *)
LEMMA AloneKept == Typed /\ Placed /\ Alone /\ [Next]_backend => Alone'
<1> SUFFICES ASSUME Typed, Placed, Alone, [Next]_backend,
                    NEW r \in Requests, NEW q \in Requests, r # q,
                    req'[r].op # "none", req'[q].op # "none", RouteOf(r)' = RouteOf(q)'
             PROVE  <<"overlap", RouteOf(r)'>> \in mishaps'
  BY DEF Alone, Overlapped
<1>1. ASSUME NEW a \in Requests, NEW b \in Requests, a # b,
             req'[a].op # "none", req'[b].op # "none", RouteOf(a)' = RouteOf(b)', req[a].op = "none"
      PROVE  <<"overlap", RouteOf(a)'>> \in mishaps'
  <2>1. req'[b] = req[b]
    BY <1>1, RequestBegins
  <2>2. RouteOf(b)' = RouteOf(b)
    BY <1>1, <2>1, RequestStays
  <2>3. b \in BusyOn(RouteOf(a)')
    BY <1>1, <2>1, <2>2 DEF BusyOn
  <2> QED BY <1>1, <2>3, RequestBegins
<1>2. CASE req[r].op # "none" /\ req[q].op # "none"
  <2>1. RouteOf(r)' = RouteOf(r) /\ RouteOf(q)' = RouteOf(q)
    BY <1>2, RequestStays
  <2> QED BY <1>2, <2>1, RowsStay DEF Alone, Overlapped
<1> QED BY <1>1, <1>2

(* A request moves by a call, by a step of its own, or not at all. *)
LEMMA WhoMoves ==
  ASSUME Typed, [Next]_backend, NEW r \in Requests
  PROVE  \/ req'[r] = req[r]
         \/ req[r].op = "none" /\ req'[r].op # "none"
         \/ Step(r)
<1>1. ASSUME NEW q \in Requests \ {r}, NEW d \in Definitions, Call(q, d)
      PROVE  req'[r] = req[r]
  BY <1>1 DEF Call, Publish, Deprecate, SetDefaultDefinition, Begin, Typed, TypeOK
<1>2. ASSUME NEW q \in Requests \ {r}, Step(q)
      PROVE  req'[r] = req[r]
  BY <1>2 DEF Step, ListActive, Read, WritePrev, WriteTarget, Decide, PinDefinition, CutShort, Typed, TypeOK
<1>3. ASSUME NEW d \in Definitions, Call(r, d)
      PROVE  req[r].op = "none" /\ req'[r].op # "none"
  <2>1. req[r] = Idle
    BY <1>3 DEF Call, Publish, Deprecate, SetDefaultDefinition
  <2>2. CASE Publish(r, d)
    <3>1. PICK stamped \in {None, rows[d].graph} :
            Begin(r, [Idle EXCEPT !.op = "publish", !.pc = "list", !.id = d, !.stamped = stamped])
      BY <2>2 DEF Publish
    <3> DEFINE call == [Idle EXCEPT !.op = "publish", !.pc = "list", !.id = d, !.stamped = stamped]
    <3>2. call.op = "publish" /\ Idle.op = "none"
      BY DEF Idle
    <3>3. req' = [req EXCEPT ![r] = call]
      BY <3>1 DEF Begin
    <3> HIDE DEF call
    <3>4. req'[r] = call
      BY <3>3 DEF Typed, TypeOK
    <3> QED BY <2>1, <3>2, <3>4
  <2>3. CASE Deprecate(r, d)
    BY <2>1, <2>3 DEF Deprecate, Begin, Idle, Typed, TypeOK
  <2>4. CASE SetDefaultDefinition(r, d)
    BY <2>1, <2>4 DEF SetDefaultDefinition, Begin, Idle, Typed, TypeOK
  <2> QED BY <1>3, <2>1, <2>2, <2>3, <2>4 DEF Call
<1>4. CASE Seed \/ Edit \/ StartCase \/ CaseTypeSaved \/ UNCHANGED backend
  BY <1>4 DEF Seed, Edit, StartCase, CaseTypeSaved, backend, CreateDraft, CloneDefinition, EditorSaves, DeleteStatus
<1> QED BY <1>1, <1>2, <1>3, <1>4 DEF Next

(* What the steps of a request that goes on make of it. *)
LEMMA HowItMoves ==
  ASSUME Typed, Placed, [Next]_backend, NEW r \in Requests, Step(r), req'[r].op # "none"
  PROVE  \/ /\ ListActive(r) /\ UNCHANGED rows
            /\ \/ /\ req'[r].pc = "readTarget" /\ req'[r].prev = req[r].prev
                  /\ \/ Active(RouteOf(r)) = {} \/ req[r].id \in Active(RouteOf(r))
                     \/ <<"unlisted", RouteOf(r)>> \in mishaps'
               \/ req'[r].pc = "readPrev" /\ req'[r].prev \in Active(RouteOf(r))
         \/ /\ Read(r) /\ UNCHANGED rows /\ req'[r].prev = req[r].prev
            /\ \/ /\ req[r].pc = "readPrev" /\ req'[r].pc = "writePrev"
                  /\ req'[r].held = rows[req[r].prev]
               \/ /\ req[r].pc = "readTarget" /\ req'[r].pc = "writeTarget"
                  /\ req'[r].held = rows[req[r].id]
         \/ /\ WritePrev(r) /\ req[r].op = "publish"
            /\ req'[r].pc = "readTarget" /\ req'[r].prev = req[r].prev
            /\ rows'[req[r].prev].life = "deprecated"
         \/ WriteTarget(r) /\ req'[r].pc = "decide" /\ req'[r].prev = None
         \/ /\ Decide(r) /\ UNCHANGED rows /\ req'[r].pc = "pin" /\ req'[r].prev = req[r].prev
            /\ \/ pin = None \/ rows[pin].route = RouteOf(r)
               \/ <<"misread", RouteOf(r)>> \in mishaps'
<1>1. Idle.op = "none" /\ req[r] \in Request
  BY DEF Idle, Typed, TypeOK
<1>2. CASE ListActive(r)
  <2>1. CASE /\ req' = [req EXCEPT ![r].pc = "readTarget"]
             /\ \/ Active(RouteOf(r)) = {} \/ req[r].id \in Active(RouteOf(r))
                \/ <<"unlisted", RouteOf(r)>> \in mishaps'
    <3>1. req'[r].pc = "readTarget" /\ req'[r].prev = req[r].prev
      BY <1>1, <2>1 DEF Typed, TypeOK, Request
    <3> QED BY <1>2, <2>1, <3>1 DEF ListActive
  <2>2. ASSUME NEW prev \in Active(RouteOf(r)), req' = [req EXCEPT ![r].pc = "readPrev", ![r].prev = prev]
        PROVE  req'[r].pc = "readPrev" /\ req'[r].prev = prev
    BY <1>1, <2>2 DEF Typed, TypeOK, Request
  <2>3. UNCHANGED rows
    BY <1>2 DEF ListActive
  <2> QED BY <1>2, <2>1, <2>2, <2>3 DEF ListActive
<1>3. CASE Read(r)
  <2>1. CASE req[r].pc = "readPrev"
    BY <1>1, <1>3, <2>1 DEF Read, Typed, TypeOK, Request
  <2>2. CASE req[r].pc = "readTarget"
    BY <1>1, <1>3, <2>2 DEF Read, Typed, TypeOK, Request
  <2> QED BY <1>3, <2>1, <2>2 DEF Read
<1>4. CASE WritePrev(r)
  <2>1. req[r].op = "publish"
    BY <1>1, <1>4 DEF WritePrev, Typed, TypeOK
  <2>2. req[r].prev \in Definitions
    BY <1>1, <1>4 DEF WritePrev, Typed, TypeOK, Request
  <2>3. rows'[req[r].prev].life = "deprecated"
    BY <1>1, <1>4, <2>2 DEF WritePrev, Typed, TypeOK, Request, Row
  <2>4. req'[r].pc = "readTarget" /\ req'[r].prev = req[r].prev
    BY <1>1, <1>4, <2>1 DEF WritePrev, Typed, TypeOK, Request
  <2> QED BY <1>4, <2>1, <2>3, <2>4
<1>5. CASE WriteTarget(r)
  <2>1. req'[r] = [Idle EXCEPT !.op = "publish", !.pc = "decide", !.id = req[r].id]
    BY <1>5 DEF WriteTarget, Typed, TypeOK
  <2> QED BY <1>5, <2>1 DEF Idle
<1>6. CASE Decide(r)
  <2>1. /\ req' = [req EXCEPT ![r].pc = "pin"]
        /\ \/ pin = None \/ rows[pin].route = RouteOf(r)
           \/ <<"misread", RouteOf(r)>> \in mishaps'
    BY <1>1, <1>6 DEF Decide, Typed, TypeOK
  <2> QED BY <1>1, <1>6, <2>1 DEF Decide, Typed, TypeOK, Request
<1>7. CASE PinDefinition(r) \/ CutShort(r)
  BY <1>1, <1>7 DEF PinDefinition, CutShort, Typed, TypeOK
<1> QED BY <1>2, <1>3, <1>4, <1>5, <1>6, <1>7 DEF Step

LEMMA PlacedKept == Typed /\ Placed /\ [Next]_backend => Placed'
<1> SUFFICES ASSUME Typed, Placed, [Next]_backend, NEW r \in Requests
             PROVE  /\ req'[r].pc = "writePrev" => req'[r].held.route = rows'[req'[r].prev].route
                    /\ req'[r].pc = "writeTarget" => req'[r].held.route = rows'[req'[r].id].route
                    /\ req'[r].prev # None => rows'[req'[r].prev].route = RouteOf(r)'
  BY DEF Placed
<1>1. /\ req[r] \in Request
      /\ req[r].id # None => req[r].id \in Definitions /\ Exists(req[r].id)
      /\ req[r].prev # None => req[r].prev \in Definitions /\ Exists(req[r].prev)
      /\ req[r].pc = "writePrev" => req[r].prev # None
      /\ req[r].pc = "writeTarget" => req[r].id # None
  BY DEF Typed, TypeOK, Staged, Request
<1>2. /\ req[r].id # None => rows'[req[r].id].route = rows[req[r].id].route
      /\ req[r].prev # None => rows'[req[r].prev].route = rows[req[r].prev].route
  BY <1>1, RowsStay
<1>3. CASE req'[r] = req[r]
  <2>1. req[r].prev # None => RouteOf(r)' = RouteOf(r)
    BY <1>2, <1>3 DEF RouteOf
  <2> QED BY <1>1, <1>2, <1>3, <2>1 DEF Placed
<1>4. CASE req[r].op = "none" /\ req'[r].op # "none"
  <2>1. req'[r].pc \in {"list", "readPrev", "pin"} /\ (req'[r].id = None \/ req'[r].prev = None)
    BY <1>4, RequestBegins
  <2> QED BY <2>1 DEF RouteOf
<1>5. CASE Step(r) /\ req'[r].op = "none"
  <2>1. req[r].op # "none"
    BY <1>5 DEF Step, ListActive, Read, WritePrev, WriteTarget, Decide, PinDefinition, CutShort, Typed, Staged
  <2>2. req' = [req EXCEPT ![r] = Idle]
    <3>1. CASE ListActive(r)
      BY <1>1, <1>5, <2>1, <3>1 DEF ListActive, Typed, TypeOK, Request
    <3>2. CASE Read(r)
      BY <1>1, <1>5, <2>1, <3>2 DEF Read, Typed, TypeOK, Request
    <3>3. CASE WritePrev(r)
      BY <1>1, <1>5, <2>1, <3>3 DEF WritePrev, Typed, TypeOK, Request
    <3>4. CASE WriteTarget(r)
      BY <1>1, <1>5, <2>1, <3>4 DEF WriteTarget, Typed, TypeOK, Request, Idle
    <3>5. CASE Decide(r)
      BY <1>1, <1>5, <2>1, <3>5 DEF Decide, Typed, TypeOK, Request
    <3> QED BY <1>5, <3>1, <3>2, <3>3, <3>4, <3>5 DEF Step, PinDefinition, CutShort
  <2> QED BY <2>2 DEF Typed, TypeOK, Idle
<1>6. CASE Step(r) /\ req'[r].op # "none"
  <2>1. req[r].op # "none"
    BY <1>6 DEF Step, ListActive, Read, WritePrev, WriteTarget, Decide, PinDefinition, CutShort, Typed, Staged
  <2>2. req'[r].id = req[r].id /\ RouteOf(r)' = RouteOf(r)
    BY <1>6, <2>1, RequestStays
  <2>3. CASE req'[r].pc = "readPrev" /\ UNCHANGED rows /\ req'[r].prev \in Active(RouteOf(r))
    BY <2>2, <2>3 DEF Active
  <2>4. CASE /\ Read(r) /\ UNCHANGED rows /\ req'[r].prev = req[r].prev
             /\ \/ /\ req'[r].pc = "writePrev" /\ req'[r].held = rows[req[r].prev]
                \/ /\ req'[r].pc = "writeTarget" /\ req'[r].held = rows[req[r].id]
    BY <2>2, <2>4 DEF Placed
  <2>5. CASE req'[r].pc \in {"readTarget", "decide", "pin"} /\ req'[r].prev \in {None, req[r].prev}
    BY <1>2, <2>2, <2>5 DEF Placed
  <2> QED BY <1>6, <2>3, <2>4, <2>5, HowItMoves
<1> QED BY <1>3, <1>4, <1>5, <1>6, WhoMoves

(* What a publish has listed stays all that is active on its route: only   *)
(* another publish on it could add to that, and that one is on record.     *)
LEMMA ClearedKept ==
  Typed /\ Placed /\ Alone /\ Cleared /\ OneActivePerRoute /\ [Next]_backend => Cleared'
<1> SUFFICES ASSUME Typed, Placed, Alone, Cleared, OneActivePerRoute, [Next]_backend,
                    NEW r \in Requests, req'[r].op = "publish",
                    <<"overlap", RouteOf(r)'>> \notin mishaps', <<"unlisted", RouteOf(r)'>> \notin mishaps',
                    req'[r].pc \in {"readPrev", "writePrev", "readTarget", "writeTarget"}
             PROVE  /\ req'[r].pc \in {"readPrev", "writePrev"} => Active(RouteOf(r))' \subseteq {req'[r].prev}
                    /\ req'[r].pc \in {"readTarget", "writeTarget"} => Active(RouteOf(r))' \subseteq {req'[r].id}
  BY DEF Cleared, Overlapped, Unlisted
<1>1. req[r].op # "none"
  BY RequestBegins
<1>2. /\ req[r].op = "publish" /\ req'[r].id = req[r].id /\ RouteOf(r)' = RouteOf(r)
      /\ <<"overlap", RouteOf(r)>> \notin mishaps /\ <<"unlisted", RouteOf(r)>> \notin mishaps
  BY <1>1, RequestStays, RowsStay
<1>3. ASSUME ~WriteTarget(r)
      PROVE  \A d \in Active(RouteOf(r))' : d \in Active(RouteOf(r))
  <2> SUFFICES ASSUME NEW d \in Definitions, rows'[d].life = "published", rows'[d].route = RouteOf(r)
               PROVE  rows[d].life = "published" /\ rows[d].route = RouteOf(r)
    BY <1>2 DEF Active
  <2>1. ASSUME NEW q \in Requests, WriteTarget(q), d = req[q].id
        PROVE  FALSE
    <3>1. q # r /\ req[q].op = "publish" /\ req[q].id # None /\ Exists(req[q].id)
      BY <1>3, <2>1 DEF WriteTarget, Typed, TypeOK, Staged
    <3>2. RouteOf(q) = rows[d].route /\ rows'[d].route = rows[d].route
      BY <2>1, <3>1, RowsStay DEF RouteOf
    <3> QED BY <1>1, <1>2, <3>1, <3>2 DEF Alone, Overlapped
  <2>2. rows[d].life = "published"
    BY <2>1, RowsStay
  <2> QED BY <2>2, RowsStay DEF Exists
<1>4. CASE req'[r] = req[r]
  <2>1. ~WriteTarget(r)
    BY <1>4 DEF WriteTarget, Idle, Typed, TypeOK
  <2> QED BY <1>2, <1>3, <1>4, <2>1 DEF Cleared, Overlapped, Unlisted
<1>5. CASE Step(r)
  <2>1. CASE ListActive(r) /\ UNCHANGED rows
    <3>1. Active(RouteOf(r))' = Active(RouteOf(r)) /\ req[r].pc = "list"
      BY <1>2, <2>1 DEF Active, ListActive
    <3>2. \A d, e \in Active(RouteOf(r)) : d = e
      <4>1. RouteOf(r) \in Routes
        BY <1>1, RouteOfRequest
      <4> QED BY <1>2, <4>1 DEF OneActivePerRoute
    <3> HIDE DEF Active
    <3>3. CASE /\ req'[r].pc = "readTarget"
               /\ Active(RouteOf(r)) = {} \/ req[r].id \in Active(RouteOf(r))
      BY <1>2, <3>1, <3>2, <3>3
    <3>4. CASE req'[r].pc = "readPrev" /\ req'[r].prev \in Active(RouteOf(r))
      BY <1>2, <3>1, <3>2, <3>4
    <3>5. <<"unlisted", RouteOf(r)>> \notin mishaps'
      BY <1>2
    <3> QED BY <1>1, <1>5, <2>1, <3>1, <3>3, <3>4, <3>5, HowItMoves DEF Read, WritePrev, WriteTarget, Decide
  <2>2. CASE Read(r) /\ UNCHANGED rows
    <3>1. Active(RouteOf(r))' = Active(RouteOf(r))
      BY <1>2, <2>2 DEF Active
    <3> HIDE DEF Active
    <3> QED BY <1>1, <1>2, <1>5, <2>2, <3>1, HowItMoves DEF Read, WritePrev, WriteTarget, Decide, ListActive, Cleared, Overlapped, Unlisted
  <2>3. CASE /\ WritePrev(r) /\ req'[r].pc = "readTarget" /\ req'[r].prev = req[r].prev
             /\ rows'[req[r].prev].life = "deprecated"
    <3>1. ~WriteTarget(r) /\ Active(RouteOf(r)) \subseteq {req[r].prev}
      BY <1>2, <2>3 DEF WritePrev, WriteTarget, Cleared, Overlapped, Unlisted
    <3>2. Active(RouteOf(r))' = {}
      BY <1>3, <2>3, <3>1 DEF Active
    <3> QED BY <2>3, <3>2
  <2> QED BY <1>1, <1>5, <2>1, <2>2, <2>3, HowItMoves
<1> QED BY <1>1, <1>4, <1>5, WhoMoves

LEMMA OneActiveKept ==
  Typed /\ Placed /\ Cleared /\ OneActivePerRoute /\ [Next]_backend => OneActivePerRoute'
<1> SUFFICES ASSUME Typed, Placed, Cleared, OneActivePerRoute, [Next]_backend,
                    NEW route \in Routes, {<<"overlap", route>>, <<"unlisted", route>>} \cap mishaps' = {},
                    NEW d \in Active(route)', NEW e \in Active(route)'
             PROVE  d = e
  BY DEF OneActivePerRoute
<1>0. /\ d \in Definitions /\ rows'[d].life = "published" /\ rows'[d].route = route
      /\ e \in Definitions /\ rows'[e].life = "published" /\ rows'[e].route = route
  BY DEF Active
<1>1. <<"overlap", route>> \notin mishaps /\ <<"unlisted", route>> \notin mishaps
  BY RowsStay
<1>2. ASSUME NEW c \in Definitions, rows'[c].life = "published", rows'[c].route = route,
             rows[c].life = "published"
      PROVE  c \in Active(route)
  BY <1>2, RowsStay DEF Active, Exists
<1>3. ASSUME NEW r \in Requests, WriteTarget(r), rows'[req[r].id].route = route,
             NEW c \in Definitions, rows'[c].life = "published", rows'[c].route = route
      PROVE  c = req[r].id
  <2>1. /\ req[r].op = "publish" /\ req[r].pc = "writeTarget"
        /\ req[r].id \in Definitions /\ req[r].id # None /\ Exists(req[r].id)
    BY <1>3 DEF WriteTarget, Typed, TypeOK, Staged, Request
  <2>2. RouteOf(r) = route
    BY <1>3, <2>1, RowsStay DEF RouteOf
  <2>3. Active(route) \subseteq {req[r].id}
    BY <1>1, <2>1, <2>2 DEF Cleared, Overlapped, Unlisted
  <2>4. CASE rows[c].life = "published"
    BY <1>2, <1>3, <2>3, <2>4
  <2>5. CASE \E q \in Requests : WriteTarget(q) /\ c = req[q].id
    <3>1. PICK q \in Requests : WriteTarget(q) /\ c = req[q].id
      BY <2>5
    <3>2. req'[q].pc = "decide" /\ req[q].pc = "writeTarget"
      <4>1. req'[q] = [Idle EXCEPT !.op = "publish", !.pc = "decide", !.id = req[q].id]
        BY <3>1 DEF WriteTarget, Typed, TypeOK
      <4> QED BY <3>1, <4>1 DEF WriteTarget, Idle
    <3>3. q # r => req'[q] = req[q]
      BY <1>3 DEF WriteTarget, Typed, TypeOK
    <3>4. q = r
      BY <3>2, <3>3
    <3> QED BY <3>1, <3>4
  <2> QED BY <1>3, <2>4, <2>5, RowsStay
<1>4. CASE rows[d].life = "published" /\ rows[e].life = "published"
  BY <1>0, <1>1, <1>2, <1>4 DEF OneActivePerRoute
<1> QED BY <1>0, <1>3, <1>4, RowsStay

(* An offered route is without an active version only while it is being    *)
(* exchanged, or after that was cut short or a version in use overwritten. *)
LEMMA BridgedKept == Typed /\ Placed /\ Bridged /\ [Next]_backend => Bridged'
<1> SUFFICES ASSUME Typed, Placed, Bridged, [Next]_backend, NEW route \in offered',
                    <<"cut", route>> \notin mishaps', <<"overwritten", route>> \notin mishaps'
             PROVE  Active(route)' # {} \/ Exchanging(route)' # {}
  BY DEF Bridged
<1>1. <<"cut", route>> \notin mishaps /\ <<"overwritten", route>> \notin mishaps
  BY RowsStay
<1>2. ASSUME NEW r \in Requests, WriteTarget(r), RouteOf(r) = route
      PROVE  Active(route)' # {}
  <2>1. req[r] \in Request /\ req[r].id \in Definitions /\ req[r].id # None
    BY <1>2 DEF WriteTarget, Typed, TypeOK, Staged, Request
  <2>2. rows'[req[r].id].life = "published"
    BY <1>2, <2>1 DEF WriteTarget, Typed, TypeOK, Request, Row
  <2>3. rows'[req[r].id].route = route
    BY <1>2, <2>1, RowsStay DEF RouteOf, Typed, TypeOK
  <2> QED BY <2>1, <2>2, <2>3 DEF Active
<1>3. CASE route \notin offered
  <2>1. \E r \in Requests : WriteTarget(r) /\ RouteOf(r) = route
    <3>1. ASSUME NEW r \in Requests, Step(r)
          PROVE  WriteTarget(r) /\ RouteOf(r) = route
      BY <1>3, <3>1 DEF Step, ListActive, Read, WritePrev, WriteTarget, Decide, PinDefinition, CutShort
    <3>2. ASSUME NEW r \in Requests, NEW d \in Definitions, Call(r, d)
          PROVE  UNCHANGED offered
      BY <3>2 DEF Call, Publish, Deprecate, SetDefaultDefinition, Begin
    <3>3. CASE Seed \/ Edit \/ StartCase \/ CaseTypeSaved \/ UNCHANGED backend
      BY <1>3, <3>3 DEF Seed, Edit, StartCase, CaseTypeSaved, backend, CreateDraft, CloneDefinition, EditorSaves, DeleteStatus
    <3> QED BY <1>3, <3>1, <3>2, <3>3 DEF Next
  <2> QED BY <1>2, <2>1
<1>4. ASSUME NEW d \in Active(route), rows'[d].life # "published"
      PROVE  Exchanging(route)' # {}
  <2>1. d \in Definitions /\ rows[d].life = "published" /\ rows[d].route = route
    BY DEF Active
  <2>2. ASSUME NEW r \in Requests, WritePrev(r)
        PROVE  Exchanging(route)' # {}
    <3>1. req[r].prev = d /\ req[r].prev # None
      BY <1>4, <2>1, <2>2 DEF WritePrev, Typed, TypeOK
    <3>2. RouteOf(r) = route
      BY <2>1, <3>1 DEF Placed
    <3>3. req[r].op = "publish"
      BY <2>2, <3>2 DEF WritePrev
    <3>4. /\ req[r] \in Request
          /\ req' = [req EXCEPT ![r].pc = "readTarget", ![r].held = NoRow]
      BY <2>2, <3>3 DEF WritePrev, Typed, TypeOK
    <3>5. req'[r].pc = "readTarget" /\ req'[r].op = "publish" /\ req'[r].prev = req[r].prev
      BY <3>3, <3>4 DEF Typed, TypeOK, Request
    <3>6. RouteOf(r)' = route
      BY <3>2, <3>3, <3>5, RequestStays
    <3> QED BY <3>1, <3>5, <3>6 DEF Exchanging
  <2>3. ASSUME NEW r \in Requests, WriteTarget(r)
        PROVE  FALSE
    <3> DEFINE graph == IF req[r].stamped # None THEN req[r].stamped ELSE req[r].held.graph
               row == [req[r].held EXCEPT !.life = "published", !.graph = graph]
    <3>1. row.life = "published"
      BY DEF Typed, TypeOK, Request, Row
    <3>2. rows' = [rows EXCEPT ![req[r].id] = row]
      BY <2>3 DEF WriteTarget
    <3> HIDE DEF row, graph
    <3> QED BY <1>4, <2>1, <3>1, <3>2 DEF Typed, TypeOK
  <2>4. ASSUME NEW r \in Requests, Step(r), ~WritePrev(r), ~WriteTarget(r)
        PROVE  FALSE
    BY <1>4, <2>1, <2>4 DEF Step, ListActive, Read, Decide, PinDefinition, CutShort
  <2>5. ASSUME NEW r \in Requests, NEW e \in Definitions, Call(r, e)
        PROVE  UNCHANGED rows
    BY <2>5 DEF Call, Publish, Deprecate, SetDefaultDefinition, Begin
  <2>6. ASSUME NEW e \in Definitions, NEW graph \in Graphs, EditorSaves(e, graph)
        PROVE  FALSE
    BY <1>4, <2>1, <2>6 DEF EditorSaves, Typed, TypeOK
  <2>7. CASE Seed
    BY <1>4, <2>1, <2>7 DEF Seed, CloneDefinition, CreateDraft, Exists, Typed, TypeOK
  <2>8. CASE StartCase \/ CaseTypeSaved \/ UNCHANGED backend \/ \E s \in statuses : DeleteStatus(s)
    BY <1>4, <2>1, <2>8 DEF StartCase, CaseTypeSaved, backend, DeleteStatus
  <2> QED BY <1>4, <2>1, <2>2, <2>3, <2>4, <2>5, <2>6, <2>7, <2>8 DEF Next, Edit
<1>5. ASSUME NEW d \in Active(route), rows'[d].life = "published"
      PROVE  Active(route)' # {}
  BY <1>5, RowsStay DEF Active, Exists
<1>6. ASSUME NEW r \in Exchanging(route)
      PROVE  Active(route)' # {} \/ Exchanging(route)' # {}
  <2>1. /\ r \in Requests /\ req[r].op = "publish" /\ req[r].pc \in {"readTarget", "writeTarget"}
        /\ req[r].prev # None /\ RouteOf(r) = route
    BY DEF Exchanging
  <2>2. CASE req'[r] = req[r]
    BY <2>1, <2>2, RequestStays DEF Exchanging
  <2>3. CASE Read(r)
    <3>1. req[r] \in Request /\ req' = [req EXCEPT ![r].pc = "writeTarget", ![r].held = rows[req[r].id]]
      BY <2>1, <2>3 DEF Read, Typed, TypeOK
    <3>2. req'[r].op = "publish" /\ req'[r].pc = "writeTarget" /\ req'[r].prev = req[r].prev
      BY <2>1, <3>1 DEF Typed, TypeOK, Request
    <3> QED BY <2>1, <3>2, RequestStays DEF Exchanging
  <2>4. CASE WriteTarget(r)
    BY <1>2, <2>1, <2>4
  <2>5. ~CutShort(r)
    BY <2>1 DEF CutShort
  <2> QED BY <2>1, <2>2, <2>3, <2>4, <2>5, WhoMoves DEF Step, ListActive, WritePrev, Decide, PinDefinition
<1> QED BY <1>1, <1>3, <1>4, <1>5, <1>6 DEF Bridged

(* Whoever pins after another has decided is on record with that other.    *)
LEMMA EntitledKept == Typed /\ Placed /\ Entitled /\ [Next]_backend => Entitled'
<1> SUFFICES ASSUME Typed, Placed, Entitled, [Next]_backend,
                    NEW r \in Requests, req'[r].op = "publish", req'[r].pc = "pin"
             PROVE  \/ pin' = None \/ rows'[pin'].route = RouteOf(r)'
                    \/ <<"raced", RouteOf(r)'>> \in mishaps' \/ <<"misread", RouteOf(r)'>> \in mishaps'
  BY DEF Entitled
<1>1. req[r].op # "none"
  BY RequestBegins
<1>2. req[r].op = "publish" /\ RouteOf(r)' = RouteOf(r)
  BY <1>1, RequestStays
<1>3. pin # None => rows'[pin].route = rows[pin].route
  BY RowsStay DEF Typed, TypeOK
<1>4. CASE Step(r) /\ ~req'[r] = req[r]
  <2>1. /\ Decide(r)
        /\ \/ pin = None \/ rows[pin].route = RouteOf(r)
           \/ <<"misread", RouteOf(r)>> \in mishaps'
    BY <1>1, <1>4, HowItMoves
  <2> QED BY <1>2, <1>3, <2>1 DEF Decide
<1>5. CASE req'[r] = req[r]
  <2>1. CASE pin' = pin
    BY <1>2, <1>3, <1>5, <2>1, RowsStay DEF Entitled
  <2>2. CASE pin' # pin
    <3>1. ASSUME NEW q \in Requests, PinDefinition(q)
          PROVE  r \in AboutToPin \ {q}
      <4>1. q # r
        BY <1>1, <1>5, <3>1 DEF PinDefinition, Idle, Typed, TypeOK
      <4> QED BY <1>2, <1>5, <4>1 DEF AboutToPin
    <3>2. ASSUME NEW q \in Requests, Step(q)
          PROVE  PinDefinition(q)
      BY <2>2, <3>2 DEF Step, ListActive, Read, WritePrev, WriteTarget, Decide, CutShort
    <3>3. ASSUME NEW q \in Requests, NEW d \in Definitions, Call(q, d)
          PROVE  UNCHANGED pin
      BY <3>3 DEF Call, Publish, Deprecate, SetDefaultDefinition, Begin
    <3>4. ~(Seed \/ Edit \/ StartCase \/ UNCHANGED backend)
      BY <2>2 DEF Seed, Edit, StartCase, backend, CreateDraft, CloneDefinition, EditorSaves, DeleteStatus
    <3>5. CASE CaseTypeSaved
      BY <1>2, <1>5, <3>5 DEF CaseTypeSaved, AboutToPin
    <3>6. CASE \E q \in Requests : PinDefinition(q)
      BY <1>2, <3>1, <3>6 DEF PinDefinition
    <3> QED BY <2>2, <3>2, <3>3, <3>4, <3>5, <3>6 DEF Next
  <2> QED BY <2>1, <2>2
<1> QED BY <1>1, <1>4, <1>5, WhoMoves
------------------------------------------------------------------------------
LEMMA InvKept == Inv /\ [Next]_backend => Inv'
BY TypeKept, PlacedKept, AloneKept, ClearedKept, OneActiveKept, BridgedKept, EntitledKept DEF Inv

LEMMA InvHolds == Init => Inv
<1> SUFFICES ASSUME Init PROVE Inv
  OBVIOUS
<1>1. req \in [Requests -> Request] /\ \A r \in Requests : req[r] = Idle
  BY VersionsAssumption DEF Init, Idle, Request, Row, NoRow
<1>2. Idle.op = "none" /\ Idle.pc = "idle" /\ Idle.id = None /\ Idle.prev = None
  BY DEF Idle
<1>3. rows \in [Definitions -> Row] /\ \A d \in Definitions : rows[d].life = "none"
  BY VersionsAssumption DEF Init, Row, NoRow
<1>4. TypeOK
  BY <1>1, <1>2, <1>3 DEF Init, TypeOK
<1>5. Staged /\ Placed /\ Alone /\ Cleared /\ Entitled
  BY <1>1, <1>2 DEF Staged, Placed, Alone, Cleared, Entitled
<1>6. OneActivePerRoute /\ Bridged
  BY <1>3 DEF Init, OneActivePerRoute, Active, Bridged
<1> QED BY <1>4, <1>5, <1>6 DEF Inv, Typed

LEMMA Inductive == Spec => []Inv
BY InvHolds, InvKept, PTL DEF Spec

------------------------------------------------------------------------------
(* What went wrong on a route; and what a request may rely on otherwise.   *)
Spoilt(route, kinds) == \E kind \in kinds : <<kind, route>> \in mishaps

(* A publish that has taken the active version away or put its own in.     *)
Committed(route) ==
  {r \in Requests : /\ req[r].op = "publish" /\ RouteOf(r) = route
                    /\ \/ req[r].pc \in {"readTarget", "writeTarget"} /\ req[r].prev # None
                       \/ req[r].pc \in {"decide", "pin"}}

(* What is about to be made the default is published ...                   *)
Ready ==
  \A r \in Requests :
    req[r].pc \in {"decide", "pin"} =>
      rows[req[r].id].life = "published" \/ Spoilt(RouteOf(r), {"overlap", "overwritten"})

(* ... and stays so, or its successor on the route is about to be.         *)
PinHolds ==
  pin # None =>
    \/ rows[pin].life = "published"
    \/ Active(rows[pin].route) = {} \/ Committed(rows[pin].route) # {}
    \/ Spoilt(rows[pin].route, {"cut", "overlap", "unlisted", "repinned", "overwritten"})

(* Every step of a request keeps it on its route, or ends it. *)
LEMMA StepsOfRequest ==
  ASSUME Typed, Placed, [Next]_backend, NEW r \in Requests, req'[r] # req[r], req[r].op # "none"
  PROVE  Step(r) /\ (req'[r].op # "none" => req'[r].op = req[r].op /\ req'[r].id = req[r].id /\ RouteOf(r)' = RouteOf(r))
BY WhoMoves, RequestStays

(* A published version ceases to be active only in these ways.             *)
LEMMA WhoWithdraws ==
  ASSUME Typed, Placed, [Next]_backend, NEW d \in Definitions,
         rows[d].life = "published", rows'[d].life # "published"
  PROVE  \/ \E r \in Requests : WritePrev(r) /\ req[r].prev = d /\ RouteOf(r) = rows[d].route
         \/ <<"overwritten", rows[d].route>> \in mishaps'
<1>1. ASSUME NEW r \in Requests, WritePrev(r)
      PROVE  req[r].prev = d /\ RouteOf(r) = rows[d].route
  <2>1. req[r].prev = d /\ req[r].prev # None
    BY <1>1, VersionsAssumption DEF WritePrev, Typed, TypeOK
  <2> QED BY <2>1 DEF Placed
<1>2. ASSUME NEW r \in Requests, WriteTarget(r)
      PROVE  FALSE
  <2> DEFINE graph == IF req[r].stamped # None THEN req[r].stamped ELSE req[r].held.graph
             row == [req[r].held EXCEPT !.life = "published", !.graph = graph]
  <2>1. row.life = "published"
    BY DEF Typed, TypeOK, Request, Row
  <2>2. rows' = [rows EXCEPT ![req[r].id] = row]
    BY <1>2 DEF WriteTarget
  <2> HIDE DEF row, graph
  <2> QED BY <2>1, <2>2 DEF Typed, TypeOK
<1>3. ASSUME NEW r \in Requests, ListActive(r) \/ Read(r) \/ Decide(r) \/ PinDefinition(r) \/ CutShort(r)
      PROVE  UNCHANGED rows
  BY <1>3 DEF ListActive, Read, Decide, PinDefinition, CutShort
<1>4. ASSUME NEW r \in Requests, NEW e \in Definitions, Call(r, e)
      PROVE  UNCHANGED rows
  BY <1>4 DEF Call, Publish, Deprecate, SetDefaultDefinition, Begin
<1>5. ASSUME NEW e \in Definitions, NEW graph \in Graphs, EditorSaves(e, graph)
      PROVE  <<"overwritten", rows[d].route>> \in mishaps'
  BY <1>5 DEF EditorSaves, Typed, TypeOK
<1>6. CASE Seed
  BY <1>6 DEF Seed, CloneDefinition, CreateDraft, Exists, Typed, TypeOK
<1>7. CASE StartCase \/ CaseTypeSaved \/ UNCHANGED backend \/ \E s \in statuses : DeleteStatus(s)
  BY <1>7 DEF StartCase, CaseTypeSaved, backend, DeleteStatus
<1> QED BY <1>1, <1>2, <1>3, <1>4, <1>5, <1>6, <1>7 DEF Next, Edit, Step

LEMMA SpoiltForGood ==
  ASSUME Typed, Placed, [Next]_backend, NEW route, NEW kinds, Spoilt(route, kinds)
  PROVE  Spoilt(route, kinds)'
BY RowsStay DEF Spoilt

LEMMA ReadyKept == Inv /\ Ready /\ [Next]_backend => Ready'
<1> SUFFICES ASSUME Inv, Ready, [Next]_backend, NEW r \in Requests, req'[r].pc \in {"decide", "pin"},
                    ~Spoilt(RouteOf(r), {"overlap", "overwritten"})'
             PROVE  rows'[req'[r].id].life = "published"
  BY DEF Ready
<1> USE DEF Inv
<1>0. Inv'
  BY InvKept
<1>1. req'[r].op \in {"publish", "setDefault"} /\ req'[r].op # "none" /\ req'[r].id # None
  BY <1>0 DEF Typed, TypeOK, Staged, Request
<1>2. CASE req[r].op = "none"
  <2>1. PICK d \in Definitions : Call(r, d)
    BY <1>1, <1>2, RequestBegins
  <2>2. SetDefaultDefinition(r, d) /\ UNCHANGED rows
    <3>1. req'[r].pc = "pin" /\ req'[r].op # "publish"
      BY <1>1, <1>2, RequestBegins
    <3>2. ~Publish(r, d)
      <4>1. ASSUME Publish(r, d) PROVE FALSE
        <5>1. PICK stamped \in {None, rows[d].graph} :
                Begin(r, [Idle EXCEPT !.op = "publish", !.pc = "list", !.id = d, !.stamped = stamped])
          BY <4>1 DEF Publish
        <5> DEFINE call == [Idle EXCEPT !.op = "publish", !.pc = "list", !.id = d, !.stamped = stamped]
        <5>2. call.op = "publish"
          BY DEF Idle
        <5>3. req' = [req EXCEPT ![r] = call]
          BY <5>1 DEF Begin
        <5> HIDE DEF call
        <5> QED BY <3>1, <5>2, <5>3 DEF Typed, TypeOK
      <4> QED BY <4>1
    <3>3. ~Deprecate(r, d)
      BY <3>1 DEF Deprecate, Begin, Idle, Typed, TypeOK
    <3> QED BY <2>1, <3>2, <3>3 DEF Call, SetDefaultDefinition, Begin
  <2>3. req'[r].id = d
    BY <2>2 DEF SetDefaultDefinition, Begin, Idle, Typed, TypeOK
  <2> QED BY <2>2, <2>3 DEF SetDefaultDefinition
<1>3. CASE req[r].op # "none"
  <2>1. req'[r].op = req[r].op /\ req'[r].id = req[r].id /\ RouteOf(r)' = RouteOf(r)
    BY <1>1, <1>3, RequestStays
  <2>2. req[r].id \in Definitions /\ req[r].id # None /\ rows[req[r].id].route = RouteOf(r)
    BY <1>1, <2>1 DEF Typed, TypeOK, Request, RouteOf
  <2>3. ~Spoilt(RouteOf(r), {"overlap", "overwritten"})
    BY <2>1, SpoiltForGood
  <2>4. CASE WriteTarget(r)
    <3> DEFINE graph == IF req[r].stamped # None THEN req[r].stamped ELSE req[r].held.graph
               row == [req[r].held EXCEPT !.life = "published", !.graph = graph]
    <3>1. row.life = "published"
      BY DEF Typed, TypeOK, Request, Row
    <3>2. rows' = [rows EXCEPT ![req[r].id] = row]
      BY <2>4 DEF WriteTarget
    <3> HIDE DEF row, graph
    <3> QED BY <2>1, <2>2, <3>1, <3>2 DEF Typed, TypeOK
  <2>5. CASE req[r].pc \in {"decide", "pin"}
    <3>1. rows[req[r].id].life = "published"
      BY <2>3, <2>5 DEF Ready
    <3>2. ASSUME NEW q \in Requests, WritePrev(q), RouteOf(q) = RouteOf(r)
          PROVE  FALSE
      <4>1. q # r /\ req[q].op # "none"
        BY <2>5, <3>2 DEF WritePrev, Typed, Staged
      <4> QED BY <1>3, <2>3, <3>2, <4>1 DEF Alone, Overlapped, Spoilt
    <3>3. <<"overwritten", RouteOf(r)>> \notin mishaps'
      BY <2>1 DEF Spoilt
    <3> QED BY <2>1, <2>2, <3>1, <3>2, <3>3, WhoWithdraws
  <2>6. CASE req'[r] # req[r] /\ req[r].pc \notin {"decide", "pin"}
    BY <1>1, <1>3, <2>4, <2>6, StepsOfRequest, HowItMoves DEF Decide
  <2> QED BY <2>4, <2>5, <2>6
<1> QED BY <1>2, <1>3

(* Taking a version out of use, and putting one in. *)
LEMMA Withdrawal ==
  ASSUME Typed, Placed, NEW r \in Requests, WritePrev(r)
  PROVE  /\ Published' = Published \ {req[r].prev}
         /\ \A route : Active(route)' = Active(route) \ {req[r].prev}
<1>1. req[r] \in Request /\ req[r].prev \in Definitions /\ req[r].held.route = rows[req[r].prev].route
  BY DEF WritePrev, Typed, TypeOK, Placed, Request
<1>2. /\ [req[r].held EXCEPT !.life = "deprecated"].life = "deprecated"
      /\ [req[r].held EXCEPT !.life = "deprecated"].route = rows[req[r].prev].route
  BY <1>1 DEF Request, Row
<1>3. \A d \in Definitions : IF d = req[r].prev THEN rows'[d].life = "deprecated" ELSE rows'[d] = rows[d]
  BY <1>1, <1>2 DEF WritePrev, Typed, TypeOK
<1> QED BY <1>1, <1>3 DEF Published, Active

LEMMA Introduction ==
  ASSUME Typed, Placed, NEW r \in Requests, WriteTarget(r)
  PROVE  /\ Published' = Published \cup {req[r].id}
         /\ req'[r].op = "publish" /\ req'[r].pc = "decide" /\ RouteOf(r) = rows[req[r].id].route
<1>1. req[r] \in Request /\ req[r].id \in Definitions /\ req[r].id # None
  BY DEF WriteTarget, Typed, TypeOK, Staged, Request
<1> DEFINE graph == IF req[r].stamped # None THEN req[r].stamped ELSE req[r].held.graph
           row == [req[r].held EXCEPT !.life = "published", !.graph = graph]
<1>2. row.life = "published"
  BY <1>1 DEF Request, Row
<1>3. rows' = [rows EXCEPT ![req[r].id] = row]
  BY DEF WriteTarget
<1> HIDE DEF row, graph
<1>4. \A d \in Definitions : IF d = req[r].id THEN rows'[d].life = "published" ELSE rows'[d] = rows[d]
  BY <1>1, <1>2, <1>3 DEF Typed, TypeOK
<1>5. req'[r] = [Idle EXCEPT !.op = "publish", !.pc = "decide", !.id = req[r].id]
  BY DEF WriteTarget, Typed, TypeOK
<1> QED BY <1>1, <1>4, <1>5 DEF Published, RouteOf, Idle

(* The pin follows the exchange of its version, and is only left behind    *)
(* when no version of its route is left.                                   *)
LEMMA PinHoldsKept == Inv /\ Ready /\ PinHolds /\ [Next]_backend => PinHolds'
<1> SUFFICES ASSUME Inv, Ready, PinHolds, [Next]_backend, pin' # None,
                    NEW route \in Routes, rows'[pin'].route = route,
                    ~Spoilt(route, {"cut", "overlap", "unlisted", "repinned", "overwritten"})',
                    rows'[pin'].life # "published", Active(route)' # {}
             PROVE  Committed(route)' # {}
  <2>1. ASSUME Inv, Ready, PinHolds, [Next]_backend, pin' # None
        PROVE  rows'[pin'].route \in Routes
    BY <2>1, InvKept DEF Inv, Typed, TypeOK, Row
  <2> QED BY <2>1 DEF PinHolds, Active, Committed, Spoilt
<1> USE DEF Inv
<1>1. ASSUME NEW r \in Requests, PinDefinition(r)
      PROVE  FALSE
  <2>1. /\ pin' = req[r].id /\ UNCHANGED rows /\ req[r].pc = "pin"
        /\ req[r].op \in {"publish", "setDefault"} /\ req[r].id # None
    BY <1>1 DEF PinDefinition, Typed, TypeOK, Staged, Request
  <2>2. RouteOf(r) = rows'[pin'].route
    BY <2>1 DEF RouteOf
  <2>3. ~Spoilt(RouteOf(r), {"overlap", "overwritten"})
    <3>1. \A kind : <<kind, RouteOf(r)>> \in mishaps => <<kind, rows'[pin'].route>> \in mishaps'
      BY <2>2, RowsStay
    <3> QED BY <3>1 DEF Spoilt
  <2> QED BY <2>1, <2>3 DEF Ready
<1>2. pin' = pin
  <2>4. ~CaseTypeSaved
    <3>1. ASSUME CaseTypeSaved, pin' \notin Published PROVE <<"repinned", rows[pin'].route>> \in mishaps'
      BY <3>1 DEF CaseTypeSaved
    <3>2. ASSUME CaseTypeSaved PROVE UNCHANGED rows /\ (pin' # None => pin' \in Definitions)
      BY <3>2 DEF CaseTypeSaved
    <3> QED BY <3>1, <3>2 DEF Published, Spoilt
  <2>1. ASSUME NEW q \in Requests, Step(q)
        PROVE  pin' = pin
    BY <1>1, <2>1 DEF Step, ListActive, Read, WritePrev, WriteTarget, Decide, CutShort
  <2>2. ASSUME NEW q \in Requests, NEW d \in Definitions, Call(q, d)
        PROVE  UNCHANGED pin
    BY <2>2 DEF Call, Publish, Deprecate, SetDefaultDefinition, Begin
  <2>3. CASE Seed \/ Edit \/ StartCase \/ UNCHANGED backend
    BY <2>3 DEF Seed, Edit, StartCase, backend, CreateDraft, CloneDefinition, EditorSaves, DeleteStatus
  <2> QED BY <2>1, <2>2, <2>3, <2>4 DEF Next
<1>3. pin # None /\ pin \in Definitions /\ rows[pin].route = route
  BY <1>2, RowsStay DEF Typed, TypeOK, Row
<1>4. /\ ~Spoilt(route, {"cut", "overlap", "unlisted", "repinned", "overwritten"})
      /\ <<"cut", route>> \notin mishaps' /\ <<"overwritten", route>> \notin mishaps'
  BY RowsStay DEF Spoilt
<1>6. ASSUME NEW r \in Requests, RouteOf(r) = route, req[r].op = "publish", req'[r].op = "publish",
             \/ req'[r].pc \in {"decide", "pin"}
             \/ req'[r].pc \in {"readTarget", "writeTarget"} /\ req'[r].prev # None
      PROVE  Committed(route)' # {}
  BY <1>6, RequestStays DEF Committed
<1>7. CASE rows[pin].life = "published"
  <2>1. PICK r \in Requests : WritePrev(r) /\ req[r].prev = pin /\ RouteOf(r) = route
    BY <1>2, <1>3, <1>4, <1>7, WhoWithdraws
  <2>2. CASE req[r].op = "publish"
    <3>1. req'[r].pc = "readTarget" /\ req'[r].prev = req[r].prev /\ req'[r].op = "publish"
      BY <2>1, <2>2 DEF WritePrev, Typed, TypeOK, Request
    <3> QED BY <1>3, <1>6, <2>1, <2>2, <3>1
  <2>3. CASE req[r].op # "publish"
    <3>1. pin \in Active(route) /\ \A d, e \in Active(route) : d = e
      BY <1>3, <1>4, <1>7 DEF OneActivePerRoute, Spoilt, Active
    <3>2. Active(route)' = Active(route) \ {pin}
      BY <2>1, Withdrawal
    <3> QED BY <3>1, <3>2
  <2> QED BY <2>2, <2>3
<1>8. CASE Active(route) = {}
  <2>1. PICK d \in Definitions : rows'[d].life = "published" /\ rows'[d].route = route
    BY DEF Active
  <2>2. rows[d].life # "published"
    BY <1>8, <2>1, RowsStay DEF Active, Exists
  <2>3. PICK r \in Requests : WriteTarget(r) /\ d = req[r].id
    BY <2>1, <2>2, RowsStay
  <2>4. req[r].op = "publish" /\ rows[d].route = route
    BY <2>1, <2>3, RowsStay DEF WriteTarget, Typed, TypeOK, Staged, Exists
  <2> QED BY <1>6, <2>3, <2>4, Introduction
<1>9. ASSUME NEW r \in Committed(route)
      PROVE  Committed(route)' # {}
  <2>1. /\ r \in Requests /\ req[r].op = "publish" /\ RouteOf(r) = route
        /\ \/ req[r].pc \in {"readTarget", "writeTarget"} /\ req[r].prev # None
           \/ req[r].pc \in {"decide", "pin"}
    BY DEF Committed
  <2>2. CASE req'[r] = req[r]
    BY <1>6, <2>1, <2>2
  <2>3. CASE Step(r) /\ req'[r].op # "none"
    <3>1. req'[r].op = "publish"
      BY <2>1, <2>3, RequestStays
    <3> QED BY <1>6, <2>1, <2>3, <3>1, HowItMoves DEF ListActive, WritePrev
  <2>4. CASE Step(r) /\ req'[r].op = "none"
    <3>1. ~CutShort(r)
      BY <1>4, <2>1 DEF CutShort
    <3>2. ~Decide(r)
      <4>1. ASSUME Decide(r) PROVE req' = [req EXCEPT ![r].pc = "pin"]
        BY <4>1, <1>3, <2>1 DEF Decide
      <4> QED BY <2>1, <2>4, <4>1 DEF Decide, Typed, TypeOK, Request
    <3>3. ~Read(r) /\ ~WriteTarget(r)
      <4>1. ASSUME Read(r) PROVE FALSE
        <5>1. req[r].pc = "readTarget" /\ req[r] \in Request
          BY <2>1, <4>1 DEF Read, Typed, TypeOK
        <5>2. req' = [req EXCEPT ![r].pc = "writeTarget", ![r].held = rows[req[r].id]]
          BY <4>1, <5>1 DEF Read
        <5>3. req'[r].op = req[r].op
          BY <2>1, <5>1, <5>2 DEF Typed, TypeOK, Request
        <5> QED BY <2>1, <2>4, <5>3
      <4> QED BY <2>1, <2>4, <4>1, Introduction
    <3> QED BY <1>1, <2>1, <2>4, <3>1, <3>2, <3>3 DEF Step, ListActive, WritePrev
  <2> QED BY <2>1, <2>2, <2>3, <2>4, WhoMoves
<1> QED BY <1>3, <1>4, <1>7, <1>8, <1>9 DEF PinHolds
------------------------------------------------------------------------------
(* The mishaps that can leave a case type with cases without a version.    *)
Clean == \A route \in Routes : ~Spoilt(route, {"cut", "stranding", "overlap", "overwritten"})

Exchanges ==
  {r \in Requests : /\ req[r].op = "publish" /\ req[r].pc \in {"readTarget", "writeTarget"}
                    /\ req[r].prev # None}

(* Two deprecations at the same time are on record.                        *)
Lone ==
  Clean => \A r, q \in Requests : req[r].op = "deprecate" /\ req[q].op = "deprecate" => r = q

(* Cases have a version to run on, or are about to get one back, ...       *)
Spared == Clean /\ cases => Published # {} \/ Exchanges # {}

(* ... and a deprecation that goes on leaves them one.                     *)
Backed ==
  Clean /\ cases =>
    \A q \in Requests : req[q].op = "deprecate" => Published \ {req[q].prev} # {} \/ Exchanges # {}

LEMMA CleanBefore == ASSUME Typed, Placed, [Next]_backend, Clean' PROVE Clean
BY RowsStay DEF Clean, Spoilt

(* What a deprecation that begins has checked and notes.                   *)
LEMMA DeprecationBegins ==
  ASSUME Typed, Placed, [Next]_backend, NEW r \in Requests, req[r].op # "deprecate", req'[r].op = "deprecate"
  PROVE  /\ UNCHANGED <<rows, cases>> /\ (Published \ {req'[r].prev} # {} \/ ~cases)
         /\ \A q \in Requests \ {r} : req'[q] = req[q] /\ (req[q].op = "deprecate" => ~Clean')
<1>1. req[r].op = "none"
  BY RequestStays
<1>2. PICK d \in Definitions : Call(r, d)
  BY <1>1, RequestBegins
<1>3. ~Publish(r, d)
  <2>1. ASSUME Publish(r, d) PROVE FALSE
    <3>1. PICK stamped \in {None, rows[d].graph} :
            Begin(r, [Idle EXCEPT !.op = "publish", !.pc = "list", !.id = d, !.stamped = stamped])
      BY <2>1 DEF Publish
    <3> DEFINE call == [Idle EXCEPT !.op = "publish", !.pc = "list", !.id = d, !.stamped = stamped]
    <3>2. call.op = "publish"
      BY DEF Idle
    <3>3. req' = [req EXCEPT ![r] = call]
      BY <3>1 DEF Begin
    <3> HIDE DEF call
    <3> QED BY <3>2, <3>3 DEF Typed, TypeOK
  <2> QED BY <2>1
<1>4. ~SetDefaultDefinition(r, d)
  BY DEF SetDefaultDefinition, Begin, Idle, Typed, TypeOK
<1>5. Deprecate(r, d)
  BY <1>2, <1>3, <1>4 DEF Call
<1> DEFINE call == [Idle EXCEPT !.op = "deprecate", !.pc = "readPrev", !.prev = d]
<1>6. Begin(r, call) /\ call.op = "deprecate" /\ call.prev = d /\ call.id = None
  BY <1>5 DEF Deprecate, Idle
<1>7. Published \ {d} # {} \/ ~cases
  BY <1>5 DEF Deprecate
<1> HIDE DEF call
<1>8. /\ UNCHANGED <<rows, cases>> /\ req'[r] = call /\ \A q \in Requests \ {r} : req'[q] = req[q]
      /\ mishaps' = mishaps \cup Overlaps("deprecate", rows[d].route)
  BY <1>6 DEF Begin, Typed, TypeOK
<1>9. ASSUME NEW q \in Requests, req[q].op = "deprecate"
      PROVE  ~Clean'
  <2>1. <<"stranding", rows[d].route>> \in mishaps'
    BY <1>8, <1>9 DEF Overlaps
  <2>2. rows[d].route \in Routes
    BY DEF Typed, TypeOK, Row
  <2> QED BY <2>1, <2>2 DEF Clean, Spoilt
<1> QED BY <1>6, <1>7, <1>8, <1>9

LEMMA LoneKept == Typed /\ Placed /\ Lone /\ [Next]_backend => Lone'
<1> SUFFICES ASSUME Typed, Placed, Lone, [Next]_backend, Clean',
                    NEW r \in Requests, NEW q \in Requests, r # q,
                    req'[r].op = "deprecate", req'[q].op = "deprecate"
             PROVE  FALSE
  BY DEF Lone
<1>1. Clean
  BY CleanBefore
<1>2. ASSUME NEW a \in Requests, NEW b \in Requests, a # b, req[a].op # "deprecate",
             req'[a].op = "deprecate", req'[b].op = "deprecate"
      PROVE  FALSE
  BY <1>2, DeprecationBegins
<1> QED BY <1>1, <1>2 DEF Lone

(* An exchange goes on, or ends with a published version of its route.     *)
LEMMA ExchangeGoesOn ==
  ASSUME Typed, Placed, [Next]_backend, Clean', NEW r \in Exchanges
  PROVE  \/ r \in Exchanges'
         \/ WriteTarget(r) /\ req[r].id \in Published'
<1>1. /\ r \in Requests /\ req[r].op = "publish" /\ req[r].pc \in {"readTarget", "writeTarget"}
      /\ req[r].prev # None
  BY DEF Exchanges
<1>2. CASE WriteTarget(r)
  BY <1>1, <1>2, Introduction
<1>3. CASE req'[r] = req[r]
  BY <1>1, <1>3 DEF Exchanges
<1>4. CASE Read(r)
  <2>1. req[r] \in Request /\ req' = [req EXCEPT ![r].pc = "writeTarget", ![r].held = rows[req[r].id]]
    BY <1>1, <1>4 DEF Read, Typed, TypeOK
  <2>2. req'[r].op = "publish" /\ req'[r].pc = "writeTarget" /\ req'[r].prev = req[r].prev
    BY <1>1, <2>1 DEF Typed, TypeOK, Request
  <2> QED BY <1>1, <2>2 DEF Exchanges
<1>5. ~CutShort(r)
  <2>1. RouteOf(r) \in Routes
    BY <1>1, RouteOfRequest
  <2> QED BY <1>1, <2>1 DEF CutShort, Clean, Spoilt
<1> QED BY <1>1, <1>2, <1>3, <1>4, <1>5, WhoMoves DEF Step, ListActive, WritePrev, Decide, PinDefinition

(* A published version that goes leaves an exchange, if it is no deprecation. *)
LEMMA WhoIsLeft ==
  ASSUME Typed, Placed, [Next]_backend, Clean', NEW d \in Published, d \notin Published'
  PROVE  \/ Exchanges' # {}
         \/ \E r \in Requests : /\ req[r].op = "deprecate" /\ req[r].prev = d
                                /\ Published' = Published \ {d} /\ UNCHANGED cases
                                /\ req'[r].op = "none" /\ \A q \in Requests \ {r} : req'[q] = req[q]
<1>1. d \in Definitions /\ rows[d].life = "published" /\ rows'[d].life # "published" /\ rows[d].route \in Routes
  BY DEF Published, Typed, TypeOK, Row
<1>2. PICK r \in Requests : WritePrev(r) /\ req[r].prev = d
  BY <1>1, WhoWithdraws DEF Clean, Spoilt
<1>3. req[r].op \in {"publish", "deprecate"} /\ req[r] \in Request /\ req[r].prev # None
  BY <1>1, <1>2, VersionsAssumption DEF WritePrev, Typed, TypeOK, Staged, Request
<1>4. CASE req[r].op = "publish"
  <2>1. req'[r].pc = "readTarget" /\ req'[r].prev = d /\ req'[r].op = "publish"
    BY <1>2, <1>3, <1>4 DEF WritePrev, Typed, TypeOK, Request
  <2> QED BY <1>2, <1>3, <2>1 DEF Exchanges
<1>5. CASE req[r].op = "deprecate"
  <2>1. UNCHANGED cases /\ req'[r].op = "none" /\ \A q \in Requests \ {r} : req'[q] = req[q]
    BY <1>2, <1>5 DEF WritePrev, Idle, Typed, TypeOK
  <2> QED BY <1>2, <1>5, <2>1, Withdrawal
<1> QED BY <1>3, <1>4, <1>5

(* The first case comes only while there is a version for it, and with a   *)
(* deprecation under way it is on record.                                  *)
LEMMA FirstCase ==
  ASSUME Typed, Placed, [Next]_backend, Clean', cases', ~cases
  PROVE  /\ Published' = Published /\ Published # {} /\ UNCHANGED req
         /\ \A q \in Requests : req[q].op # "deprecate"
<1>1. StartCase
  <2>1. ASSUME NEW q \in Requests, Step(q)
        PROVE  UNCHANGED cases
    BY <2>1 DEF Step, ListActive, Read, WritePrev, WriteTarget, Decide, PinDefinition, CutShort
  <2>2. ASSUME NEW q \in Requests, NEW d \in Definitions, Call(q, d)
        PROVE  UNCHANGED cases
    BY <2>2 DEF Call, Publish, Deprecate, SetDefaultDefinition, Begin
  <2>3. CASE Seed \/ Edit \/ CaseTypeSaved \/ UNCHANGED backend
    BY <2>3 DEF Seed, Edit, CaseTypeSaved, backend, CreateDraft, CloneDefinition, EditorSaves, DeleteStatus
  <2> QED BY <2>1, <2>2, <2>3 DEF Next
<1>2. ASSUME NEW q \in Requests, req[q].op = "deprecate"
      PROVE  FALSE
  <2>1. <<"stranding", RouteOf(q)>> \in mishaps'
    BY <1>1, <1>2 DEF StartCase
  <2> QED BY <1>2, <2>1, RouteOfRequest DEF Clean, Spoilt
<1> QED BY <1>1, <1>2 DEF StartCase, Published

LEMMA BackedKept == Inv /\ Lone /\ Spared /\ Backed /\ [Next]_backend => Spared' /\ Backed'
<1> SUFFICES ASSUME Inv, Lone, Spared, Backed, [Next]_backend, Clean', cases', Exchanges' = {}
             PROVE  /\ Published' # {}
                    /\ \A q \in Requests : req'[q].op = "deprecate" => Published' \ {req'[q].prev} # {}
  BY DEF Spared, Backed
<1> USE DEF Inv
<1>1. Clean
  BY CleanBefore
<1>2. CASE ~cases
  BY <1>2, FirstCase
<1>3. CASE cases /\ Exchanges # {}
  <2>1. PICK r \in Exchanges : WriteTarget(r) /\ req[r].id \in Published'
    BY <1>3, ExchangeGoesOn
  <2>2. ASSUME NEW q \in Requests, req'[q].op = "deprecate"
        PROVE  req[r].id # req'[q].prev
    <3>1. r \in Requests /\ req[r].op = "publish" /\ q # r /\ req'[q] = req[q]
      BY <2>1, <2>2, Introduction DEF Exchanges, WriteTarget, Typed, TypeOK
    <3>2. RouteOf(q) \in Routes /\ RouteOf(r) = rows[req[r].id].route
      BY <2>1, <2>2, <3>1, RouteOfRequest, Introduction
    <3>3. req[q].prev # None /\ RouteOf(q) = rows[req[q].prev].route
      BY <2>2, <3>1 DEF Typed, Staged, RouteOf
    <3>4. RouteOf(q) # RouteOf(r)
      BY <1>1, <2>2, <3>1, <3>2 DEF Alone, Overlapped, Clean, Spoilt
    <3> QED BY <3>1, <3>2, <3>3, <3>4
  <2> QED BY <2>1, <2>2
<1>4. CASE cases /\ Exchanges = {}
  <2>1. Published # {} /\ \A q \in Requests : req[q].op = "deprecate" => Published \ {req[q].prev} # {}
    BY <1>1, <1>4 DEF Spared, Backed
  <2>2. CASE Published \subseteq Published'
    <3>1. ASSUME NEW q \in Requests, req'[q].op = "deprecate", req[q].op # "deprecate"
          PROVE  Published' \ {req'[q].prev} # {}
      BY <1>4, <3>1, DeprecationBegins DEF Published
    <3>2. ASSUME NEW q \in Requests, req'[q].op = "deprecate", req[q].op = "deprecate"
          PROVE  req'[q].prev = req[q].prev
      <4>1. CASE Step(q)
        BY <3>2, <4>1, HowItMoves DEF ListActive, Read, WritePrev, WriteTarget, Decide, Typed, Staged
      <4> QED BY <3>2, <4>1, WhoMoves
    <3> QED BY <2>1, <2>2, <3>1, <3>2
  <2>3. ASSUME NEW d \in Published, d \notin Published'
        PROVE  /\ Published' # {}
               /\ \A q \in Requests : req'[q].op = "deprecate" => Published' \ {req'[q].prev} # {}
    <3>1. PICK r \in Requests : /\ req[r].op = "deprecate" /\ req[r].prev = d
                                /\ Published' = Published \ {d} /\ UNCHANGED cases
                                /\ req'[r].op = "none" /\ \A q \in Requests \ {r} : req'[q] = req[q]
      BY <2>3, WhoIsLeft
    <3>2. \A q \in Requests : req'[q].op # "deprecate"
      BY <1>1, <3>1 DEF Lone
    <3> QED BY <2>1, <3>1, <3>2
  <2> QED BY <2>2, <2>3
<1> QED BY <1>2, <1>3, <1>4
------------------------------------------------------------------------------
LEMMA PinInductive == Spec => [](Inv /\ Ready /\ PinHolds)
<1>1. Init => Ready /\ PinHolds
  BY DEF Init, Idle, Ready, PinHolds
<1> QED BY <1>1, InvHolds, InvKept, ReadyKept, PinHoldsKept, PTL DEF Spec

LEMMA CasesInductive == Spec => [](Inv /\ Lone /\ Spared /\ Backed)
<1>1. Init => Lone /\ Spared /\ Backed
  BY DEF Init, Idle, Lone, Spared, Backed
<1>2. Inv /\ Lone /\ Spared /\ Backed /\ [Next]_backend => Lone'
  BY LoneKept DEF Inv
<1> QED BY <1>1, <1>2, InvHolds, InvKept, BackedKept, PTL DEF Spec

(* Whatever requests interleave and die, the values stay what they are     *)
(* declared as, and what is pinned or worked on exists.                    *)
THEOREM TypeCorrect == Spec => []TypeOK
<1>1. Inv => TypeOK
  BY DEF Inv, Typed
<1> QED BY <1>1, Inductive, PTL

(* For any number of versions, routes and requests at most one version of  *)
(* a route is active unless requests on it overlapped or a publish could   *)
(* not list what was active.                                               *)
THEOREM OneActive == Spec => []OneActivePerRoute
<1>1. Inv => OneActivePerRoute
  BY DEF Inv
<1> QED BY <1>1, Inductive, PTL

(* And a route that is offered keeps an active version, unless it is being *)
(* exchanged, that was cut short, or a version in use was saved over.      *)
THEOREM Served == Spec => []RouteServed
<1>1. Inv => RouteServed
  BY DEF Inv, Bridged, RouteServed, Exchanging, Publishing, BusyOn
<1> QED BY <1>1, Inductive, PTL

(* A publish takes the default from another route only when it had decided *)
(* to before that default was recorded, or a publish of its route could    *)
(* not read what the default was.                                          *)
THEOREM DefaultKept == Spec => KeepsDefaultRoute
<1>1. Inv /\ [Next]_backend =>
        [\A r \in Requests :
           /\ req[r].op = "publish" /\ req[r].pc = "pin" /\ req'[r] = Idle
           /\ pin' # pin /\ pin # None
           => \/ rows[pin].route = RouteOf(r)
              \/ {<<"raced", RouteOf(r)>>, <<"misread", RouteOf(r)>>} \cap mishaps # {}]_backend
  BY DEF Inv, Entitled
<1> QED BY <1>1, Inductive, PTL DEF Spec, KeepsDefaultRoute

(* A case that names no route takes the default one as long as that one is *)
(* offered: publish, setDefault and the exchange of versions leave the pin *)
(* on what is active, for any number of them at the same time, unless they *)
(* overlap on one route or are cut short, a predecessor was not listed, a  *)
(* version in use is saved over, or the form of the case type pins one     *)
(* again that was deprecated meanwhile.                                    *)
THEOREM DefaultTaken == Spec => []DefaultRouteIsTaken
<1>1. Inv /\ PinHolds => DefaultRouteIsTaken
  <2> SUFFICES ASSUME Inv, PinHolds, pin # None,
                      Active(rows[pin].route) # {}, Publishing(rows[pin].route) = {},
                      {<<"cut", rows[pin].route>>, <<"overlap", rows[pin].route>>,
                       <<"unlisted", rows[pin].route>>, <<"repinned", rows[pin].route>>,
                       <<"overwritten", rows[pin].route>>} \cap mishaps = {}
               PROVE  \A d \in Answers : rows[d].route = rows[pin].route
    BY DEF DefaultRouteIsTaken
  <2>1. Committed(rows[pin].route) = {}
    BY DEF Committed, Publishing, BusyOn
  <2>2. pin \in Published
    BY <2>1 DEF PinHolds, Spoilt, Published, Inv, Typed, TypeOK
  <2> QED BY <2>2 DEF Answers
<1> QED BY <1>1, PinInductive, PTL

(* While a case type has cases one of its versions is published or about   *)
(* to be: what deprecate has checked stays true until it writes, unless a  *)
(* first case or another deprecation comes in between, or an exchange is   *)
(* cut short.                                                              *)
THEOREM NeverStranded == Spec => []NotStranded
<1>1. Inv /\ Spared => NotStranded
  <2> SUFFICES ASSUME Inv, Spared, cases, Published = {}, Clean
               PROVE  \E route \in Routes : Publishing(route) # {}
    BY DEF NotStranded, Clean, Spoilt
  <2>1. PICK r \in Requests : req[r].op = "publish"
    BY DEF Spared, Exchanges
  <2>2. RouteOf(r) \in Routes
    BY <2>1, RouteOfRequest DEF Inv
  <2>3. r \in Publishing(RouteOf(r))
    BY <2>1 DEF Publishing, BusyOn
  <2> QED BY <2>2, <2>3
<1> QED BY <1>1, CasesInductive, PTL
------------------------------------------------------------------------------
(* The tab. *)

(* What the tab works on exists, and only publish() waits for its save.    *)
TabSane ==
  /\ copy.id # None \/ publishing # "no" \/ loads # {} => sel # None
  /\ copy.id = None => copy.row.life = "none"
  /\ \A by \in {"button", "publish"} : saving[by] # NoCopy => saving[by].id # None /\ sel # None
  /\ saving["publish"] # NoCopy => publishing = "saving"

TabInv == TabTypeOK /\ TabSane

(* The tab asks nothing of the backend that others could not ask. *)
LEMMA Client == Typed /\ TabInv /\ [EditorNext]_vars => [Next]_backend
<1> SUFFICES ASSUME Typed, TabInv, [EditorNext]_vars PROVE [Next]_backend
  OBVIOUS
<1>1. ASSUME NEW d \in Definitions, NEW graph \in Graphs, NewDraft(d, graph)
      PROVE  Next
  BY <1>1, VersionsAssumption DEF NewDraft, Next, Seed
<1>2. ASSUME NEW d \in Definitions, CreateWorkflow(d)
      PROVE  Next
  BY <1>1, <1>2, VersionsAssumption DEF CreateWorkflow
<1>3. ASSUME NEW d \in Definitions, EditPublished(d)
      PROVE  Next
  <2>1. sel \in Definitions
    BY <1>3 DEF EditPublished, TabInv, TabTypeOK
  <2>2. rows[sel].graph \in Graphs
    BY <2>1 DEF Typed, TypeOK, Row
  <2> QED BY <1>1, <1>3, <2>2 DEF EditPublished
<1>4. ASSUME NEW d \in Definitions, NEW graph \in Graphs, ImportWorkflow(d, graph)
      PROVE  Next
  BY <1>1, <1>4 DEF ImportWorkflow
<1>5. ASSUME NEW s \in statuses, DeleteNode(s)
      PROVE  Next
  BY <1>5 DEF DeleteNode, Next, Edit
<1>6. ASSUME NEW by \in {"button", "publish"}, Saved(by)
      PROVE  [Next]_backend
  <2>1. saving[by].id \in Definitions /\ saving[by].row.graph \in Graphs
    BY <1>6 DEF Saved, TabInv, TabSane, TabTypeOK, Row
  <2> QED BY <1>6, <2>1 DEF Saved, Next, Edit
<1>7. CASE Post
  <2>1. Publish(Ui, sel) => Next
    <3>1. sel \in Definitions
      BY <1>7 DEF Post, TabInv, TabSane, TabTypeOK
    <3> QED BY <3>1, EditorAssumption DEF Next, Call
  <2> QED BY <1>7, <2>1 DEF Post
<1>8. CASE Others
  BY <1>8 DEF Others, Next
<1>9. CASE Step(Ui)
  BY <1>9, EditorAssumption DEF Next
<1>10. CASE UNCHANGED backend
  BY <1>10
<1>11. ASSUME NEW d \in Definitions, Open(d) \/ ChangeVersion(d)
       PROVE  UNCHANGED backend
  BY <1>11 DEF Open, ChangeVersion
<1>12. ASSUME NEW l \in loads, Loaded(l)
       PROVE  UNCHANGED backend
  BY <1>12 DEF Loaded
<1>13. ASSUME NEW graph \in Graphs, EditTransitions(graph)
       PROVE  UNCHANGED backend
  BY <1>13 DEF EditTransitions
<1>14. CASE LoadData \/ Save \/ ClickPublish \/ Answered
  BY <1>14 DEF LoadData, Save, ClickPublish, Answered
<1>15. DOMAIN saving = {"button", "publish"}
  BY DEF TabInv, TabTypeOK
<1>16. CASE UNCHANGED vars
  BY <1>16 DEF vars, backend
<1> QED
  BY <1>2, <1>3, <1>4, <1>5, <1>6, <1>7, <1>8, <1>9, <1>10, <1>11, <1>12, <1>13, <1>14, <1>15, <1>16
     DEF EditorNext

(* The types of the copy; what is deleted from a graph leaves a graph.     *)
LEMMA CopyTyped ==
  ASSUME Typed, TabInv
  PROVE  /\ copy \in [id : Definitions \cup {None}, row : Row] /\ NoCopy \in [id : Definitions \cup {None}, row : Row]
         /\ \A d \in Definitions : CopyOf(d, rows[d]) \in [id : Definitions \cup {None}, row : Row]
         /\ \A graph \in Graphs : [copy EXCEPT !.row.graph = graph] \in [id : Definitions \cup {None}, row : Row]
         /\ \A s \in statuses :
              [copy EXCEPT !.row.graph = {e \in @ : s \notin {e[1], e[2]}}] \in [id : Definitions \cup {None}, row : Row]
         /\ NoCopy.id = None /\ NoCopy.row.life = "none"
<1>1. copy \in [id : Definitions \cup {None}, row : Row]
  BY DEF TabInv, TabTypeOK
<1>2. NoCopy \in [id : Definitions \cup {None}, row : Row] /\ NoCopy.id = None /\ NoCopy.row.life = "none"
  BY VersionsAssumption DEF NoCopy, NoRow, Row
<1>3. \A d \in Definitions : CopyOf(d, rows[d]) \in [id : Definitions \cup {None}, row : Row]
  BY DEF CopyOf, Typed, TypeOK
<1>4. \A graph \in Graphs : [copy EXCEPT !.row.graph = graph] \in [id : Definitions \cup {None}, row : Row]
  BY <1>1 DEF Row
<1>5. ASSUME NEW s \in statuses
      PROVE  {e \in copy.row.graph : s \notin {e[1], e[2]}} \in Graphs
  <2>1. copy.row.graph \in Graphs
    BY <1>1 DEF Row
  <2> QED BY <2>1, VersionsAssumption
<1> QED BY <1>1, <1>2, <1>3, <1>4, <1>5

(* A tab that leaves requests and its publish alone stays consistent.      *)
LEMMA TabStays ==
  ASSUME TabInv, req'[Ui] = req[Ui], UNCHANGED <<publishing, posted, saving>>,
         sel' \in Definitions \cup {None}, sel' = None => sel = None,
         copy' \in [id : Definitions \cup {None}, row : Row],
         copy'.id # None \/ loads' # {} => sel' # None,
         copy'.id = None => copy'.row.life = "none",
         mounted' \in BOOLEAN, nodes' \subseteq Statuses, dirty' \in BOOLEAN,
         loads' \subseteq [id : Definitions, by : {"mount", "select"}]
  PROVE  TabInv'
<1>1. TabTypeOK'
  BY DEF TabInv, TabTypeOK
<1>2. TabSane'
  BY DEF TabInv, TabSane, NoCopy, NoRow
<1> QED BY <1>1, <1>2 DEF TabInv

LEMMA TabKept == Inv /\ TabInv /\ [EditorNext]_vars => TabInv'
<1> SUFFICES ASSUME Inv, TabInv, [EditorNext]_vars PROVE TabInv'
  OBVIOUS
<1>1. Typed /\ [Next]_backend
  BY Client DEF Inv
<1>2. /\ sel \in Definitions \cup {None} /\ mounted \in BOOLEAN /\ nodes \subseteq Statuses
      /\ dirty \in BOOLEAN /\ loads \subseteq [id : Definitions, by : {"mount", "select"}]
      /\ statuses \subseteq Statuses /\ req \in [Requests -> Request]
  BY <1>1 DEF TabInv, TabTypeOK, Typed, TypeOK
<1>3. copy.id # None \/ loads # {} => sel # None
  BY DEF TabInv, TabSane
<1>4. copy.id = None => copy.row.life = "none"
  BY DEF TabInv, TabSane
<1>5. ASSUME NEW d \in Definitions, NEW graph \in Graphs, NewDraft(d, graph)
      PROVE  TabInv'
  <2>1. CopyOf(d, Draft(Standaard, graph)) \in [id : Definitions \cup {None}, row : Row]
    BY VersionsAssumption DEF CopyOf, Draft, Row
  <2>2. copy'.id = d /\ copy'.row.life = "draft" /\ sel' = d /\ d # None
    BY <1>5, VersionsAssumption DEF NewDraft, CopyOf, Draft
  <2> QED BY <1>2, <1>5, <2>1, <2>2, TabStays DEF NewDraft, CreateDraft
<1>6. ASSUME NEW d \in Definitions, CreateWorkflow(d) \/ EditPublished(d) \/ \E graph \in Graphs : ImportWorkflow(d, graph)
      PROVE  TabInv'
  <2>1. CASE EditPublished(d)
    <3>1. sel \in Definitions
      BY <1>2, <2>1 DEF EditPublished
    <3>2. rows[sel].graph \in Graphs
      BY <1>1, <3>1 DEF Typed, TypeOK, Row
    <3> QED BY <1>5, <2>1, <3>2 DEF EditPublished
  <2> QED BY <1>5, <1>6, <2>1, VersionsAssumption DEF CreateWorkflow, ImportWorkflow
<1>7. ASSUME NEW d \in Definitions, Open(d) \/ ChangeVersion(d)
      PROVE  TabInv'
  <2>1. /\ sel' = d /\ d # None /\ req' = req
        /\ UNCHANGED <<copy, mounted, nodes, dirty, saving, publishing, posted>>
        /\ loads' \subseteq [id : Definitions, by : {"mount", "select"}]
    BY <1>2, <1>7, VersionsAssumption DEF Open, ChangeVersion, backend
  <2> QED BY <1>1, <1>2, <1>3, <1>4, <2>1, CopyTyped, TabStays
<1>8. CASE LoadData
  <2>1. /\ sel # None /\ mounted' \in BOOLEAN /\ nodes' \subseteq Statuses /\ req' = req
        /\ UNCHANGED <<sel, copy, dirty, saving, publishing, posted>>
        /\ loads' \subseteq [id : Definitions, by : {"mount", "select"}]
    BY <1>2, <1>8 DEF LoadData, backend
  <2> QED BY <1>1, <1>2, <1>3, <1>4, <2>1, CopyTyped, TabStays
<1>9. ASSUME NEW l \in loads, Loaded(l)
      PROVE  TabInv'
  <2>1. l.id \in Definitions /\ sel # None
    BY <1>2, <1>3, <1>9
  <2>2. /\ UNCHANGED <<sel, mounted, nodes, saving, publishing, posted>> /\ req' = req
        /\ loads' \subseteq loads /\ dirty' \in BOOLEAN
    BY <1>2, <1>9 DEF Loaded, backend
  <2>3. CopyOf(l.id, rows[l.id]).id = l.id /\ l.id # None
    BY <2>1, VersionsAssumption DEF CopyOf
  <2>4. copy' \in {CopyOf(l.id, rows[l.id]), copy, NoCopy}
    BY <1>9 DEF Loaded
  <2>5. /\ copy' \in [id : Definitions \cup {None}, row : Row]
        /\ copy'.id = None => copy'.row.life = "none"
    BY <1>1, <1>4, <2>1, <2>3, <2>4, CopyTyped
  <2> QED BY <1>2, <2>1, <2>2, <2>5, TabStays
<1>10. ASSUME NEW graph \in Graphs, EditTransitions(graph)
       PROVE  TabInv'
  <2>1. /\ UNCHANGED <<sel, mounted, nodes, loads, saving, publishing, posted>> /\ req' = req
        /\ dirty' \in BOOLEAN /\ copy' = [copy EXCEPT !.row.graph = graph]
    BY <1>10 DEF EditTransitions, backend
  <2>2. copy' \in [id : Definitions \cup {None}, row : Row] /\ copy'.id = copy.id /\ copy'.row.life = copy.row.life
    BY <1>1, <2>1, CopyTyped DEF Row
  <2> QED BY <1>2, <1>3, <1>4, <2>1, <2>2, TabStays
<1>11. ASSUME NEW s \in statuses, DeleteNode(s)
       PROVE  TabInv'
  <2>1. /\ UNCHANGED <<sel, mounted, loads, saving, publishing, posted>> /\ req' = req
        /\ dirty' \in BOOLEAN /\ nodes' \subseteq nodes
        /\ copy' = [copy EXCEPT !.row.graph = {e \in @ : s \notin {e[1], e[2]}}]
    BY <1>11 DEF DeleteNode, DeleteStatus
  <2>2. copy' \in [id : Definitions \cup {None}, row : Row] /\ copy'.id = copy.id /\ copy'.row.life = copy.row.life
    BY <1>1, <2>1, CopyTyped DEF Row
  <2> QED BY <1>2, <1>3, <1>4, <2>1, <2>2, TabStays
<1>12. /\ saving \in [{"button", "publish"} -> [id : Definitions \cup {None}, row : Row]]
       /\ copy \in [id : Definitions \cup {None}, row : Row]
       /\ publishing \in {"no", "saving", "posting", "waiting"}
       /\ posted \in Definitions \cup {None}
       /\ posted # None <=> publishing = "waiting"
       /\ req[Ui].op # "none" => posted = req[Ui].id
  BY DEF TabInv, TabTypeOK
<1>13. IsDraft => copy.id # None /\ sel # None
  BY <1>3, <1>4 DEF IsDraft
<1>14. CASE Save
  <2>1. saving' = [saving EXCEPT !["button"] = copy] /\ copy.id # None /\ req' = req
        /\ sel # None /\ UNCHANGED <<sel, copy, mounted, nodes, dirty, loads, publishing, posted>>
    BY <1>13, <1>14 DEF Save, backend
  <2> QED BY <1>2, <1>12, <2>1 DEF TabInv, TabSane, TabTypeOK
<1>15. CASE ClickPublish
  <2>1. /\ copy.id # None /\ req' = req
        /\ \/ saving' = saving /\ publishing' = "posting"
           \/ saving' = [saving EXCEPT !["publish"] = copy] /\ publishing' = "saving"
        /\ UNCHANGED <<sel, copy, mounted, nodes, dirty, loads, posted>>
    <3>1. CASE dirty
      BY <1>13, <1>15, <3>1 DEF ClickPublish, backend
    <3>2. CASE ~dirty
      BY <1>13, <1>15, <3>2 DEF ClickPublish, backend
    <3> QED BY <3>1, <3>2
  <2>2. publishing = "no" /\ posted = None /\ sel # None /\ saving["publish"] = NoCopy
    BY <1>12, <1>13, <1>15 DEF ClickPublish, TabInv, TabSane
  <2> QED BY <1>2, <1>12, <2>1, <2>2 DEF TabInv, TabSane, TabTypeOK, NoCopy, NoRow
<1>16. ASSUME NEW by \in {"button", "publish"}, Saved(by)
       PROVE  TabInv'
  <2>1. /\ UNCHANGED <<sel, mounted, nodes, loads, posted>> /\ req' = req /\ dirty' \in BOOLEAN
        /\ saving' = [saving EXCEPT ![by] = NoCopy]
        /\ copy' \in {saving[by], copy, NoCopy}
    BY <1>16 DEF Saved, EditorSaves, backend
  <2>2. /\ by = "publish" => publishing = "saving" /\ publishing' = "posting"
        /\ by = "button" => publishing' = publishing
        /\ saving[by].id # None /\ sel # None
    BY <1>16 DEF Saved, TabInv, TabSane
  <2>3. copy' \in [id : Definitions \cup {None}, row : Row] /\ NoCopy \in [id : Definitions \cup {None}, row : Row]
    BY <1>1, <1>12, <2>1, CopyTyped
  <2>4. copy'.id = None => copy'.row.life = "none"
    BY <1>1, <1>4, <2>1, <2>2, CopyTyped
  <2> QED BY <1>2, <1>12, <2>1, <2>2, <2>3, <2>4 DEF TabInv, TabSane, TabTypeOK
<1>17. ASSUME NEW r \in Requests \ {Ui}, Step(r) \/ \E d \in Definitions : Call(r, d)
       PROVE  req'[Ui] = req[Ui]
  <2>1. CASE Step(r)
    BY <1>2, <2>1, EditorAssumption
       DEF Step, ListActive, Read, WritePrev, WriteTarget, Decide, PinDefinition, CutShort
  <2>2. ASSUME NEW d \in Definitions, Call(r, d)
        PROVE  req'[Ui] = req[Ui]
    BY <1>2, <2>2, EditorAssumption DEF Call, Publish, Deprecate, SetDefaultDefinition, Begin
  <2> QED BY <1>17, <2>1, <2>2
<1>18. CASE Others
  <2>1. ASSUME Seed \/ Edit \/ StartCase \/ CaseTypeSaved
        PROVE  req' = req
    BY <2>1 DEF Seed, Edit, StartCase, CaseTypeSaved, CreateDraft, CloneDefinition, EditorSaves, DeleteStatus
  <2>2. req'[Ui] = req[Ui] /\ UNCHANGED view
    BY <1>17, <1>18, <2>1 DEF Others
  <2> QED BY <1>2, <1>3, <1>4, <1>12, <2>2, TabStays DEF view
<1>19. CASE UNCHANGED vars
  BY <1>2, <1>3, <1>4, <1>12, <1>19, TabStays DEF vars, tab, view, backend
<1>20. CASE Step(Ui) /\ UNCHANGED tab
  <2>1. req'[Ui].op # "none" => req[Ui].op # "none"
    BY <1>2, <1>20, EditorAssumption
       DEF Step, ListActive, Read, WritePrev, WriteTarget, Decide, PinDefinition, CutShort, Inv, Typed, Staged
  <2>2. req'[Ui].op # "none" => req'[Ui].id = req[Ui].id
    BY <1>1, <2>1, RequestStays, EditorAssumption DEF Inv
  <2> QED BY <1>12, <1>20, <2>1, <2>2 DEF tab, view, TabInv, TabSane, TabTypeOK
<1>21. CASE Answered
  <2>1. /\ publishing' = "no" /\ posted' = None /\ req' = req /\ req[Ui] = Idle
        /\ UNCHANGED <<sel, mounted, nodes, dirty, loads, saving>>
        /\ copy' = copy \/ copy' = CopyOf(posted, rows[posted])
    BY <1>21 DEF Answered, backend
  <2>2. posted \in Definitions /\ sel # None /\ Idle.op = "none"
    BY <1>21 DEF Answered, TabInv, TabSane, TabTypeOK, Idle
  <2>3. CopyOf(posted, rows[posted]).id # None
    BY <2>2, VersionsAssumption DEF CopyOf
  <2>4. /\ copy' \in [id : Definitions \cup {None}, row : Row]
        /\ copy'.id = None => copy'.row.life = "none"
    BY <1>1, <1>4, <2>1, <2>2, <2>3, CopyTyped
  <2>5. /\ \A by \in {"button", "publish"} : saving[by] # NoCopy => saving[by].id # None
        /\ saving["publish"] = NoCopy
    BY <1>21 DEF Answered, TabInv, TabSane
  <2> QED BY <1>2, <1>12, <2>1, <2>2, <2>4, <2>5 DEF TabInv, TabSane, TabTypeOK
<1>22. CASE Post
  <2>1. /\ UNCHANGED <<sel, copy, mounted, nodes, dirty, loads, saving>>
        /\ publishing = "posting" /\ posted = None /\ sel \in Definitions /\ sel # None
        /\ saving["publish"] = NoCopy
    BY <1>22 DEF Post, TabInv, TabSane, TabTypeOK
  <2>2. CASE publishing' = "no" /\ UNCHANGED <<backend, posted>>
    BY <1>2, <1>12, <2>1, <2>2 DEF backend, TabInv, TabSane, TabTypeOK
  <2>3. CASE Publish(Ui, sel) /\ publishing' = "waiting" /\ posted' = sel
    <3>1. PICK stamped \in {None, rows[sel].graph} :
            req' = [req EXCEPT ![Ui] = [Idle EXCEPT !.op = "publish", !.pc = "list", !.id = sel,
                                                    !.stamped = stamped]]
      BY <2>3 DEF Publish, Begin
    <3>2. req'[Ui].id = sel
      BY <1>2, <3>1, EditorAssumption DEF Idle
    <3> QED BY <1>2, <1>12, <2>1, <2>3, <3>2 DEF TabInv, TabSane, TabTypeOK
  <2> QED BY <1>22, <2>2, <2>3 DEF Post
<1> QED
  BY <1>6, <1>7, <1>8, <1>9, <1>10, <1>11, <1>12, <1>14, <1>15, <1>16, <1>18, <1>19, <1>20, <1>21, <1>22
     DEF EditorNext
------------------------------------------------------------------------------
LEMMA TabHolds == EditorSpec => [](Inv /\ TabInv)
<1>1. EditorInit => Inv /\ TabInv
  <2> SUFFICES ASSUME EditorInit PROVE TabInv
    BY InvHolds DEF EditorInit
  <2>1. NoCopy \in [id : Definitions \cup {None}, row : Row] /\ NoCopy.id = None /\ NoCopy.row.life = "none"
    BY VersionsAssumption DEF NoCopy, NoRow, Row
  <2>2. req[Ui].op = "none"
    BY EditorAssumption DEF EditorInit, Init, Idle
  <2> QED BY <2>1, <2>2 DEF EditorInit, TabInv, TabSane, TabTypeOK
<1>2. Inv /\ TabInv /\ [EditorNext]_vars => (Inv /\ TabInv)'
  <2> SUFFICES ASSUME Inv, TabInv, [EditorNext]_vars PROVE Inv' /\ TabInv'
    OBVIOUS
  <2>1. [Next]_backend
    BY Client DEF Inv
  <2> QED BY <2>1, InvKept, TabKept
<1> QED BY <1>1, <1>2, PTL DEF EditorSpec

(* Tab and backend together do nothing the backend alone could not do.     *)
THEOREM TabIsAClient == EditorSpec => Spec
<1>1. Inv /\ TabInv /\ [EditorNext]_vars => [Next]_backend
  BY Client DEF Inv
<1>2. EditorInit => Init
  BY DEF EditorInit
<1> QED BY <1>1, <1>2, TabHolds, PTL DEF EditorSpec, Spec

(* The variables of the tab and of the backend stay what they are declared  *)
(* as, however answers overtake each other, and a publish that waits knows  *)
(* what it waits for.                                                       *)
THEOREM TabTypeCorrect == EditorSpec => []EditorTypeOK
<1>1. EditorSpec => []TypeOK
  BY TabIsAClient, TypeCorrect, PTL
<1>2. TabInv /\ TypeOK => EditorTypeOK
  BY DEF TabInv, EditorTypeOK
<1> QED BY <1>1, <1>2, TabHolds, PTL

(* So no tab, however stale, makes two versions of a route active.         *)
THEOREM OneActiveDespiteTabs == EditorSpec => []OneActivePerRoute
BY TabIsAClient, OneActive, PTL
------------------------------------------------------------------------------
Unslipped(kinds) == slips \cap kinds = {}

(* Whatever the tab knows of is there; and it only publishes.              *)
Present ==
  /\ sel # None => Exists(sel)
  /\ copy.id # None => Exists(copy.id)
  /\ \A l \in loads : Exists(l.id)
  /\ \A by \in {"button", "publish"} : saving[by] # NoCopy => Exists(saving[by].id)

Own == req[Ui].op \in {"none", "publish"} /\ (req[Ui].op = "publish" => req[Ui].prev # req[Ui].id)

(* While the tab publishes nothing else of its own is under way, ...       *)
Quiet ==
  Unslipped({"editedMeanwhile", "savedTwice"}) =>
    /\ publishing = "saving" => saving["publish"] # NoCopy /\ saving["button"] = NoCopy
    /\ publishing \in {"posting", "waiting"} =>
         ~dirty /\ \A by \in {"button", "publish"} : saving[by] = NoCopy

(* ... so what its request has read is what is stored, ...                 *)
Fresh ==
  Unslipped({"editedMeanwhile", "savedTwice", "rival"}) /\ req[Ui].op # "none" =>
    /\ req[Ui].stamped # None => req[Ui].stamped = rows[req[Ui].id].graph
    /\ req[Ui].pc = "writePrev" => req[Ui].held.graph = rows[req[Ui].prev].graph
    /\ req[Ui].pc = "writeTarget" => req[Ui].held.graph = rows[req[Ui].id].graph
    /\ req[Ui].pc \in {"readPrev", "writePrev"} => rows[req[Ui].prev].life = "published"

(* ... a copy called clean is what is stored, ...                          *)
Stored ==
  /\ Unslipped({"saveFailed", "loadFailed", "editedMeanwhile", "savedTwice", "rival"})
  /\ copy.id # None /\ ~dirty
  => rows[copy.id].graph = copy.row.graph

(* ... and what the tab takes for a draft is one, or just published.       *)
InDraft ==
  Unslipped({"rival", "editedMeanwhile", "savedTwice", "answerLost"}) =>
    /\ IsDraft => \/ rows[copy.id].life = "draft"
                  \/ publishing = "waiting" /\ posted = copy.id /\ rows[posted].life = "published"
    /\ \A by \in {"button", "publish"} : saving[by] # NoCopy => rows[saving[by].id].life = "draft"

Checked ==
  /\ Unslipped({"crossed", "blind", "saveFailed", "loadFailed", "editedMeanwhile", "savedTwice", "rival"})
  /\ req[Ui].pc \in {"list", "readPrev", "writePrev", "readTarget", "writeTarget"}
  => ~Raises(Graph(statuses, rows[req[Ui].id].graph))

TabView == Present /\ Own /\ Quiet /\ Fresh /\ Stored /\ InDraft /\ Checked

(* What undermined the tab's view is not forgotten. *)
LEMMA SlipsStay == [EditorNext]_vars => slips \subseteq slips'
<1>1. CASE Step(Ui) /\ UNCHANGED tab
  BY <1>1 DEF tab
<1>2. CASE Others
  BY <1>2 DEF Others
<1>3. CASE LoadData \/ Save \/ ClickPublish \/ Post \/ Answered
  BY <1>3 DEF LoadData, Save, ClickPublish, Post, Answered
<1>4. ASSUME NEW l \in loads, Loaded(l)
      PROVE  slips \subseteq slips'
  BY <1>4 DEF Loaded
<1>5. ASSUME NEW by \in DOMAIN saving, Saved(by)
      PROVE  slips \subseteq slips'
  BY <1>5 DEF Saved
<1>6. ASSUME NEW graph \in Graphs, EditTransitions(graph)
      PROVE  slips \subseteq slips'
  BY <1>6 DEF EditTransitions
<1>7. ASSUME NEW s \in statuses, DeleteNode(s)
      PROVE  slips \subseteq slips'
  BY <1>7 DEF DeleteNode
<1>8. ASSUME NEW d \in Definitions,
             \/ Open(d) \/ ChangeVersion(d) \/ CreateWorkflow(d) \/ EditPublished(d)
             \/ \E graph \in Graphs : ImportWorkflow(d, graph)
      PROVE  slips \subseteq slips'
  BY <1>8 DEF Open, ChangeVersion, CreateWorkflow, EditPublished, ImportWorkflow, NewDraft
<1>9. CASE UNCHANGED vars
  BY <1>9 DEF vars, tab
<1> QED BY <1>1, <1>2, <1>3, <1>4, <1>5, <1>6, <1>7, <1>8, <1>9 DEF EditorNext

(* A publish of the tab is what it waits for. *)
LEMMA UiFacts ==
  ASSUME Typed, TabInv, Own
  PROVE  /\ req[Ui] \in Request
         /\ req[Ui].pc \in {"list", "readPrev", "writePrev", "readTarget", "writeTarget"} => req[Ui].op # "none"
         /\ req[Ui].op # "none" =>
              /\ req[Ui].op = "publish" /\ req[Ui].id \in Definitions /\ req[Ui].id # None /\ Exists(req[Ui].id)
              /\ posted = req[Ui].id /\ publishing = "waiting" /\ sel # None
         /\ req[Ui].prev # None => req[Ui].prev \in Definitions /\ Exists(req[Ui].prev)
         /\ req[Ui].pc \in {"readPrev", "writePrev"} => req[Ui].prev # None
<1>1. req[Ui] \in Request /\ Ui \in Requests
  BY EditorAssumption DEF Typed, TypeOK
<1>2. req[Ui].op # "none" => req[Ui].op = "publish" /\ req[Ui].id \in Definitions /\ req[Ui].id # None /\ Exists(req[Ui].id)
  BY <1>1 DEF Own, Typed, TypeOK, Request
<1>3. req[Ui].op # "none" => posted = req[Ui].id /\ publishing = "waiting" /\ sel # None
  BY <1>2 DEF TabInv, TabTypeOK, TabSane
<1> QED BY <1>1, <1>2, <1>3 DEF Typed, TypeOK, Staged, Request

(* Where nothing of what exists is changed, the publish of the tab goes on *)
(* from what it has read and checked.                                      *)
LEMMA PublishUndisturbed ==
  ASSUME Typed, TabInv, Own, Fresh, Checked, slips \subseteq slips', req'[Ui] = req[Ui],
         statuses' = statuses,
         \A d \in Definitions : Exists(d) => rows'[d] = rows[d]
  PROVE  Own' /\ Fresh' /\ Checked'
<1>1. /\ req[Ui].op # "none" => rows'[req[Ui].id] = rows[req[Ui].id]
      /\ req[Ui].pc \in {"readPrev", "writePrev"} => rows'[req[Ui].prev] = rows[req[Ui].prev]
  BY UiFacts
<1>2. Own'
  BY DEF Own
<1>3. Fresh'
  BY <1>1 DEF Fresh, Unslipped
<1>4. Checked'
  BY <1>1, UiFacts DEF Checked, Unslipped
<1> QED BY <1>2, <1>3, <1>4

LEMMA Remaining ==
  ASSUME Typed, TabInv, TabView, [EditorNext]_vars,
         req'[Ui] = req[Ui], statuses' = statuses,
         \A d \in Definitions : Exists(d) => rows'[d] = rows[d]
  PROVE  Own' /\ Fresh' /\ Checked' /\ \A d \in Definitions : Exists(d) => Exists(d)'
BY SlipsStay, PublishUndisturbed DEF TabView, Exists

LEMMA DraftsNew ==
  ASSUME Typed, TabInv, TabView, [EditorNext]_vars,
         NEW d \in Definitions, NEW graph, NewDraft(d, graph)
  PROVE  TabView'
<1>1. /\ ~Exists(d) /\ rows' = [rows EXCEPT ![d] = Draft(Standaard, graph)]
      /\ req' = req /\ statuses' = statuses
      /\ UNCHANGED <<dirty, loads, saving, publishing, posted, slips>>
      /\ sel' = d /\ copy' = CopyOf(d, Draft(Standaard, graph))
  BY DEF NewDraft, CreateDraft
<1>2. rows'[d] = Draft(Standaard, graph) /\ \A e \in Definitions : Exists(e) => rows'[e] = rows[e]
  BY <1>1 DEF Typed, TypeOK
<1>3. Own' /\ Fresh' /\ Checked' /\ \A e \in Definitions : Exists(e) => Exists(e)'
  BY <1>1, <1>2, Remaining
<1>4. /\ copy'.id = d /\ copy'.row = rows'[d] /\ rows'[d].life = "draft"
  BY <1>1, <1>2 DEF CopyOf, Draft
<1>5. /\ \A l \in loads : l.id \in Definitions
      /\ \A by \in {"button", "publish"} : saving[by] # NoCopy => saving[by].id \in Definitions
  BY DEF TabInv, TabSane, TabTypeOK
<1>6. Present'
  BY <1>1, <1>3, <1>4, <1>5 DEF TabView, Present, Exists
<1>7. Quiet' /\ Stored'
  BY <1>1, <1>4 DEF TabView, Quiet, Stored, Unslipped
<1>8. InDraft'
  BY <1>1, <1>2, <1>4, <1>5 DEF TabView, InDraft, Present, Unslipped
<1> QED BY <1>3, <1>6, <1>7, <1>8 DEF TabView

LEMMA Selecting ==
  ASSUME Typed, TabInv, TabView, [EditorNext]_vars,
         LoadData \/ \E d \in Definitions : Open(d) \/ ChangeVersion(d)
  PROVE  TabView'
<1>1. /\ UNCHANGED <<backend, copy, dirty, saving, publishing, posted, slips>>
      /\ sel' # None => sel' \in Definitions /\ Exists(sel')
      /\ \A l \in loads' : l \in loads \/ (l.id = sel' /\ sel' # None)
  <2>1. ASSUME NEW d \in Definitions, Open(d) \/ ChangeVersion(d)
        PROVE  /\ UNCHANGED <<backend, copy, dirty, saving, publishing, posted, slips>>
               /\ sel' = d /\ Exists(d) /\ \A l \in loads' : l \in loads \/ l.id = d
    BY <2>1 DEF Open, ChangeVersion
  <2>2. CASE LoadData
    BY <2>2 DEF LoadData, TabView, Present, TabInv, TabTypeOK
  <2> QED BY <2>1, <2>2, VersionsAssumption
<1>2. Own' /\ Fresh' /\ Checked'
  BY <1>1, Remaining DEF backend
<1>3. Present'
  BY <1>1 DEF TabView, Present, Exists, backend
<1>4. Quiet' /\ Stored'
  BY <1>1 DEF TabView, Quiet, Stored, Unslipped, backend
<1>5. InDraft'
  BY <1>1 DEF TabView, InDraft, Unslipped, backend, IsDraft
<1> QED BY <1>2, <1>3, <1>4, <1>5 DEF TabView

LEMMA Loading ==
  ASSUME Typed, TabInv, TabView, [EditorNext]_vars, NEW l \in loads, Loaded(l)
  PROVE  TabView'
<1>1. /\ UNCHANGED <<backend, sel, saving, publishing, posted>>
      /\ loads' \subseteq loads /\ (dirty' => dirty) /\ slips \subseteq slips'
      /\ \/ copy' = CopyOf(l.id, rows[l.id])
         \/ copy' \in {copy, NoCopy} /\ "loadFailed" \in slips'
  BY DEF Loaded
<1>2. Own' /\ Fresh' /\ Checked'
  BY <1>1, Remaining DEF backend
<1>3. NoCopy.id = None /\ NoCopy.row.life = "none" /\ l.id \in Definitions /\ Exists(l.id)
  BY DEF NoCopy, NoRow, TabView, Present, TabInv, TabTypeOK
<1>4. Present'
  BY <1>1, <1>3 DEF TabView, Present, Exists, backend, CopyOf
<1>5. Quiet'
  BY <1>1 DEF TabView, Quiet, Unslipped
<1>6. Stored'
  BY <1>1, <1>3 DEF Stored, Unslipped, backend, CopyOf
<1>7. InDraft'
  BY <1>1, <1>3 DEF TabView, InDraft, Unslipped, backend, IsDraft, CopyOf
<1> QED BY <1>2, <1>4, <1>5, <1>6, <1>7 DEF TabView

LEMMA Editing ==
  ASSUME Typed, TabInv, TabView, [EditorNext]_vars, NEW graph \in Graphs, EditTransitions(graph)
  PROVE  TabView'
<1>1. /\ UNCHANGED <<backend, sel, loads, saving, publishing, posted>> /\ dirty'
      /\ slips' = slips \cup Meanwhile /\ copy' = [copy EXCEPT !.row.graph = graph]
  BY DEF EditTransitions
<1>2. Own' /\ Fresh' /\ Checked'
  BY <1>1, Remaining DEF backend
<1>3. copy'.id = copy.id /\ copy'.row.life = copy.row.life
  BY <1>1 DEF TabInv, TabTypeOK, Row
<1>4. Present'
  BY <1>1, <1>3 DEF TabView, Present, Exists, backend
<1>5. Quiet'
  BY <1>1 DEF TabView, Quiet, Unslipped, Meanwhile, Busy
<1>6. Stored'
  BY <1>1 DEF Stored
<1>7. InDraft'
  BY <1>1, <1>3 DEF TabView, InDraft, Unslipped, backend, IsDraft
<1> QED BY <1>2, <1>4, <1>5, <1>6, <1>7 DEF TabView

LEMMA Deleting ==
  ASSUME Typed, TabInv, TabView, [EditorNext]_vars, NEW s \in statuses, DeleteNode(s)
  PROVE  TabView'
<1>1. /\ UNCHANGED <<rows, req, sel, loads, saving, publishing, posted>> /\ dirty'
      /\ slips' = slips \cup Meanwhile
      /\ copy' = [copy EXCEPT !.row.graph = {e \in @ : s \notin {e[1], e[2]}}]
  BY DEF DeleteNode, DeleteStatus
<1>2. Own' /\ Fresh'
  BY <1>1 DEF TabView, Own, Fresh, Unslipped
<1>3. Checked'
  <2>1. req[Ui].pc \in {"list", "readPrev", "writePrev", "readTarget", "writeTarget"} => "editedMeanwhile" \in slips'
    BY <1>1, UiFacts DEF TabView, Meanwhile, Busy
  <2> QED BY <1>1, <2>1 DEF Checked, Unslipped
<1>4. copy'.id = copy.id /\ copy'.row.life = copy.row.life
  BY <1>1 DEF TabInv, TabTypeOK, Row
<1>5. Present'
  BY <1>1, <1>4 DEF TabView, Present, Exists
<1>6. Quiet'
  BY <1>1 DEF TabView, Quiet, Unslipped, Meanwhile, Busy
<1>7. Stored'
  BY <1>1 DEF Stored
<1>8. InDraft'
  BY <1>1, <1>4 DEF TabView, InDraft, Unslipped, IsDraft
<1> QED BY <1>2, <1>3, <1>5, <1>6, <1>7, <1>8 DEF TabView

LEMMA Saving ==
  ASSUME Typed, TabInv, TabView, [EditorNext]_vars, Save
  PROVE  TabView'
<1>1. /\ UNCHANGED <<backend, sel, copy, dirty, loads, publishing, posted, slips>>
      /\ IsDraft /\ dirty /\ \A by \in {"button", "publish"} : saving[by] = NoCopy
      /\ saving'["button"] = copy /\ saving'["publish"] = NoCopy
  BY DEF Save, TabInv, TabTypeOK
<1>2. Own' /\ Fresh' /\ Checked'
  BY <1>1, Remaining DEF backend
<1>3. copy.id # None
  BY <1>1 DEF TabInv, TabSane, IsDraft
<1>4. Present'
  BY <1>1, <1>3 DEF TabView, Present, Exists, backend
<1>5. Quiet'
  BY <1>1 DEF TabView, Quiet, Unslipped
<1>6. Stored'
  BY <1>1 DEF Stored
<1>7. InDraft'
  BY <1>1 DEF TabView, InDraft, Quiet, Unslipped, backend, IsDraft
<1> QED BY <1>2, <1>4, <1>5, <1>6, <1>7 DEF TabView

LEMMA Publishes ==
  ASSUME Typed, TabInv, TabView, [EditorNext]_vars, ClickPublish
  PROVE  TabView'
<1>1. /\ UNCHANGED <<backend, sel, copy, dirty, loads, posted>>
      /\ IsDraft /\ publishing = "no" /\ saving["publish"] = NoCopy
      /\ saving'["button"] = saving["button"]
      /\ \/ ~dirty /\ publishing' = "posting" /\ saving'["publish"] = NoCopy
         \/ dirty /\ publishing' = "saving" /\ saving'["publish"] = copy
      /\ slips \subseteq slips' /\ (saving["button"] # NoCopy => "savedTwice" \in slips')
  <2>1. saving["publish"] = NoCopy /\ dirty \in BOOLEAN
    BY DEF ClickPublish, TabInv, TabSane, TabTypeOK
  <2>2. CASE dirty
    BY <2>1, <2>2 DEF ClickPublish, TabInv, TabTypeOK
  <2>3. CASE ~dirty
    BY <2>1, <2>3 DEF ClickPublish, TabInv, TabTypeOK
  <2> QED BY <2>1, <2>2, <2>3
<1>2. Own' /\ Fresh' /\ Checked'
  BY <1>1, Remaining DEF backend
<1>3. copy.id # None /\ NoCopy.id = None
  BY <1>1 DEF TabInv, TabSane, IsDraft, NoCopy
<1>4. Present'
  BY <1>1, <1>3 DEF TabView, Present, Exists, backend
<1>5. Quiet'
  BY <1>1, <1>3 DEF Quiet, Unslipped
<1>6. Stored'
  BY <1>1 DEF TabView, Stored, Unslipped, backend
<1>7. InDraft'
  BY <1>1 DEF TabView, InDraft, Unslipped, backend, IsDraft
<1> QED BY <1>2, <1>4, <1>5, <1>6, <1>7 DEF TabView

LEMMA SaveFails ==
  ASSUME Typed, TabInv, TabView, [EditorNext]_vars, NEW by \in {"button", "publish"}, Saved(by), UNCHANGED backend,
         copy' \in {copy, NoCopy}, slips' = slips \cup {"saveFailed"}
  PROVE  TabView'
<1>1. /\ UNCHANGED <<sel, loads, posted>> /\ ~dirty'
      /\ saving[by] # NoCopy /\ saving' = [saving EXCEPT ![by] = NoCopy]
      /\ by = "publish" => publishing = "saving" /\ publishing' = "posting"
      /\ by = "button" => publishing' = publishing
  BY DEF Saved, TabInv, TabSane
<1>2. Own' /\ Fresh' /\ Checked'
  BY Remaining DEF backend
<1>3. NoCopy.id = None /\ NoCopy.row.life = "none"
  BY DEF NoCopy, NoRow
<1>4. \A other \in {"button", "publish"} : saving'[other] = IF other = by THEN NoCopy ELSE saving[other]
  BY <1>1 DEF TabInv, TabTypeOK
<1>5. Present'
  BY <1>1, <1>3, <1>4 DEF TabView, Present, Exists, backend
<1>6. Quiet'
  BY <1>1, <1>4 DEF TabView, Quiet, Unslipped
<1>7. Stored'
  BY DEF Stored, Unslipped
<1>8. InDraft'
  BY <1>1, <1>3, <1>4 DEF TabView, InDraft, Quiet, Unslipped, backend, IsDraft
<1> QED BY <1>2, <1>5, <1>6, <1>7, <1>8 DEF TabView

LEMMA SaveDone ==
  ASSUME Typed, Placed, TabInv, TabView, [EditorNext]_vars, NEW by \in {"button", "publish"}, Saved(by),
         EditorSaves(saving[by].id, saving[by].row.graph), copy' = saving[by], UNCHANGED slips
  PROVE  TabView'
<1>1. /\ UNCHANGED <<sel, loads, posted>> /\ ~dirty' /\ req' = req /\ statuses' = statuses
      /\ saving[by] # NoCopy /\ saving' = [saving EXCEPT ![by] = NoCopy]
      /\ by = "publish" => publishing = "saving" /\ publishing' = "posting"
      /\ by = "button" => publishing' = publishing
  BY DEF Saved, TabInv, TabSane, EditorSaves
<1>2. saving[by].id \in Definitions /\ saving[by].id # None /\ Exists(saving[by].id)
  BY <1>1 DEF TabInv, TabSane, TabTypeOK, TabView, Present
<1>3. \A d \in Definitions :
        IF d = saving[by].id THEN rows'[d].life = "draft" /\ rows'[d].graph = saving[by].row.graph
        ELSE rows'[d] = rows[d]
  BY <1>2 DEF EditorSaves, Draft, Typed, TypeOK
<1>4. \A other \in {"button", "publish"} : saving'[other] = IF other = by THEN NoCopy ELSE saving[other]
  BY <1>1 DEF TabInv, TabTypeOK
<1>5. /\ \A d \in Definitions : Exists(d) => Exists(d)'
      /\ \A l \in loads : l.id \in Definitions
      /\ sel # None => sel \in Definitions
      /\ \A other \in {"button", "publish"} : saving[other] # NoCopy => saving[other].id \in Definitions
  BY <1>3 DEF Exists, TabInv, TabTypeOK, TabSane
<1>6. Present'
  BY <1>1, <1>2, <1>4, <1>5 DEF TabView, Present
<1>7. Quiet'
  BY <1>1, <1>4 DEF TabView, Quiet, Unslipped
<1>8. Unslipped({"editedMeanwhile", "savedTwice"}) => req[Ui].op = "none"
  BY <1>1, UiFacts DEF TabView, Quiet
<1>9. Own' /\ Fresh' /\ Checked'
  BY <1>1, <1>8, UiFacts DEF TabView, Own, Fresh, Checked, Unslipped
<1>10. Stored'
  BY <1>2, <1>3 DEF Stored
<1>11. InDraft'
  BY <1>1, <1>2, <1>3, <1>4, <1>5 DEF TabView, InDraft, Unslipped, IsDraft
<1> QED BY <1>6, <1>7, <1>9, <1>10, <1>11 DEF TabView

LEMMA Refused ==
  ASSUME Typed, TabInv, TabView, [EditorNext]_vars,
         UNCHANGED <<backend, sel, copy, dirty, loads, saving, posted, slips>>,
         publishing = "posting", publishing' = "no"
  PROVE  TabView'
<1>1. Own' /\ Fresh' /\ Checked'
  BY Remaining DEF backend
<1>2. Present' /\ Quiet' /\ Stored'
  BY DEF TabView, Present, Quiet, Stored, Exists, Unslipped, backend
<1>3. InDraft'
  BY DEF TabView, InDraft, Unslipped, IsDraft, backend
<1> QED BY <1>1, <1>2, <1>3 DEF TabView

LEMMA Posting ==
  ASSUME Typed, TabInv, TabView, [EditorNext]_vars, Post, Publish(Ui, sel), ~Raises(Shown),
         publishing = "posting", publishing' = "waiting", posted' = sel,
         slips' = slips \cup (IF sel # copy.id THEN {"crossed"} ELSE {})
                        \cup (IF nodes # statuses THEN {"blind"} ELSE {})
  PROVE  TabView'
<1>1. UNCHANGED <<rows, statuses, sel, copy, nodes, dirty, loads, saving>>
  BY DEF Post, Publish, Begin
<1>2. PICK stamped \in {None, rows[sel].graph} :
        req' = [req EXCEPT ![Ui] = [Idle EXCEPT !.op = "publish", !.pc = "list", !.id = sel, !.stamped = stamped]]
  BY DEF Publish, Begin
<1>3. /\ req'[Ui].op = "publish" /\ req'[Ui].pc = "list" /\ req'[Ui].id = sel
      /\ req'[Ui].prev = None /\ req'[Ui].stamped = stamped
  BY <1>2, EditorAssumption DEF Idle, Typed, TypeOK
<1>4. sel # None
  BY DEF TabInv, TabSane
<1>5. Own' /\ Fresh'
  BY <1>1, <1>3, <1>4 DEF Own, Fresh
<1>6. Checked'
  <2> SUFFICES ASSUME Unslipped({"crossed", "blind", "saveFailed", "loadFailed", "editedMeanwhile",
                                 "savedTwice", "rival"})'
               PROVE  ~Raises(Graph(statuses, rows[sel].graph))
    BY <1>1, <1>3 DEF Checked
  <2>1. /\ sel = copy.id /\ nodes = statuses /\ slips' = slips
        /\ Unslipped({"saveFailed", "loadFailed", "editedMeanwhile", "savedTwice", "rival"})
    BY DEF Unslipped
  <2>2. rows[sel].graph = copy.row.graph
    <3>1. ~dirty
      BY <2>1 DEF TabView, Quiet, Unslipped
    <3> QED BY <1>4, <2>1, <3>1 DEF TabView, Stored
  <2> QED BY <2>1, <2>2 DEF Shown
<1>7. Present' /\ Quiet' /\ Stored'
  BY <1>1 DEF TabView, Present, Quiet, Stored, Exists, Unslipped
<1>8. InDraft'
  BY <1>1 DEF TabView, InDraft, Unslipped, IsDraft
<1> QED BY <1>5, <1>6, <1>7, <1>8 DEF TabView

LEMMA Answering ==
  ASSUME Typed, TabInv, TabView, [EditorNext]_vars, Answered
  PROVE  TabView'
<1>1. /\ UNCHANGED <<backend, sel, dirty, loads, saving>> /\ publishing' = "no"
      /\ publishing = "waiting" /\ slips \subseteq slips'
      /\ \/ rows[posted].life = "published" /\ copy' = CopyOf(posted, rows[posted])
         \/ copy' = copy /\ (rows[posted].life = "draft" \/ "answerLost" \in slips')
  BY DEF Answered
<1>2. Own' /\ Fresh' /\ Checked'
  BY <1>1, Remaining DEF backend
<1>3. posted \in Definitions /\ posted # None
  BY <1>1 DEF TabInv, TabTypeOK
<1>4. Present'
  BY <1>1, <1>3 DEF TabView, Present, Exists, backend, CopyOf
<1>5. Quiet'
  BY <1>1 DEF Quiet
<1>6. Stored'
  BY <1>1, <1>3 DEF TabView, Stored, Unslipped, backend, CopyOf
<1>7. InDraft'
  BY <1>1, <1>3 DEF TabView, InDraft, Unslipped, backend, IsDraft, CopyOf
<1> QED BY <1>2, <1>4, <1>5, <1>6, <1>7 DEF TabView

(* What others change of what is there is on record once the tab is open.  *)
LEMMA Meddling ==
  ASSUME Typed, Placed, TabInv, TabView, [EditorNext]_vars, [Next]_backend, Others
  PROVE  TabView'
<1>1. /\ UNCHANGED <<sel, copy, dirty, loads, saving, publishing, posted>> /\ slips \subseteq slips'
      /\ sel # None /\ "rival" \notin slips' =>
           statuses' = statuses /\ \A d \in Definitions : Exists(d) => rows'[d] = rows[d]
  BY DEF Others, view
<1>2. req'[Ui] = req[Ui]
  <2>1. ASSUME Seed \/ Edit \/ StartCase \/ CaseTypeSaved
        PROVE  req' = req
    BY <2>1 DEF Seed, Edit, StartCase, CaseTypeSaved, CreateDraft, CloneDefinition, EditorSaves, DeleteStatus
  <2>2. ASSUME NEW r \in Requests \ {Ui}, Step(r)
        PROVE  req'[Ui] = req[Ui]
    BY <2>2, EditorAssumption
       DEF Step, ListActive, Read, WritePrev, WriteTarget, Decide, PinDefinition, CutShort, Typed, TypeOK
  <2>3. ASSUME NEW r \in Requests \ {Ui}, NEW d \in Definitions, Call(r, d)
        PROVE  req'[Ui] = req[Ui]
    BY <2>3, EditorAssumption
       DEF Call, Publish, Deprecate, SetDefaultDefinition, Begin, Typed, TypeOK
  <2> QED BY <2>1, <2>2, <2>3 DEF Others
<1>3. /\ sel # None => sel \in Definitions
      /\ copy.id # None => copy.id \in Definitions /\ sel # None
      /\ \A l \in loads : l.id \in Definitions
      /\ \A by \in {"button", "publish"} : saving[by] # NoCopy => saving[by].id \in Definitions /\ sel # None
      /\ posted # None => posted \in Definitions
  BY DEF TabInv, TabSane, TabTypeOK
<1>4. Present'
  BY <1>1, <1>3, RowsStay DEF TabView, Present
<1>5. Quiet'
  BY <1>1 DEF TabView, Quiet, Unslipped
<1>6. Own' /\ Fresh' /\ Checked'
  <2>1. Own'
    BY <1>2 DEF TabView, Own
  <2>2. CASE "rival" \in slips' \/ req[Ui].op = "none"
    BY <1>2, <2>1, <2>2, UiFacts DEF TabView, Fresh, Checked, Unslipped
  <2>3. CASE "rival" \notin slips' /\ sel # None
    BY <1>1, <1>2, <2>3, PublishUndisturbed DEF TabView
  <2> QED BY <2>2, <2>3, UiFacts DEF TabView
<1>7. Stored'
  BY <1>1, <1>3 DEF TabView, Stored, Present, Unslipped
<1>8. InDraft'
  <2>1. IsDraft => copy.id # None
    BY DEF TabInv, TabSane, IsDraft
  <2>2. publishing = "waiting" => posted # None
    BY DEF TabInv, TabTypeOK
  <2>3. ASSUME "rival" \notin slips', sel # None, NEW d \in Definitions, rows[d].life \in {"draft", "published"}
        PROVE  rows'[d] = rows[d]
    BY <1>1, <2>3 DEF Exists
  <2> QED BY <1>1, <1>3, <2>1, <2>2, <2>3 DEF TabView, InDraft, IsDraft, Unslipped
<1> QED BY <1>4, <1>5, <1>6, <1>7, <1>8 DEF TabView

(* What the tab's own publish makes of the versions, when nobody interferes. *)
LEMMA UiWrites ==
  ASSUME Typed, Placed, TabInv, Own, Fresh, Step(Ui), Unslipped({"editedMeanwhile", "savedTwice", "rival"}),
         NEW d \in Definitions
  PROVE  /\ rows'[d].graph = rows[d].graph
         /\ \/ rows'[d].life = rows[d].life
            \/ WritePrev(Ui) /\ d = req[Ui].prev /\ rows[d].life = "published" /\ rows'[d].life = "deprecated"
            \/ WriteTarget(Ui) /\ d = posted /\ rows'[d].life = "published"
<1>1. req[Ui] \in Request /\ req[Ui].op # "none"
  BY UiFacts, EditorAssumption DEF Step, ListActive, Read, WritePrev, WriteTarget, Decide, PinDefinition, CutShort, Typed, Staged
<1>2. CASE WritePrev(Ui)
  <2>1. req[Ui].held.graph = rows[req[Ui].prev].graph /\ rows[req[Ui].prev].life = "published"
    BY <1>1, <1>2 DEF WritePrev, Fresh
  <2>2. /\ [req[Ui].held EXCEPT !.life = "deprecated"].life = "deprecated"
        /\ [req[Ui].held EXCEPT !.life = "deprecated"].graph = rows[req[Ui].prev].graph
    BY <1>1, <2>1 DEF Request, Row
  <2>3. IF d = req[Ui].prev THEN rows'[d] = [req[Ui].held EXCEPT !.life = "deprecated"] ELSE rows'[d] = rows[d]
    BY <1>2 DEF WritePrev, Typed, TypeOK
  <2> QED BY <1>2, <2>1, <2>2, <2>3
<1>3. CASE WriteTarget(Ui)
  <2> DEFINE graph == IF req[Ui].stamped # None THEN req[Ui].stamped ELSE req[Ui].held.graph
             row == [req[Ui].held EXCEPT !.life = "published", !.graph = graph]
  <2>1. graph = rows[req[Ui].id].graph
    BY <1>1, <1>3 DEF WriteTarget, Fresh
  <2>2. row.life = "published" /\ row.graph = graph
    BY <1>1 DEF Request, Row
  <2>3. rows' = [rows EXCEPT ![req[Ui].id] = row]
    BY <1>3 DEF WriteTarget
  <2> HIDE DEF row, graph
  <2>4. IF d = req[Ui].id THEN rows'[d] = row ELSE rows'[d] = rows[d]
    BY <2>3 DEF Typed, TypeOK
  <2> QED BY <1>1, <1>3, <2>1, <2>2, <2>4, UiFacts
<1>4. CASE ~WritePrev(Ui) /\ ~WriteTarget(Ui)
  BY <1>4 DEF Step, ListActive, Read, Decide, PinDefinition, CutShort
<1> QED BY <1>2, <1>3, <1>4

(* How far the tab's publish is after a step.                              *)
LEMMA UiMoves ==
  ASSUME Typed, Placed, TabInv, Own, [Next]_backend, Step(Ui), req'[Ui].op # "none"
  PROVE  /\ req'[Ui].op = "publish" /\ req'[Ui].id = req[Ui].id /\ req'[Ui].prev # req[Ui].id
         /\ req'[Ui].stamped \in {req[Ui].stamped, None}
         /\ \/ /\ req[Ui].pc = "list" /\ UNCHANGED rows
               /\ \/ req'[Ui].pc = "readTarget"
                  \/ req'[Ui].pc = "readPrev" /\ req'[Ui].prev \in Active(RouteOf(Ui))
            \/ /\ req[Ui].pc = "readPrev" /\ UNCHANGED rows
               /\ req'[Ui].pc = "writePrev" /\ req'[Ui].prev = req[Ui].prev /\ req'[Ui].held = rows[req[Ui].prev]
            \/ /\ req[Ui].pc = "readTarget" /\ UNCHANGED rows
               /\ req'[Ui].pc = "writeTarget" /\ req'[Ui].held = rows[req[Ui].id]
            \/ req[Ui].pc = "writePrev" /\ req'[Ui].pc = "readTarget"
            \/ req'[Ui].pc \in {"decide", "pin"}
<1>1. /\ Ui \in Requests /\ req[Ui] \in Request /\ req[Ui].op = "publish" /\ req[Ui].prev # req[Ui].id
      /\ req \in [Requests -> Request]
  BY UiFacts, EditorAssumption
     DEF Step, ListActive, Read, WritePrev, WriteTarget, Decide, PinDefinition, CutShort, Typed, TypeOK, Staged, Own
<1>2. req'[Ui].op = "publish" /\ req'[Ui].id = req[Ui].id
  BY <1>1, RequestStays
<1>3. CASE ListActive(Ui)
  <2>1. CASE req' = [req EXCEPT ![Ui].pc = "readTarget"]
    BY <1>1, <1>2, <1>3, <2>1 DEF ListActive, Request
  <2>2. ASSUME NEW prev \in Active(RouteOf(Ui)) \ {req[Ui].id},
               req' = [req EXCEPT ![Ui].pc = "readPrev", ![Ui].prev = prev]
        PROVE  /\ req'[Ui].pc = "readPrev" /\ req'[Ui].prev = prev /\ req'[Ui].stamped = req[Ui].stamped
    BY <1>1, <2>2 DEF Request
  <2> QED BY <1>2, <1>3, <2>1, <2>2 DEF ListActive
<1>4. CASE Read(Ui)
  <2>1. CASE req[Ui].pc = "readPrev"
    <3>1. req' = [req EXCEPT ![Ui].pc = "writePrev", ![Ui].held = rows[req[Ui].prev]] /\ UNCHANGED rows
      BY <1>4, <2>1 DEF Read
    <3>2. /\ req'[Ui].pc = "writePrev" /\ req'[Ui].held = rows[req[Ui].prev]
          /\ req'[Ui].prev = req[Ui].prev /\ req'[Ui].stamped = req[Ui].stamped
      BY <1>1, <3>1 DEF Request
    <3> QED BY <1>1, <1>2, <2>1, <3>1, <3>2
  <2>2. CASE req[Ui].pc = "readTarget"
    <3>1. req' = [req EXCEPT ![Ui].pc = "writeTarget", ![Ui].held = rows[req[Ui].id]] /\ UNCHANGED rows
      BY <1>4, <2>2 DEF Read
    <3>2. /\ req'[Ui].pc = "writeTarget" /\ req'[Ui].held = rows[req[Ui].id]
          /\ req'[Ui].prev = req[Ui].prev /\ req'[Ui].stamped = req[Ui].stamped
      BY <1>1, <3>1 DEF Request
    <3> QED BY <1>1, <1>2, <2>2, <3>1, <3>2
  <2> QED BY <1>4, <2>1, <2>2 DEF Read
<1>5. CASE WritePrev(Ui)
  <2>1. req[Ui].pc = "writePrev" /\ req' = [req EXCEPT ![Ui].pc = "readTarget", ![Ui].held = NoRow]
    BY <1>1, <1>5 DEF WritePrev
  <2>2. req'[Ui].pc = "readTarget" /\ req'[Ui].prev = req[Ui].prev /\ req'[Ui].stamped = req[Ui].stamped
    BY <1>1, <2>1 DEF Request
  <2> QED BY <1>1, <1>2, <2>1, <2>2
<1>6. CASE WriteTarget(Ui)
  <2>1. req'[Ui] = [Idle EXCEPT !.op = "publish", !.pc = "decide", !.id = req[Ui].id]
    BY <1>1, <1>6 DEF WriteTarget
  <2>2. req[Ui].id # None
    BY <1>1, UiFacts
  <2> QED BY <1>2, <2>1, <2>2 DEF Idle
<1>7. CASE Decide(Ui)
  <2>1. req' = [req EXCEPT ![Ui].pc = "pin"]
    BY <1>1, <1>2, <1>7 DEF Decide, Idle
  <2>2. req'[Ui].pc = "pin" /\ req'[Ui].prev = req[Ui].prev /\ req'[Ui].stamped = req[Ui].stamped
    BY <1>1, <2>1 DEF Request
  <2> QED BY <1>1, <1>2, <2>2
<1>8. ~PinDefinition(Ui) /\ ~CutShort(Ui)
  BY <1>1, <1>2 DEF PinDefinition, CutShort, Idle
<1> QED BY <1>3, <1>4, <1>5, <1>6, <1>7, <1>8 DEF Step

LEMMA OwnPublish ==
  ASSUME Typed, Placed, TabInv, TabView, [EditorNext]_vars, [Next]_backend, Step(Ui), UNCHANGED tab
  PROVE  TabView'
<1>1. /\ UNCHANGED <<sel, copy, dirty, loads, saving, publishing, posted, slips>>
      /\ statuses' = statuses /\ Own /\ Fresh
  BY DEF tab, view, Step, ListActive, Read, WritePrev, WriteTarget, Decide, PinDefinition, CutShort, TabView
<1>2. /\ req[Ui] \in Request /\ req[Ui].op = "publish" /\ req[Ui].id \in Definitions
      /\ posted = req[Ui].id /\ publishing = "waiting"
  BY <1>1, UiFacts, EditorAssumption
     DEF Step, ListActive, Read, WritePrev, WriteTarget, Decide, PinDefinition, CutShort, Typed, Staged
<1>3. /\ sel # None => sel \in Definitions
      /\ copy.id # None => copy.id \in Definitions
      /\ \A l \in loads : l.id \in Definitions
      /\ \A by \in {"button", "publish"} : saving[by] # NoCopy => saving[by].id \in Definitions
  BY DEF TabInv, TabSane, TabTypeOK
<1>4. Present'
  BY <1>1, <1>3, RowsStay DEF TabView, Present
<1>5. Quiet'
  BY <1>1 DEF TabView, Quiet, Unslipped
<1>6. Own'
  <2>1. CASE req'[Ui].op = "none"
    BY <2>1 DEF Own
  <2>2. CASE req'[Ui].op # "none"
    BY <1>1, <2>2, UiMoves DEF Own
  <2> QED BY <2>1, <2>2
<1>7. Stored'
  <2> SUFFICES ASSUME Unslipped({"saveFailed", "loadFailed", "editedMeanwhile", "savedTwice", "rival"}),
                      copy.id # None, ~dirty
               PROVE  rows'[copy.id].graph = copy.row.graph
    BY <1>1 DEF Stored, Unslipped
  <2>1. Unslipped({"editedMeanwhile", "savedTwice", "rival"})
    BY DEF Unslipped
  <2> QED BY <1>1, <1>3, <2>1, UiWrites DEF TabView, Stored
<1>8. InDraft'
  <2> SUFFICES ASSUME Unslipped({"rival", "editedMeanwhile", "savedTwice", "answerLost"})
               PROVE  /\ IsDraft => \/ rows'[copy.id].life = "draft"
                                    \/ posted = copy.id /\ rows'[posted].life = "published"
                      /\ \A by \in {"button", "publish"} : saving[by] = NoCopy
    BY <1>1, <1>2 DEF InDraft, Unslipped, IsDraft
  <2>1. Unslipped({"editedMeanwhile", "savedTwice", "rival"}) /\ Unslipped({"editedMeanwhile", "savedTwice"})
    BY DEF Unslipped
  <2>2. \A by \in {"button", "publish"} : saving[by] = NoCopy
    BY <1>2, <2>1 DEF TabView, Quiet
  <2>3. ASSUME IsDraft
        PROVE  \/ rows'[copy.id].life = "draft"
               \/ posted = copy.id /\ rows'[posted].life = "published"
    <3>1. copy.id # None
      BY <2>3 DEF TabInv, TabSane, IsDraft
    <3>2. \/ rows[copy.id].life = "draft"
          \/ posted = copy.id /\ rows[posted].life = "published"
      BY <2>3 DEF TabView, InDraft
    <3>3. req[Ui].prev # posted
      BY <1>1, <1>2 DEF Own
    <3> QED BY <1>1, <1>3, <2>1, <3>1, <3>2, <3>3, UiWrites
  <2> QED BY <2>2, <2>3
<1>9. Fresh'
  <2> SUFFICES ASSUME Unslipped({"editedMeanwhile", "savedTwice", "rival"}), req'[Ui].op # "none"
               PROVE  /\ req'[Ui].stamped # None => req'[Ui].stamped = rows'[req'[Ui].id].graph
                      /\ req'[Ui].pc = "writePrev" => req'[Ui].held.graph = rows'[req'[Ui].prev].graph
                      /\ req'[Ui].pc = "writeTarget" => req'[Ui].held.graph = rows'[req'[Ui].id].graph
                      /\ req'[Ui].pc \in {"readPrev", "writePrev"} => rows'[req'[Ui].prev].life = "published"
    BY <1>1 DEF Fresh, Unslipped
  <2>1. req'[Ui].id = req[Ui].id /\ rows'[req[Ui].id].graph = rows[req[Ui].id].graph
    BY <1>1, <1>2, UiMoves, UiWrites
  <2>2. req'[Ui].stamped # None => req'[Ui].stamped = rows'[req'[Ui].id].graph
    BY <1>1, <1>2, <2>1, UiMoves DEF Fresh
  <2> QED BY <1>1, <1>2, <2>1, <2>2, UiMoves DEF Fresh, Active
<1>10. Checked'
  <2> SUFFICES ASSUME Unslipped({"crossed", "blind", "saveFailed", "loadFailed", "editedMeanwhile", "savedTwice", "rival"}),
                      req'[Ui].pc \in {"list", "readPrev", "writePrev", "readTarget", "writeTarget"}
               PROVE  ~Raises(Graph(statuses, rows'[req'[Ui].id].graph))
    BY <1>1 DEF Checked, Unslipped
  <2>1. Unslipped({"editedMeanwhile", "savedTwice", "rival"})
    BY DEF Unslipped
  <2>2. Typed'
    BY TypeKept
  <2>3. req'[Ui].op # "none"
    BY <2>2, EditorAssumption DEF Typed, Staged
  <2>4. req'[Ui].id = req[Ui].id /\ rows'[req[Ui].id].graph = rows[req[Ui].id].graph
    BY <1>1, <1>2, <2>1, <2>3, UiMoves, UiWrites
  <2>5. req[Ui].pc \in {"list", "readPrev", "writePrev", "readTarget", "writeTarget"}
    BY <1>1, <2>3, UiMoves
  <2> QED BY <2>4, <2>5 DEF TabView, Checked, Unslipped
<1> QED BY <1>4, <1>5, <1>6, <1>7, <1>8, <1>9, <1>10 DEF TabView

LEMMA TabViewKept ==
  ASSUME Inv, TabInv, TabView, [EditorNext]_vars
  PROVE  TabView'
<1>1. /\ Typed /\ Placed /\ [Next]_backend
      /\ DOMAIN saving = {"button", "publish"}
  BY Client DEF Inv, TabInv, TabTypeOK
<1>2. ASSUME NEW d \in Definitions,
             CreateWorkflow(d) \/ EditPublished(d) \/ \E graph \in Graphs : ImportWorkflow(d, graph)
      PROVE  TabView'
  BY <1>1, <1>2, DraftsNew DEF CreateWorkflow, EditPublished, ImportWorkflow
<1>3. ASSUME NEW by \in {"button", "publish"}, Saved(by)
      PROVE  TabView'
  BY <1>1, <1>3, SaveDone, SaveFails DEF Saved
<1>4. CASE Post
  BY <1>1, <1>4, Posting, Refused DEF Post
<1>5. CASE UNCHANGED vars
  <2>1. UNCHANGED <<backend, sel, copy, dirty, loads, saving, publishing, posted, slips>>
    BY <1>5 DEF vars, tab, view
  <2>2. Own' /\ Fresh' /\ Checked'
    BY <1>1, <2>1, Remaining DEF backend
  <2> QED BY <2>1, <2>2 DEF backend, TabView, Present, Quiet, Stored, InDraft, Exists, Unslipped, IsDraft
<1> QED
  BY <1>1, <1>2, <1>3, <1>4, <1>5, Selecting, Loading, Editing, Deleting, Saving, Publishes, Answering,
     Meddling, OwnPublish DEF EditorNext

LEMMA ViewHolds == EditorSpec => [](Inv /\ TabInv /\ TabView)
<1>1. EditorInit => TabView
  <2> SUFFICES ASSUME EditorInit PROVE TabView
    OBVIOUS
  <2>1. /\ req[Ui].op = "none" /\ req[Ui].pc = "idle"
        /\ copy.id = None /\ copy.row.life = "none"
    BY EditorAssumption DEF EditorInit, Init, Idle, NoCopy, NoRow
  <2> QED BY <2>1 DEF EditorInit, TabView, Present, Own, Quiet, Fresh, Stored, InDraft, Checked, IsDraft
<1>2. Inv /\ TabInv /\ TabView /\ [EditorNext]_vars => TabView'
  BY TabViewKept
<1> QED BY <1>1, <1>2, TabHolds, PTL DEF EditorSpec
------------------------------------------------------------------------------
(* However answers overtake each other, a copy the tab calls clean is what *)
(* the backend holds, unless a save or load failed, it was edited while    *)
(* one was under way, two saves crossed, or others changed it.             *)
THEOREM CleanIsStored == EditorSpec => []CleanCopyIsStored
<1>1. TabView => CleanCopyIsStored
  BY DEF TabView, Stored, CleanCopyIsStored, Unslipped
<1> QED BY <1>1, ViewHolds, PTL

(* No save of the tab, however late it is answered, turns a version in use *)
(* back into a draft, unless somebody else published it, the tab itself    *)
(* was at it twice, or was told that its publish had failed.               *)
THEOREM SavesDrafts == EditorSpec => SavesOnlyDrafts
<1>1. TabInv /\ TabView /\ [EditorNext]_vars =>
        [\A by \in DOMAIN saving :
           /\ saving[by] # NoCopy /\ saving'[by] = NoCopy
           /\ slips' \cap {"rival", "editedMeanwhile", "savedTwice", "answerLost"} = {}
           => rows[saving[by].id].life = "draft"]_vars
  BY SlipsStay DEF TabInv, TabTypeOK, TabView, InDraft, Unslipped
<1> QED BY <1>1, ViewHolds, PTL DEF EditorSpec, SavesOnlyDrafts

(* What the tab has validated is what its publish makes active: the check  *)
(* made in the browser on the copy still holds of the stored graph and the *)
(* statuses there are when the backend writes it.                          *)
THEOREM PublishesValid == EditorSpec => PublishesOnlyValid
<1>1. ASSUME Inv, TabInv, TabView, [EditorNext]_vars,
             req[Ui].pc = "writeTarget", req'[Ui].pc = "decide",
             slips \cap {"crossed", "blind", "saveFailed", "loadFailed", "editedMeanwhile",
                         "savedTwice", "rival"} = {}
      PROVE  ~Raises(Graph(statuses, rows'[posted].graph))
  <2>1. /\ Typed /\ Placed /\ Own /\ Fresh /\ [Next]_backend
        /\ Ui \in Requests /\ req'[Ui] # req[Ui] /\ req[Ui].op # "none"
        /\ posted = req[Ui].id /\ posted \in Definitions
    BY <1>1, Client, UiFacts, EditorAssumption DEF Inv, TabView
  <2>2. Step(Ui)
    BY <2>1, WhoMoves
  <2>3. rows'[posted].graph = rows[posted].graph
    BY <1>1, <2>1, <2>2, UiWrites DEF Unslipped
  <2> QED BY <1>1, <2>1, <2>3 DEF TabView, Checked, Unslipped
<1>2. Inv /\ TabInv /\ TabView /\ [EditorNext]_vars =>
        [/\ req[Ui].pc = "writeTarget" /\ req'[Ui].pc = "decide"
         /\ slips \cap {"crossed", "blind", "saveFailed", "loadFailed", "editedMeanwhile",
                        "savedTwice", "rival"} = {}
         => ~Raises(Graph(statuses, rows'[posted].graph))]_vars
  BY <1>1
<1> QED BY <1>2, ViewHolds, PTL DEF EditorSpec, PublishesOnlyValid
==============================================================================
