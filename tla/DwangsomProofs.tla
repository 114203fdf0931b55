---------------------------- MODULE DwangsomProofs ----------------------------
(***************************************************************************)
(* What Dwangsom promises, for any number of calculations, payouts,        *)
(* requests and days:                                                      *)
(*   - a term has one dwangsom, whatever is accrued, stopped, objected to  *)
(*     or paid meanwhile and whichever store calls fail (Inv);             *)
(*   - what is accrued is what the law says of the days counted (Types);   *)
(*   - a decision stops what is running at what is owed on its day         *)
(*     (UpToDate, on top of Types);                                        *)
(*   - payouts follow their calculation (Following, on top of Types).      *)
(*                                                                         *)
(* settle() applies one day after the other, for as many days as were      *)
(* missed: a recursive function, of which the prover knows the definition  *)
(* as a CHOOSE.  AllNumbers, induction over a set of numbers, shows that   *)
(* such a function exists and what it computes.                            *)
(***************************************************************************)
EXTENDS Dwangsom, WellFoundedInduction, TLAPS

RowFields == {"status", "startDate", "currentDag", "cumulativeAmount", "plafondBereikt",
              "definitiveAmount"}
CallFields == {"op", "pc", "day", "calc", "amount", "row", "seen", "held", "found", "todo"}
Terms == [status : {"running", "exceeded", "completed"}, linked : BOOLEAN]

IsRow(row) == DOMAIN row = RowFields

(* What a request may be doing: a notice is being linked or a calculation   *)
(* created for it, or the term is patched, or something is done to a        *)
(* calculation that exists, and what is to be written there exists as well. *)
Sound(call) ==
  /\ DOMAIN call = CallFields /\ IsRow(call.held) /\ call.row \in Terms
  /\ call.pc \in {"patch", "patchSave"} => call.op \in Patching
  /\ call.op = "notice" <=> call.pc \in {"link", "linkSave", "create"}
  /\ call.calc \in Calculations \cup {None}
  /\ call.calc # None => Exists(call.calc)
  /\ call.pc \in {"settle", "reread", "write"} => call.calc \in Calculations
  /\ call.pc \in {"settle", "write"} => call.held.status # "none"

Shape ==
  /\ DOMAIN calcs = Calculations /\ \A c \in Calculations : IsRow(calcs[c])
  /\ DOMAIN req = Requests /\ \A r \in Requests : Sound(req[r])
  /\ term \in Terms

(* A request that is about to write back that the term knows of a notice.   *)
Carries(call) == call.pc = "patchSave" /\ call.row.linked

(* While the notices came one by one, the term learnt of each and nobody    *)
(* made it forget: it learns of a notice before its calculation is created, *)
(* and what others are about to write back is no news to it.                *)
One ==
  {"raced", "linkLost", "linkOverwritten"} \cap mishaps = {} =>
    /\ \A r, q \in Requests : req[r].op = "notice" /\ req[q].op = "notice" => r = q
    /\ \A r \in Requests : req[r].pc \in {"link", "linkSave"} => ~term.linked
    /\ \A r \in Requests : Carries(req[r]) => term.linked
    /\ \A r \in Requests : req[r].pc = "create" =>
         term.linked /\ \A c \in Calculations : ~Exists(c)
    /\ \A c \in Calculations : Exists(c) => term.linked
    /\ \A c, d \in Calculations : Exists(c) /\ Exists(d) => c = d

Heeded ==
  term.linked \/ (\E r \in Requests : Carries(req[r])) =>
    \/ \E c \in Calculations : Exists(c)
    \/ \E r \in Requests : req[r].pc = "create"
    \/ "notCreated" \in mishaps

Inv == Shape /\ One /\ Heeded

------------------------------------------------------------------------------
LEMMA NoneIsNoCalculation == None \notin Calculations
BY DwangsomAssumption

LEMMA FreshTerm == Fresh \in Terms /\ ~Fresh.linked
BY DEF Fresh, Terms

(* The rows and requests the handlers make.                                 *)
LEMMA SettledRow ==
  ASSUME NEW row, IsRow(row)
  PROVE  IsRow(settle(row)) /\ settle(row).status = row.status
BY DEF settle, IsRow, RowFields

Marked(row, status) == [row EXCEPT !.status = status]
Settled(row, status, amount) == [row EXCEPT !.status = status, !.definitiveAmount = amount]

LEMMA ChangedRow ==
  ASSUME NEW row, IsRow(row), NEW status, NEW amount
  PROVE  /\ IsRow(Marked(row, status)) /\ Marked(row, status).status = status
         /\ IsRow(Settled(row, status, amount)) /\ Settled(row, status, amount).status = status
BY DEF IsRow, RowFields, Marked, Settled

LEMMA IdleFields ==
  /\ DOMAIN Idle = CallFields /\ Idle.op = "none" /\ Idle.pc = "idle" /\ Idle.calc = None
  /\ IsRow(Idle.held) /\ Idle.row = Fresh
BY DEF Idle, CallFields, IsRow, NoCalc, RowFields

LEMMA ReadingFields ==
  ASSUME NEW op, NEW c, NEW row
  PROVE  /\ DOMAIN Reading(op, c, row) = CallFields
         /\ Reading(op, c, row).op = op /\ Reading(op, c, row).pc = "write"
         /\ Reading(op, c, row).calc = c /\ Reading(op, c, row).held = row
         /\ Reading(op, c, row).row = Fresh
BY DEF Reading, Idle, CallFields

(* Moving a request on, or changing what else it carries.                   *)
LEMMA MovedCall ==
  ASSUME NEW call, DOMAIN call = CallFields, NEW pc, NEW x
  PROVE  /\ DOMAIN [call EXCEPT !.pc = pc] = CallFields
         /\ [call EXCEPT !.pc = pc].pc = pc /\ [call EXCEPT !.pc = pc].op = call.op
         /\ [call EXCEPT !.pc = pc].calc = call.calc /\ [call EXCEPT !.pc = pc].held = call.held
         /\ [call EXCEPT !.pc = pc].row = call.row
         /\ DOMAIN [call EXCEPT !.amount = x] = CallFields
         /\ [call EXCEPT !.amount = x].pc = call.pc /\ [call EXCEPT !.amount = x].op = call.op
         /\ [call EXCEPT !.amount = x].calc = call.calc
         /\ [call EXCEPT !.amount = x].held = call.held
         /\ [call EXCEPT !.amount = x].row = call.row
         /\ DOMAIN [call EXCEPT !.todo = x] = CallFields
         /\ [call EXCEPT !.todo = x].pc = call.pc /\ [call EXCEPT !.todo = x].op = call.op
         /\ [call EXCEPT !.todo = x].calc = call.calc
         /\ [call EXCEPT !.todo = x].held = call.held
         /\ [call EXCEPT !.todo = x].row = call.row
BY DEF CallFields

LEMMA IdleSound == Sound(Idle)
BY IdleFields, FreshTerm DEF Sound

(* A request that works on a calculation that exists.                       *)
At(call, pc) == [call EXCEPT !.pc = pc]
For(call, amount) == [call EXCEPT !.amount = amount]

LEMMA ReadingSound ==
  ASSUME NEW op, op # "notice", NEW c \in Calculations, Exists(c),
         NEW row, IsRow(row), row.status # "none"
  PROVE  Sound(Reading(op, c, row)) /\ Reading(op, c, row).op = op
         /\ Reading(op, c, row).calc = c /\ Reading(op, c, row).held = row
BY ReadingFields, FreshTerm DEF Sound

LEMMA AtSound ==
  ASSUME NEW call, Sound(call), call.op # "notice", call.calc \in Calculations,
         call.held.status # "none", NEW pc, pc \in {"write", "settle", "reread", "pay"}
  PROVE  /\ Sound(At(call, pc)) /\ At(call, pc).op = call.op
         /\ At(call, pc).calc = call.calc /\ At(call, pc).held = call.held
BY MovedCall DEF Sound, At

LEMMA ForSound ==
  ASSUME NEW call, Sound(call), NEW amount
  PROVE  Sound(For(call, amount)) /\ For(call, amount).op = call.op
BY MovedCall DEF Sound, For
------------------------------------------------------------------------------
LEMMA InvInit == Init => Inv
<1> SUFFICES ASSUME Init PROVE Inv
  OBVIOUS
<1>1. /\ DOMAIN calcs = Calculations /\ \A c \in Calculations : calcs[c] = NoCalc
      /\ DOMAIN req = Requests /\ \A r \in Requests : req[r] = Idle
      /\ term = Fresh
  BY DEF Init
<1>2. IsRow(NoCalc) /\ NoCalc.status = "none"
  BY DEF IsRow, NoCalc, RowFields
<1>3. Shape
  BY <1>1, <1>2, IdleSound, FreshTerm DEF Shape
<1>4. One /\ Heeded
  BY <1>1, <1>2, IdleFields, FreshTerm DEF One, Heeded, Exists, Carries
<1> QED BY <1>3, <1>4 DEF Inv

(* A step in which no calculation comes or goes and the term learns nothing *)
(* but what somebody had read of it, and forgets nothing unnoticed; and one *)
(* request at most turns to something that is no notice.                    *)
LEMMA Turns ==
  ASSUME Inv, NEW r \in Requests, NEW call, Sound(call), call.op # "notice",
         req' = [req EXCEPT ![r] = call],
         DOMAIN calcs' = Calculations, \A c \in Calculations : IsRow(calcs'[c]),
         \A c \in Calculations : Exists(c)' <=> Exists(c),
         term' \in Terms,
         {"raced", "linkLost", "linkOverwritten"} \cap mishaps' = {} => term'.linked = term.linked,
         term'.linked => term.linked \/ Carries(req[r]), Carries(call) => term.linked,
         mishaps \subseteq mishaps', req[r].pc = "create" => "notCreated" \in mishaps'
  PROVE  Inv'
<1>1. /\ DOMAIN req' = Requests /\ req'[r] = call
      /\ \A q \in Requests : q # r => req'[q] = req[q]
  BY DEF Inv, Shape
<1>2. \A q \in Requests : Sound(req'[q])
  BY <1>1 DEF Inv, Shape
<1>3. \A q \in Requests : Sound(req[q])'
  <2> SUFFICES ASSUME NEW q \in Requests PROVE Sound(req[q])'
    OBVIOUS
  <2>1. Sound(req'[q])
    BY <1>2
  <2>2. req'[q].calc # None => (req'[q].calc \in Calculations /\ Exists(req'[q].calc))
    BY <2>1 DEF Sound
  <2>3. req'[q].calc # None => calcs'[req'[q].calc].status # "none"
    BY <2>2 DEF Exists
  <2> QED BY <2>1, <2>3 DEF Sound, Exists, IsRow
<1>4. Shape'
  BY <1>1, <1>3 DEF Shape, IsRow
<1>5. call.pc \notin {"link", "linkSave", "create"}
  BY DEF Sound
<1>6. One'
  <2> SUFFICES ASSUME {"raced", "linkLost", "linkOverwritten"} \cap mishaps' = {} PROVE One'
    BY DEF One
  <2>1. {"raced", "linkLost", "linkOverwritten"} \cap mishaps = {}
    OBVIOUS
  <2>2. \A q \in Requests : /\ req'[q].op = "notice" => req[q].op = "notice"
                            /\ req'[q].pc \in {"link", "linkSave", "create"} => req'[q].pc = req[q].pc
    BY <1>1, <1>5
  <2>3. /\ \A q, s \in Requests : req'[q].op = "notice" /\ req'[s].op = "notice" => q = s
        /\ \A q \in Requests : req'[q].pc \in {"link", "linkSave"} => ~term'.linked
        /\ \A q \in Requests : Carries(req'[q]) => term'.linked
        /\ \A q \in Requests : req'[q].pc = "create" =>
             term'.linked /\ \A c \in Calculations : ~Exists(c)
        /\ \A c \in Calculations : Exists(c) => term'.linked
        /\ \A c, d \in Calculations : Exists(c) /\ Exists(d) => c = d
    BY <1>1, <2>1, <2>2 DEF Inv, One
  <2> QED BY <2>3 DEF One, Carries
<1>7. Heeded'
  <2> SUFFICES ASSUME term'.linked \/ (\E q \in Requests : Carries(req'[q])),
                      "notCreated" \notin mishaps'
               PROVE  (\E c \in Calculations : Exists(c)') \/ \E q \in Requests : req'[q].pc = "create"
    BY DEF Heeded, Carries
  <2>0. term.linked \/ \E q \in Requests : Carries(req[q])
    BY <1>1
  <2>1. (\E c \in Calculations : Exists(c)) \/ \E q \in Requests : req[q].pc = "create"
    BY <2>0 DEF Inv, Heeded
  <2>2. CASE \E c \in Calculations : Exists(c)
    BY <2>2
  <2>3. CASE \E q \in Requests : req[q].pc = "create"
    BY <1>1, <2>3
  <2> QED BY <2>1, <2>2, <2>3
<1> QED BY <1>4, <1>6, <1>7 DEF Inv

(* The same when the calculations and the term are left alone.              *)
LEMMA Proceeds ==
  ASSUME Inv, NEW r \in Requests, NEW call, Sound(call), call.op # "notice",
         call.pc # "patchSave",
         req' = [req EXCEPT ![r] = call], calcs' = calcs, term' = term,
         mishaps \subseteq mishaps', req[r].pc = "create" => "notCreated" \in mishaps'
  PROVE  Inv'
<1>1. /\ DOMAIN calcs' = Calculations /\ \A c \in Calculations : IsRow(calcs'[c])
      /\ term' \in Terms
  BY DEF Inv, Shape
<1>2. \A c \in Calculations : Exists(c)' <=> Exists(c)
  BY DEF Exists
<1> QED BY <1>1, <1>2, Turns DEF Carries

(* A step of the calendar.                                                  *)
LEMMA Rests ==
  ASSUME Inv, req' = req, calcs' = calcs, mishaps \subseteq mishaps',
         term' = term
  PROVE  Inv'
<1>1. Shape'
  BY DEF Inv, Shape, Sound, IsRow, Exists
<1>2. One'
  <2> SUFFICES ASSUME {"raced", "linkLost", "linkOverwritten"} \cap mishaps' = {} PROVE One'
    BY DEF One
  <2>1. {"raced", "linkLost", "linkOverwritten"} \cap mishaps = {}
    OBVIOUS
  <2> QED BY <2>1 DEF Inv, One, Exists, Carries
<1>3. Heeded'
  BY DEF Inv, Heeded, Exists, Carries
<1> QED BY <1>1, <1>2, <1>3 DEF Inv

(* A calculation that is written back is one that exists, and goes on to.   *)
LEMMA WrittenBack ==
  ASSUME Inv, NEW r \in Requests, req[r].pc \in {"settle", "write"},
         calcs' = [calcs EXCEPT ![req[r].calc] = req[r].held]
  PROVE  /\ DOMAIN calcs' = Calculations /\ \A c \in Calculations : IsRow(calcs'[c])
         /\ \A c \in Calculations : Exists(c)' <=> Exists(c)
<1>1. /\ req[r].calc \in Calculations /\ Exists(req[r].calc) /\ req[r].held.status # "none"
      /\ IsRow(req[r].held) /\ DOMAIN calcs = Calculations
      /\ \A c \in Calculations : IsRow(calcs[c])
  BY NoneIsNoCalculation DEF Inv, Shape, Sound
<1> QED BY <1>1 DEF Exists
------------------------------------------------------------------------------
(* A notice is taken up when the term knows of none: no calculation is      *)
(* there yet, nor on its way, unless another is being handled.              *)
LEMMA RegisterKeeps ==
  ASSUME Inv, NEW r \in Requests, NEW receipt, RegisterNotice(r, receipt)
  PROVE  Inv'
<1> DEFINE call == [Idle EXCEPT !.op = "notice", !.pc = "link", !.day = receipt]
<1>1. /\ DOMAIN call = CallFields /\ call.op = "notice" /\ call.pc = "link"
      /\ call.calc = None /\ call.held = NoCalc /\ call.row = Fresh
  BY DEF Idle, CallFields
<1>2. req' = [req EXCEPT ![r] = call] /\ req[r] = Idle
  BY DEF RegisterNotice, Requesting
<1> HIDE DEF call
<1>3. /\ DOMAIN req' = Requests /\ req'[r] = call
      /\ \A q \in Requests : q # r => req'[q] = req[q]
      /\ calcs' = calcs /\ term' = term /\ ~term.linked /\ mishaps \subseteq mishaps'
  BY <1>2 DEF Inv, Shape, RegisterNotice, Noting
<1>4. Sound(call)
  BY <1>1, FreshTerm, NoneIsNoCalculation DEF Sound, IsRow, NoCalc, RowFields
<1>5. Shape'
  <2>1. \A q \in Requests : Sound(req'[q])
    BY <1>3, <1>4 DEF Inv, Shape
  <2> QED BY <1>3, <2>1 DEF Inv, Shape, Sound, IsRow, Exists
<1>6. One'
  <2> SUFFICES ASSUME {"raced", "linkLost", "linkOverwritten"} \cap mishaps' = {} PROVE One'
    BY DEF One
  <2>1. {"raced", "linkLost", "linkOverwritten"} \cap mishaps = {} /\ \A q \in Requests : req[q].op # "notice"
    BY <1>3 DEF RegisterNotice, Noting
  <2>2. \A q \in Requests : q # r => req'[q].op # "notice" /\ req'[q].pc \notin {"link", "linkSave", "create"}
    BY <1>3, <2>1 DEF Inv, Shape, Sound
  <2>3. \A c \in Calculations : ~Exists(c)
    BY <1>3, <2>1 DEF Inv, One
  <2>4. \A q \in Requests : Carries(req'[q]) => term.linked
    BY <1>1, <1>3, <2>1 DEF Inv, One, Carries
  <2> QED BY <1>1, <1>3, <2>2, <2>3, <2>4 DEF One, Exists, Carries
<1>7. Heeded'
  <2>1. \A q \in Requests : Carries(req'[q]) => Carries(req[q])
    BY <1>1, <1>3 DEF Carries
  <2>2. \A q \in Requests : req[q].pc = "create" => req'[q].pc = "create"
    BY <1>2, <1>3, IdleFields
  <2> QED BY <1>3, <2>1, <2>2 DEF Inv, Heeded, Carries, Exists
<1> QED BY <1>5, <1>6, <1>7 DEF Inv

(* The notice is still to be linked, or the term is read for a patch.       *)
LEMMA ReadKeeps ==
  ASSUME Inv, NEW r \in Requests, ReadTerm(r)
  PROVE  Inv'
<1>0. Sound(req[r]) /\ term \in Terms /\ UNCHANGED <<calcs, term, mishaps>>
  BY DEF Inv, Shape, ReadTerm
<1>1. CASE req[r].pc = "link" /\ req' = [req EXCEPT ![r].pc = "linkSave", ![r].row = term]
  <2> DEFINE call == [req[r] EXCEPT !.pc = "linkSave", !.row = term]
  <2>1. /\ DOMAIN call = CallFields /\ call.op = req[r].op /\ call.pc = "linkSave"
        /\ call.calc = req[r].calc /\ call.held = req[r].held /\ call.row = term
    BY <1>0 DEF Sound, CallFields
  <2>2. req' = [req EXCEPT ![r] = call]
    BY <1>1
  <2> HIDE DEF call
  <2>3. /\ DOMAIN req' = Requests /\ req'[r] = call
        /\ \A q \in Requests : q # r => req'[q] = req[q]
    BY <2>2 DEF Inv, Shape
  <2>4. Sound(call) /\ call.op = "notice"
    BY <1>0, <1>1, <2>1 DEF Sound
  <2>5. Shape'
    <3>1. \A q \in Requests : Sound(req'[q])
      BY <2>3, <2>4 DEF Inv, Shape
    <3> QED BY <1>0, <2>3, <3>1 DEF Inv, Shape, Sound, IsRow, Exists
  <2>6. \A q \in Requests : /\ Carries(req'[q]) => Carries(req[q])
                            /\ req'[q].op = req[q].op
                            /\ req'[q].pc = "create" <=> req[q].pc = "create"
                            /\ req'[q].pc \in {"link", "linkSave"} <=> req[q].pc \in {"link", "linkSave"}
    BY <1>1, <2>1, <2>3 DEF Carries
  <2>7. One'
    BY <1>0, <2>6 DEF Inv, One, Exists, Carries
  <2>8. Heeded'
    BY <1>0, <2>6 DEF Inv, Heeded, Exists, Carries
  <2> QED BY <2>5, <2>7, <2>8 DEF Inv
<1>2. CASE req[r].pc = "patch" /\ req' = [req EXCEPT ![r].pc = "patchSave", ![r].row = term]
  <2> DEFINE call == [req[r] EXCEPT !.pc = "patchSave", !.row = term]
  <2>1. /\ DOMAIN call = CallFields /\ call.op = req[r].op /\ call.pc = "patchSave"
        /\ call.calc = req[r].calc /\ call.held = req[r].held /\ call.row = term
    BY <1>0 DEF Sound, CallFields
  <2>2. req' = [req EXCEPT ![r] = call]
    BY <1>2
  <2> HIDE DEF call
  <2>3. Sound(call) /\ call.op # "notice" /\ (Carries(call) => term.linked)
    BY <1>0, <1>2, <2>1 DEF Sound, Carries
  <2>4. /\ DOMAIN calcs' = Calculations /\ \A c \in Calculations : IsRow(calcs'[c])
        /\ \A c \in Calculations : Exists(c)' <=> Exists(c)
    BY <1>0 DEF Inv, Shape, Exists
  <2> QED BY <1>0, <1>2, <2>2, <2>3, <2>4, Turns
<1> QED BY <1>1, <1>2 DEF ReadTerm

(* A patch of the term begins, or is written: it may make the term forget   *)
(* a notice, which is noted, or remember one.                               *)
LEMMA PatchKeeps ==
  ASSUME Inv, NEW r \in Requests, SaveTerm(r) \/ \E op \in Patching : PatchTerm(r, op)
  PROVE  Inv'
<1>1. ASSUME NEW op \in Patching, PatchTerm(r, op) PROVE Inv'
  <2> DEFINE call == [Idle EXCEPT !.op = op, !.pc = "patch"]
  <2>1. /\ DOMAIN call = CallFields /\ call.op = op /\ call.pc = "patch"
        /\ call.calc = None /\ call.held = NoCalc /\ call.row = Fresh
    BY DEF Idle, CallFields
  <2>2. req' = [req EXCEPT ![r] = call] /\ req[r] = Idle /\ UNCHANGED <<calcs, term, mishaps>>
    BY <1>1 DEF PatchTerm, Requesting
  <2> HIDE DEF call
  <2>3. Sound(call) /\ call.op # "notice"
    BY <2>1, FreshTerm DEF Sound, Patching, IsRow, NoCalc, RowFields
  <2> QED BY <2>1, <2>2, <2>3, IdleFields, Proceeds
<1>2. CASE SaveTerm(r)
  <2>1. /\ req[r].pc = "patchSave" /\ req' = [req EXCEPT ![r] = Idle] /\ calcs' = calcs
        /\ term' = Patched(req[r].op, req[r].row) /\ mishaps \subseteq mishaps'
        /\ "linkOverwritten" \in mishaps' \/ ~term.linked \/ req[r].row.linked
        /\ req[r].row \in Terms /\ term \in Terms
    BY <1>2 DEF SaveTerm, Ending, Noting, Inv, Shape, Sound
  <2>2. term' \in Terms /\ term'.linked = req[r].row.linked
    BY <2>1 DEF Patched, Terms
  <2>3. {"raced", "linkLost", "linkOverwritten"} \cap mishaps' = {} => term'.linked = term.linked
    <3> SUFFICES ASSUME {"raced", "linkLost", "linkOverwritten"} \cap mishaps' = {}
                 PROVE  term'.linked = term.linked
      OBVIOUS
    <3>1. {"raced", "linkLost", "linkOverwritten"} \cap mishaps = {}
      BY <2>1
    <3>2. Carries(req[r]) => term.linked
      BY <3>1 DEF Inv, One
    <3>3. "linkOverwritten" \notin mishaps'
      OBVIOUS
    <3>4. term.linked \in BOOLEAN /\ req[r].row.linked \in BOOLEAN
      BY <2>1 DEF Terms
    <3> QED BY <2>1, <2>2, <3>2, <3>3, <3>4 DEF Carries
  <2>4. term'.linked => Carries(req[r])
    BY <2>1, <2>2 DEF Carries
  <2>5. /\ DOMAIN calcs' = Calculations /\ \A c \in Calculations : IsRow(calcs'[c])
        /\ \A c \in Calculations : Exists(c)' <=> Exists(c)
    BY <2>1 DEF Inv, Shape, Exists
  <2>6. Sound(Idle) /\ Idle.op # "notice" /\ ~Carries(Idle)
    BY IdleSound, IdleFields DEF Carries
  <2> QED BY <2>1, <2>2, <2>3, <2>4, <2>5, <2>6, Turns
<1> QED BY <1>1, <1>2

LEMMA LinkKeeps ==
  ASSUME Inv, NEW r \in Requests, LinkNotice(r)
  PROVE  Inv'
<1> DEFINE call == [req[r] EXCEPT !.pc = "create"]
<1>0. Sound(req[r]) /\ req[r].pc = "linkSave" /\ req[r].op = "notice"
  BY DEF Inv, Shape, Sound, LinkNotice
<1>1. /\ DOMAIN call = CallFields /\ call.op = "notice" /\ call.pc = "create"
      /\ call.calc = req[r].calc /\ call.held = req[r].held /\ call.row = req[r].row
  BY <1>0, MovedCall DEF Sound
<1>2. req' = [req EXCEPT ![r] = call]
  BY DEF LinkNotice, Going
<1> HIDE DEF call
<1>3. /\ DOMAIN req' = Requests /\ req'[r] = call
      /\ \A q \in Requests : q # r => req'[q] = req[q]
      /\ calcs' = calcs /\ mishaps \subseteq mishaps'
  BY <1>2 DEF Inv, Shape, LinkNotice, Noting
<1>4. term' \in Terms
  BY <1>0 DEF LinkNotice, Inv, Shape, Sound, Terms
<1>5. Shape'
  <2>1. \A q \in Requests : Sound(req'[q])
    BY <1>0, <1>1, <1>3 DEF Inv, Shape, Sound
  <2> QED BY <1>3, <1>4, <2>1 DEF Inv, Shape, Sound, IsRow, Exists
<1>6. One'
  <2> SUFFICES ASSUME {"raced", "linkLost", "linkOverwritten"} \cap mishaps' = {} PROVE One'
    BY DEF One
  <2>1. {"raced", "linkLost", "linkOverwritten"} \cap mishaps = {}
    BY <1>3
  <2>2. term'.linked
    BY <1>0 DEF LinkNotice, Noting, Sound, Terms
  <2>3. \A q \in Requests : q # r => req'[q].op # "notice" /\ req'[q].pc \notin {"link", "linkSave", "create"}
    BY <1>0, <1>3, <2>1 DEF Inv, One, Shape, Sound
  <2>4. \A c \in Calculations : ~Exists(c)
    BY <1>0, <2>1 DEF Inv, One
  <2> QED BY <1>1, <1>3, <2>2, <2>3, <2>4 DEF One, Exists, Carries
<1>7. Heeded'
  BY <1>1, <1>3 DEF Heeded
<1> QED BY <1>5, <1>6, <1>7 DEF Inv

(* The calculation that is created is the first, and the term knows of it.  *)
LEMMA StartKeeps ==
  ASSUME Inv, NEW r \in Requests, StartCalculation(r)
  PROVE  Inv'
<1>1. /\ req[r].pc = "create" /\ req' = [req EXCEPT ![r] = Idle] /\ term' = term
      /\ mishaps \subseteq mishaps'
  BY DEF StartCalculation, Ending, Noting
<1>2. CASE calcs' = calcs /\ "notCreated" \in mishaps'
  BY <1>1, <1>2, IdleSound, IdleFields, Proceeds
<1>3. ASSUME NEW c \in Calculations, ~Exists(c), mishaps' = mishaps,
             calcs' = [calcs EXCEPT ![c] = [NoCalc EXCEPT !.status = "lopend",
                                                          !.startDate = req[r].day + Grace]]
      PROVE  Inv'
  <2> DEFINE row == [NoCalc EXCEPT !.status = "lopend", !.startDate = req[r].day + Grace]
  <2>1. IsRow(row) /\ row.status = "lopend"
    BY DEF IsRow, NoCalc, RowFields
  <2>2. calcs' = [calcs EXCEPT ![c] = row]
    BY <1>3
  <2> HIDE DEF row
  <2>3. /\ DOMAIN calcs' = Calculations /\ calcs'[c] = row
        /\ \A d \in Calculations : d # c => calcs'[d] = calcs[d]
    BY <2>2 DEF Inv, Shape
  <2>4. /\ DOMAIN req' = Requests /\ req'[r] = Idle
        /\ \A q \in Requests : q # r => req'[q] = req[q]
    BY <1>1 DEF Inv, Shape
  <2>5. \A d \in Calculations : Exists(d)' <=> (Exists(d) \/ d = c)
    BY <2>1, <2>3 DEF Exists
  <2>6. Shape'
    <3>1. \A q \in Requests : Sound(req'[q])
      BY <2>4, IdleSound DEF Inv, Shape
    <3>2. \A q \in Requests : Sound(req[q])'
      <4> SUFFICES ASSUME NEW q \in Requests PROVE Sound(req[q])'
        OBVIOUS
      <4>1. Sound(req'[q])
        BY <3>1
      <4>2. req'[q].calc # None => (req'[q].calc \in Calculations /\ Exists(req'[q].calc))
        BY <4>1 DEF Sound
      <4>3. req'[q].calc # None => calcs'[req'[q].calc].status # "none"
        BY <4>2, <2>5 DEF Exists
      <4> QED BY <4>1, <4>3 DEF Sound, Exists, IsRow
    <3>3. \A d \in Calculations : IsRow(calcs'[d])
      BY <2>1, <2>3 DEF Inv, Shape
    <3> QED BY <1>1, <2>3, <2>4, <3>2, <3>3 DEF Inv, Shape, IsRow
  <2>7. One'
    <3> SUFFICES ASSUME {"raced", "linkLost", "linkOverwritten"} \cap mishaps' = {} PROVE One'
      BY DEF One
    <3>1. {"raced", "linkLost", "linkOverwritten"} \cap mishaps = {} /\ req[r].op = "notice"
      BY <1>1, <1>3 DEF Inv, Shape, Sound
    <3>2. term'.linked /\ \A d \in Calculations : ~Exists(d)
      BY <1>1, <3>1 DEF Inv, One
    <3>3. \A q \in Requests : req'[q].op # "notice" /\ req'[q].pc \notin {"link", "linkSave", "create"}
      BY <2>4, <3>1, IdleFields DEF Inv, One, Shape, Sound
    <3>4. \A d \in Calculations : Exists(d)' <=> d = c
      BY <2>5, <3>2
    <3> QED BY <3>2, <3>3, <3>4 DEF One, Carries
  <2>8. Heeded'
    BY <2>5 DEF Heeded
  <2> QED BY <2>6, <2>7, <2>8 DEF Inv
<1> QED BY <1>2, <1>3 DEF StartCalculation, Noting
------------------------------------------------------------------------------
(* What a request begins with on a calculation.                             *)
LEMMA BeginningKeeps ==
  ASSUME Inv, NEW r \in Requests, NEW c \in Calculations,
         \/ Accrue(r, c) \/ StopForBeschikking(r, c)
         \/ RegisterBezwaar(r, c) \/ PrepareBetaling(r, c)
         \/ \E amount \in Corrections : ResolveBezwaar(r, c, amount)
  PROVE  Inv'
<1>0. /\ IsRow(calcs[c]) /\ IsRow(settle(calcs[c])) /\ settle(calcs[c]).status = calcs[c].status
      /\ Exists(c) => calcs[c].status # "none"
  BY SettledRow DEF Inv, Shape, Exists
<1>1. ASSUME NEW call, Requesting(r, call), Sound(call), call.op \notin Patching \cup {"notice"},
             calcs' = calcs, term' = term, mishaps \subseteq mishaps'
      PROVE  Inv'
  <2>1. /\ req[r].pc # "create" /\ req' = [req EXCEPT ![r] = call]
        /\ call.op # "notice" /\ call.pc # "patchSave"
    BY <1>1, IdleFields DEF Requesting, Sound
  <2> QED BY <1>1, <2>1, Proceeds
<1>2. CASE Accrue(r, c)
  <2> DEFINE call == Reading("accrue", c, settle(calcs[c]))
  <2>1. Exists(c) /\ Requesting(r, call) /\ UNCHANGED <<calcs, term, mishaps>>
    BY <1>2 DEF Accrue, Accrues, Exists
  <2>2. Sound(call) /\ call.op = "accrue"
    BY <1>0, <2>1, ReadingSound
  <2> HIDE DEF call
  <2> QED BY <1>1, <2>1, <2>2 DEF Patching
<1>3. CASE StopForBeschikking(r, c)
  <2> DEFINE settled == At(Reading("stop", c, settle(calcs[c])), "settle")
             asItIs == At(Reading("stop", c, calcs[c]), "reread")
  <2>1. /\ Exists(c) /\ (Requesting(r, settled) \/ Requesting(r, asItIs))
        /\ UNCHANGED <<calcs, term, mishaps>>
    BY <1>3 DEF StopForBeschikking, At
  <2>2. Sound(settled) /\ settled.op = "stop"
    BY <1>0, <2>1, ReadingSound, AtSound
  <2>3. Sound(asItIs) /\ asItIs.op = "stop"
    BY <1>0, <2>1, ReadingSound, AtSound
  <2> HIDE DEF settled, asItIs
  <2> QED BY <1>1, <2>1, <2>2, <2>3 DEF Patching
<1>4. CASE RegisterBezwaar(r, c)
  <2> DEFINE row == Marked(calcs[c], "objection-bevroren")
             call == Reading("object", c, row)
  <2>1. /\ Exists(c) /\ Requesting(r, call) /\ UNCHANGED <<calcs, term>>
        /\ mishaps \subseteq mishaps'
    BY <1>4 DEF RegisterBezwaar, Noting, Marked
  <2>2. IsRow(row) /\ row.status # "none"
    BY <1>0, ChangedRow
  <2> HIDE DEF row
  <2>3. Sound(call) /\ call.op = "object"
    BY <2>1, <2>2, ReadingSound
  <2> HIDE DEF call
  <2> QED BY <1>1, <2>1, <2>3 DEF Patching
<1>5. CASE PrepareBetaling(r, c)
  <2> DEFINE call == For(At(Reading("pay", c, calcs[c]), "pay"), Payable(calcs[c]))
  <2>1. /\ Exists(c) /\ Requesting(r, call) /\ UNCHANGED <<calcs, term, mishaps>>
    BY <1>5 DEF PrepareBetaling, At, For
  <2>2. Sound(call) /\ call.op = "pay"
    <3>1. /\ Sound(At(Reading("pay", c, calcs[c]), "pay"))
          /\ At(Reading("pay", c, calcs[c]), "pay").op = "pay"
      BY <1>0, <2>1, ReadingSound, AtSound
    <3> QED BY <3>1, ForSound
  <2> HIDE DEF call
  <2> QED BY <1>1, <2>1, <2>2 DEF Patching
<1>6. ASSUME NEW amount \in Corrections, ResolveBezwaar(r, c, amount) PROVE Inv'
  <2> DEFINE row == Settled(calcs[c], "completed", amount)
             call == For(Reading("resolve", c, row), amount)
  <2>1. /\ Exists(c) /\ Requesting(r, call) /\ UNCHANGED <<calcs, term>>
        /\ mishaps \subseteq mishaps'
    BY <1>6 DEF ResolveBezwaar, Noting, Settled, For
  <2>2. IsRow(row) /\ row.status # "none"
    BY <1>0, ChangedRow
  <2> HIDE DEF row
  <2>3. Sound(call) /\ call.op = "resolve"
    BY <2>1, <2>2, ReadingSound, ForSound
  <2> HIDE DEF call
  <2> QED BY <1>1, <2>1, <2>3 DEF Patching
<1> QED BY <1>2, <1>3, <1>4, <1>5, <1>6

(* The calls that write a calculation back, or read it again.               *)
LEMMA WritingKeeps ==
  ASSUME Inv, NEW r \in Requests,
         SaveSettled(r) \/ ReadAgain(r) \/ WriteCalculation(r)
  PROVE  Inv'
<1>0. Sound(req[r]) /\ term \in Terms
  BY DEF Inv, Shape
<1>1. CASE SaveSettled(r)
  <2> DEFINE call == [req[r] EXCEPT !.pc = "reread"]
  <2>1. /\ req[r].pc = "settle" /\ req' = [req EXCEPT ![r] = call] /\ term' = term
        /\ mishaps \subseteq mishaps'
    BY <1>1 DEF SaveSettled, Going, Noting
  <2>2. Sound(call) /\ call.op # "notice" /\ call.pc # "patchSave"
    BY <1>0, <2>1, MovedCall DEF Sound
  <2> HIDE DEF call
  <2>3. CASE calcs' = calcs
    BY <2>1, <2>2, <2>3, Proceeds
  <2>4. CASE calcs' = [calcs EXCEPT ![req[r].calc] = req[r].held]
    <3>1. /\ DOMAIN calcs' = Calculations /\ \A c \in Calculations : IsRow(calcs'[c])
          /\ \A c \in Calculations : Exists(c)' <=> Exists(c)
      BY <2>1, <2>4, WrittenBack
    <3> QED BY <1>0, <2>1, <2>2, <3>1, Turns DEF Carries
  <2> QED BY <1>1, <2>3, <2>4 DEF SaveSettled
<1>2. CASE ReadAgain(r)
  <2> DEFINE row == calcs[req[r].calc]
             stopped == Settled(row, "gestopt-wegens-decision", row.cumulativeAmount)
             call == [req[r] EXCEPT !.pc = "write", !.seen = row, !.held = stopped]
  <2>1. /\ req[r].pc = "reread" /\ req' = [req EXCEPT ![r] = call]
        /\ UNCHANGED <<calcs, term, mishaps>>
    BY <1>2 DEF ReadAgain, Settled
  <2>2. req[r].calc \in Calculations /\ IsRow(row)
    BY <1>0, <2>1 DEF Inv, Shape, Sound
  <2> HIDE DEF row
  <2>3. IsRow(stopped) /\ stopped.status # "none"
    BY <2>2, ChangedRow
  <2> HIDE DEF stopped
  <2>4. /\ DOMAIN call = CallFields /\ call.op = req[r].op /\ call.pc = "write"
        /\ call.calc = req[r].calc /\ call.held = stopped /\ call.row = req[r].row
    BY <1>0 DEF Sound, CallFields
  <2> HIDE DEF call
  <2>5. Sound(call) /\ call.op # "notice" /\ call.pc # "patchSave"
    BY <1>0, <2>1, <2>2, <2>3, <2>4 DEF Sound
  <2> QED BY <2>1, <2>5, Proceeds
<1>3. CASE WriteCalculation(r)
  <2> DEFINE call == [req[r] EXCEPT !.pc = "search"]
  <2>1. /\ req[r].pc = "write" /\ term' = term /\ mishaps \subseteq mishaps'
        /\ req' = [req EXCEPT ![r] = call] \/ req' = [req EXCEPT ![r] = Idle]
        /\ calcs' = [calcs EXCEPT ![req[r].calc] = req[r].held]
    BY <1>3 DEF WriteCalculation, Going, Ending, Noting
  <2>2. Sound(call) /\ call.op # "notice" /\ call.pc # "patchSave"
    BY <1>0, <2>1, MovedCall DEF Sound
  <2> HIDE DEF call
  <2>3. /\ DOMAIN calcs' = Calculations /\ \A c \in Calculations : IsRow(calcs'[c])
        /\ \A c \in Calculations : Exists(c)' <=> Exists(c)
    BY <2>1, WrittenBack
  <2> QED BY <1>0, <2>1, <2>2, <2>3, IdleSound, IdleFields, Turns DEF Carries
<1> QED BY <1>1, <1>2, <1>3

(* The calls about payouts, and the end of a request.                       *)
LEMMA PayoutsKeep ==
  ASSUME Inv, NEW r \in Requests,
         \/ FindPayouts(r) \/ PersistDisbursement(r) \/ CutShort(r)
         \/ \E p \in Payouts : SavePayout(r, p) \/ HandleCallback(r, p) \/ ApplyCallback(r, p)
  PROVE  Inv'
<1>0. Sound(req[r])
  BY DEF Inv, Shape
<1>1. ASSUME Ending(r), UNCHANGED <<calcs, term>>, mishaps \subseteq mishaps',
             req[r].pc = "create" => "notCreated" \in mishaps'
      PROVE  Inv'
  BY <1>1, IdleSound, IdleFields, Proceeds DEF Ending
<1>2. CASE FindPayouts(r)
  <2> DEFINE call == [req[r] EXCEPT !.pc = "payouts", !.todo = PayoutsOf(req[r].calc),
                                    !.found = payouts]
  <2>1. /\ req[r].pc = "search" /\ UNCHANGED <<calcs, term, mishaps>>
        /\ Ending(r) \/ req' = [req EXCEPT ![r] = call]
    BY <1>2 DEF FindPayouts
  <2>2. /\ DOMAIN call = CallFields /\ call.op = req[r].op /\ call.pc = "payouts"
        /\ call.calc = req[r].calc /\ call.held = req[r].held /\ call.row = req[r].row
    BY <1>0 DEF Sound, CallFields
  <2> HIDE DEF call
  <2>3. Sound(call) /\ call.op # "notice" /\ call.pc # "patchSave"
    BY <1>0, <2>1, <2>2 DEF Sound
  <2> QED BY <1>1, <2>1, <2>3, Proceeds
<1>3. CASE PersistDisbursement(r) \/ CutShort(r) \/ \E p \in Payouts : ApplyCallback(r, p)
  BY <1>1, <1>3 DEF PersistDisbursement, CutShort, ApplyCallback, Noting
<1>4. ASSUME NEW p \in Payouts, SavePayout(r, p) PROVE Inv'
  <2> DEFINE call == [req[r] EXCEPT !.todo = req[r].todo \ {p}]
  <2>1. /\ req[r].pc = "payouts" /\ UNCHANGED <<calcs, term>> /\ mishaps \subseteq mishaps'
        /\ Ending(r) \/ req' = [req EXCEPT ![r] = call]
    BY <1>4 DEF SavePayout, Noting
  <2>2. Sound(call) /\ call.op # "notice" /\ call.pc # "patchSave"
    BY <1>0, <2>1, MovedCall DEF Sound
  <2> HIDE DEF call
  <2> QED BY <1>1, <2>1, <2>2, Proceeds
<1>5. ASSUME NEW p \in Payouts, HandleCallback(r, p) PROVE Inv'
  <2> DEFINE call == [Idle EXCEPT !.op = "callback", !.pc = "report", !.todo = {p}, !.found = payouts]
  <2>1. /\ req[r] = Idle /\ req' = [req EXCEPT ![r] = call] /\ UNCHANGED <<calcs, term, mishaps>>
    BY <1>5 DEF HandleCallback, Requesting
  <2>2. /\ DOMAIN call = CallFields /\ call.op = "callback" /\ call.pc = "report"
        /\ call.calc = None /\ call.held = NoCalc /\ call.row = Fresh
    BY DEF Idle, CallFields
  <2> HIDE DEF call
  <2>3. Sound(call) /\ call.op # "notice" /\ call.pc # "patchSave"
    BY <2>2, FreshTerm DEF Sound, IsRow, NoCalc, RowFields
  <2> QED BY <2>1, <2>3, IdleFields, Proceeds
<1> QED BY <1>2, <1>3, <1>4, <1>5

LEMMA InvNext == Inv /\ [Next]_vars => Inv'
<1> SUFFICES ASSUME Inv, [Next]_vars PROVE Inv'
  OBVIOUS
<1>1. CASE Tick \/ UNCHANGED vars
  <2>1. req' = req /\ calcs' = calcs /\ mishaps \subseteq mishaps' /\ term' = term
    BY <1>1 DEF Tick, vars, Noting
  <2> QED BY <2>1, Rests
<1>2. ASSUME NEW r \in Requests,
             LinkNotice(r) \/ StartCalculation(r) \/ \E day \in Days : RegisterNotice(r, day)
      PROVE  Inv'
  BY <1>2, RegisterKeeps, LinkKeeps, StartKeeps
<1>6. ASSUME NEW r \in Requests,
             ReadTerm(r) \/ SaveTerm(r) \/ \E op \in Patching : PatchTerm(r, op)
      PROVE  Inv'
  BY <1>6, ReadKeeps, PatchKeeps
<1>3. ASSUME NEW r \in Requests, NEW c \in Calculations,
             \/ Accrue(r, c) \/ StopForBeschikking(r, c)
             \/ RegisterBezwaar(r, c) \/ PrepareBetaling(r, c)
             \/ \E amount \in Corrections : ResolveBezwaar(r, c, amount)
      PROVE  Inv'
  BY <1>3, BeginningKeeps
<1>4. ASSUME NEW r \in Requests, SaveSettled(r) \/ ReadAgain(r) \/ WriteCalculation(r)
      PROVE  Inv'
  BY <1>4, WritingKeeps
<1>5. ASSUME NEW r \in Requests,
             \/ FindPayouts(r) \/ PersistDisbursement(r) \/ CutShort(r)
             \/ \E p \in Payouts : SavePayout(r, p) \/ HandleCallback(r, p) \/ ApplyCallback(r, p)
      PROVE  Inv'
  BY <1>5, PayoutsKeep
<1> QED BY <1>1, <1>2, <1>3, <1>4, <1>5, <1>6 DEF Next

(* A term has at most one calculation unless notices were handled at the    *)
(* same time, the term never learnt of the first, or somebody wrote it back *)
(* as it was before; and a term that knows of a notice gets its             *)
(* calculation, unless that was not created                                 *)
(* (NoticeOfDefaultService, TermijnService::updateTermijnInstance).         *)
THEOREM OneDwangsomPerTerm == Spec => []OneDwangsom
<1>1. Inv => OneDwangsom
  <2> SUFFICES ASSUME Inv PROVE OneDwangsom
    OBVIOUS
  <2>1. (\E r \in Requests : req[r].pc = "create") => \E r \in Requests : req[r].op = "notice"
    BY DEF Inv, Shape, Sound
  <2> QED BY <2>1 DEF Inv, One, Heeded, OneDwangsom
<1> QED BY InvInit, InvNext, <1>1, PTL DEF Spec
------------------------------------------------------------------------------
(* Induction over numbers, for a set of them.                               *)
LEMMA SmallestNumber ==
  ASSUME NEW T, T \subseteq Nat, T # {}
  PROVE  \E n \in T : \A m \in T : n <= m
<1>1. PICK n \in T : \A m \in T : ~(<<m, n>> \in OpToRel(<, Nat))
  BY NatLessThanWellFounded, WFMin
<1>2. ASSUME NEW m \in T PROVE n <= m
  <2>1. <<m, n>> \in OpToRel(<, Nat) <=> m < n
    BY DEF OpToRel
  <2>2. ~(m < n)
    BY <1>1, <2>1
  <2>3. m \in Nat /\ n \in Nat
    OBVIOUS
  <2> QED BY <2>2, <2>3
<1> QED BY <1>2

LEMMA AllNumbers ==
  ASSUME NEW T, 0 \in T, \A n \in Nat : n \in T => n + 1 \in T
  PROVE  Nat \subseteq T
<1>1. SUFFICES ASSUME Nat \ T # {} PROVE FALSE
  OBVIOUS
<1>2. PICK n \in Nat \ T : \A m \in Nat \ T : n <= m
  BY <1>1, SmallestNumber
<1>3. n - 1 \in Nat /\ n - 1 \notin Nat \ T
  BY <1>2
<1> QED BY <1>2, <1>3

(* The days that settle() applies, one after the other.                     *)
accrual(row, m) ==
  CHOOSE after : after = [n \in 0..m |-> IF n = 0 THEN row ELSE applyDailyAccrual(after[n - 1])]

LEMMA SettleApplies ==
  ASSUME NEW row
  PROVE  LET missing == elapsedAccrualDays(row) - row.currentDag
             now == accrual(row, missing)[missing]
         IN  settle(row) =
               [row EXCEPT !.currentDag = now.currentDag, !.cumulativeAmount = now.cumulativeAmount,
                           !.plafondBereikt = now.plafondBereikt]
BY DEF settle, accrual

Recurs(after, row, m) ==
  after = [n \in 0..m |-> IF n = 0 THEN row ELSE applyDailyAccrual(after[n - 1])]

LEMMA AccrualRecurs ==
  ASSUME NEW row, NEW m \in Nat
  PROVE  Recurs(accrual(row, m), row, m)
<1> DEFINE Solved == {n \in Nat : \E after : Recurs(after, row, n)}
<1>1. 0 \in Solved
  <2>1. Recurs([n \in 0..0 |-> row], row, 0)
    BY DEF Recurs
  <2> QED BY <2>1
<1>2. ASSUME NEW k \in Nat, k \in Solved PROVE k + 1 \in Solved
  <2>1. PICK after : Recurs(after, row, k)
    BY <1>2
  <2> DEFINE longer == [n \in 0..k + 1 |-> IF n = 0 THEN row ELSE applyDailyAccrual(after[n - 1])]
  <2>2. \A n \in 0..k : longer[n] = after[n]
    BY <2>1 DEF Recurs
  <2>3. \A n \in 0..k + 1 : n # 0 => n - 1 \in 0..k
    OBVIOUS
  <2>4. longer = [n \in 0..k + 1 |-> IF n = 0 THEN row ELSE applyDailyAccrual(longer[n - 1])]
    BY <2>2, <2>3
  <2> HIDE DEF longer
  <2>5. Recurs(longer, row, k + 1)
    BY <2>4 DEF Recurs
  <2> QED BY <2>5
<1>3. m \in Solved
  BY <1>1, <1>2, AllNumbers
<1>4. \E after : Recurs(after, row, m)
  BY <1>3
<1> QED BY <1>4 DEF accrual, Recurs
------------------------------------------------------------------------------
LEMMA OwedBounds ==
  /\ Owed(0) = 0
  /\ \A n \in Nat : Owed(n) \in 0..Plafond
  /\ \A m, n \in Nat : m <= n => Owed(m) <= Owed(n)
<1>1. \A n \in Nat : /\ n <= 14 => Owed(n) = 2300 * n
                     /\ 14 < n /\ n <= 28 => Owed(n) = 32200 + 3500 * (n - 14)
                     /\ 28 < n /\ n <= 42 => Owed(n) = 81200 + 4500 * (n - 28)
                     /\ 42 < n => Owed(n) = Plafond
  BY DEF Owed, Least, Beyond, Plafond
<1>2. Owed(0) = 0
  BY <1>1
<1>3. ASSUME NEW n \in Nat PROVE Owed(n) \in 0..Plafond
  <2>1. Owed(n) \in Nat /\ Owed(n) <= Plafond
    BY <1>1 DEF Plafond
  <2>2. Plafond \in Nat
    BY DEF Plafond
  <2> QED BY <2>1, <2>2
<1>4. ASSUME NEW m \in Nat, NEW n \in Nat, m <= n PROVE Owed(m) <= Owed(n)
  <2>1. CASE n <= 14
    BY <1>1, <1>4, <2>1
  <2>2. CASE 14 < n /\ n <= 28
    BY <1>1, <1>4, <2>2
  <2>3. CASE 28 < n /\ n <= 42
    BY <1>1, <1>4, <2>3
  <2>4. CASE 42 < n
    BY <1>1, <1>3, <2>4
  <2> QED BY <2>1, <2>2, <2>3, <2>4
<1> QED BY <1>2, <1>3, <1>4

(* A day costs its tariff, until the plafond is reached.                    *)
LEMMA OwedNextDay ==
  ASSUME NEW n \in Nat, Owed(n) # Plafond
  PROVE  Owed(n + 1) = Least(Plafond, Owed(n) + dailyTariffAwb(n + 1))
BY DEF Owed, Least, Beyond, Plafond, dailyTariffAwb

(* What is counted is what is owed, and the plafond is noticed.             *)
Counted(row) ==
  /\ row \in Calculation
  /\ row.cumulativeAmount = Owed(row.currentDag)
  /\ row.plafondBereikt <=> row.cumulativeAmount = Plafond

LEMMA OneDayMore ==
  ASSUME NEW row, Counted(row)
  PROVE  LET now == applyDailyAccrual(row) IN
           /\ Counted(now)
           /\ now.currentDag = IF row.plafondBereikt THEN row.currentDag ELSE row.currentDag + 1
<1> DEFINE day == row.currentDag + 1
           sum == row.cumulativeAmount + dailyTariffAwb(day)
           now == applyDailyAccrual(row)
<1>1. CASE row.plafondBereikt
  BY <1>1 DEF applyDailyAccrual, Counted
<1>2. CASE ~row.plafondBereikt
  <2>0. row.currentDag \in Nat /\ row.cumulativeAmount \in 0..Plafond /\ Plafond \in Nat
    <3>1. row.currentDag \in Nat /\ row.cumulativeAmount \in 0..Plafond
      BY DEF Counted, Calculation
    <3>2. Plafond \in Nat
      BY DEF Plafond
    <3> QED BY <3>1, <3>2
  <2>1. day \in Nat /\ dailyTariffAwb(day) \in Nat /\ sum \in Nat
    BY <2>0 DEF dailyTariffAwb
  <2>2. Owed(day) = Least(Plafond, sum) /\ Owed(day) \in 0..Plafond
    BY <1>2, <2>0, <2>1, OwedNextDay, OwedBounds DEF Counted
  <2>3. now = [row EXCEPT !.currentDag = day, !.cumulativeAmount = Owed(day),
                          !.plafondBereikt = Owed(day) = Plafond]
    <3>1. (IF sum >= Plafond THEN Plafond ELSE sum) = Owed(day)
      BY <2>0, <2>1, <2>2 DEF Least
    <3>2. (sum >= Plafond) = (Owed(day) = Plafond)
      BY <2>0, <2>1, <2>2 DEF Least
    <3> QED BY <1>2, <3>1, <3>2 DEF applyDailyAccrual
  <2> HIDE DEF day, now
  <2>4. /\ now \in Calculation
        /\ now.currentDag = day /\ now.cumulativeAmount = Owed(day)
        /\ now.plafondBereikt <=> Owed(day) = Plafond
    BY <2>1, <2>2, <2>3 DEF Counted, Calculation
  <2>5. Counted(now)
    BY <2>4 DEF Counted
  <2> QED BY <1>2, <2>4, <2>5 DEF day, now
<1> QED BY <1>1, <1>2

(* Whether or not the plafond stops the count, the sum after n days is what *)
(* is owed for n days more.                                                 *)
LEMMA DaysCounted ==
  ASSUME NEW row, Counted(row), NEW m \in Nat
  PROVE  LET now == accrual(row, m)[m] IN
           /\ Counted(now)
           /\ row.currentDag <= now.currentDag /\ now.currentDag <= row.currentDag + m
           /\ now.cumulativeAmount = Owed(row.currentDag + m)
<1> DEFINE after == accrual(row, m)
           Fine(n) == /\ Counted(after[n])
                      /\ row.currentDag <= after[n].currentDag
                      /\ after[n].currentDag <= row.currentDag + n
                      /\ after[n].plafondBereikt \/ after[n].currentDag = row.currentDag + n
           Upto == {n \in Nat : n <= m => Fine(n)}
<1>0. row.currentDag \in Nat
  BY DEF Counted, Calculation
<1>1. \A n \in 0..m : after[n] = IF n = 0 THEN row ELSE applyDailyAccrual(after[n - 1])
  BY AccrualRecurs DEF Recurs
<1> HIDE DEF after
<1>2. 0 \in Upto
  BY <1>0, <1>1
<1>3. ASSUME NEW n \in Nat, n \in Upto PROVE n + 1 \in Upto
  <2> SUFFICES ASSUME n + 1 <= m PROVE Fine(n + 1)
    OBVIOUS
  <2>1. Fine(n) /\ after[n + 1] = applyDailyAccrual(after[n])
    BY <1>1, <1>3
  <2>2. /\ Counted(after[n + 1]) /\ after[n].currentDag \in Nat
        /\ after[n + 1].currentDag =
             IF after[n].plafondBereikt THEN after[n].currentDag ELSE after[n].currentDag + 1
    BY <2>1, OneDayMore DEF Counted, Calculation
  <2>3. after[n].plafondBereikt => after[n + 1].plafondBereikt
    BY <2>1 DEF applyDailyAccrual
  <2> QED BY <1>0, <2>1, <2>2, <2>3
<1>4. Fine(m)
  <2>1. m \in Upto
    BY <1>2, <1>3, AllNumbers
  <2> QED BY <2>1
<1>5. after[m].cumulativeAmount = Owed(row.currentDag + m)
  <2>1. CASE after[m].plafondBereikt
    <3>1. Owed(after[m].currentDag) = Plafond /\ after[m].currentDag \in Nat
      BY <1>4, <2>1 DEF Counted, Calculation
    <3>2. Owed(after[m].currentDag) <= Owed(row.currentDag + m) /\ Owed(row.currentDag + m) \in 0..Plafond
      BY <1>0, <1>4, <3>1, OwedBounds
    <3>3. Plafond \in Nat
      BY DEF Plafond
    <3> QED BY <1>4, <3>1, <3>2, <3>3 DEF Counted
  <2>2. CASE ~after[m].plafondBereikt
    BY <1>4, <2>2 DEF Counted
  <2> QED BY <2>1, <2>2
<1> QED BY <1>4, <1>5 DEF after
------------------------------------------------------------------------------
(* A row on some day: nothing is counted in advance, and a decision makes   *)
(* what was counted definitive.                                             *)
Kept(row, day) ==
  /\ Counted(row)
  /\ row.startDate + row.currentDag <= day \/ row.currentDag = 0
  /\ row.status = "gestopt-wegens-decision" => row.definitiveAmount = row.cumulativeAmount
  /\ row.status = "completed" => row.definitiveAmount # None

Through(row, day) == row.cumulativeAmount = Owed(Beyond(row.startDate, day))

LEMMA RowFacts ==
  ASSUME NEW row, row \in Calculation
  PROVE  /\ row.startDate \in Nat /\ row.currentDag \in Nat /\ row.cumulativeAmount \in 0..Plafond
         /\ row.cumulativeAmount \in Nat /\ row.plafondBereikt \in BOOLEAN
         /\ row.definitiveAmount \in Nat \cup {None}
<1>1. Plafond \in Nat
  BY DEF Plafond
<1> QED BY <1>1 DEF Calculation

LEMMA KeptLater ==
  ASSUME NEW row, NEW day \in Nat, Kept(row, day), NEW later \in Nat, day <= later
  PROVE  Kept(row, later)
BY RowFacts DEF Kept, Counted

(* No more is counted than the days up to today amount to.                  *)
LEMMA CountedInTime ==
  ASSUME NEW row, NEW day \in Nat, Kept(row, day)
  PROVE  row.cumulativeAmount <= Owed(Beyond(row.startDate, day))
<1>1. row.startDate \in Nat /\ row.currentDag \in Nat
  BY RowFacts DEF Kept, Counted
<1>2. Beyond(row.startDate, day) \in Nat /\ row.currentDag <= Beyond(row.startDate, day)
  BY <1>1 DEF Beyond, Kept
<1> QED BY <1>1, <1>2, OwedBounds DEF Kept, Counted

(* Settling counts every day up to today, in whatever portions.             *)
LEMMA SettledInFull ==
  ASSUME today \in Nat, NEW row, Kept(row, today), Accrues(row)
  PROVE  LET now == settle(row) IN
           /\ Kept(now, today) /\ Through(now, today)
           /\ row.cumulativeAmount <= now.cumulativeAmount
           /\ now.status = "lopend" /\ row.status = "lopend"
           /\ now.startDate = row.startDate /\ now.definitiveAmount = row.definitiveAmount
<1> DEFINE days == elapsedAccrualDays(row)
           missing == days - row.currentDag
           last == accrual(row, missing)[missing]
           now == settle(row)
<1>0. row \in Calculation /\ row.startDate \in Nat /\ row.currentDag \in Nat
  BY RowFacts DEF Kept, Counted
<1>1. /\ days = Beyond(row.startDate, today) /\ days \in Nat
      /\ row.status = "lopend" /\ row.currentDag < days
  BY <1>0 DEF Accrues, elapsedAccrualDays, Beyond
<1>2. missing \in Nat /\ row.currentDag + missing = days
  BY <1>0, <1>1
<1>3. now = [row EXCEPT !.currentDag = last.currentDag, !.cumulativeAmount = last.cumulativeAmount,
                        !.plafondBereikt = last.plafondBereikt]
  BY SettleApplies
<1> HIDE DEF missing, now
<1>4. /\ Counted(last) /\ last.cumulativeAmount = Owed(days)
      /\ row.currentDag <= last.currentDag /\ last.currentDag <= days
  BY <1>2, DaysCounted DEF Kept
<1> HIDE DEF last
<1>5. last.currentDag \in Nat /\ last.cumulativeAmount \in 0..Plafond /\ last.plafondBereikt \in BOOLEAN
  BY <1>4, RowFacts DEF Counted
<1>6. /\ now \in Calculation
      /\ now.currentDag = last.currentDag /\ now.cumulativeAmount = last.cumulativeAmount
      /\ now.plafondBereikt = last.plafondBereikt
      /\ now.status = row.status /\ now.startDate = row.startDate
      /\ now.definitiveAmount = row.definitiveAmount
  BY <1>0, <1>3, <1>5 DEF Calculation
<1>7. Kept(now, today)
  <2>1. Counted(now)
    BY <1>4, <1>6 DEF Counted
  <2>2. now.startDate + now.currentDag <= today \/ now.currentDag = 0
    BY <1>0, <1>1, <1>4, <1>5, <1>6 DEF Beyond
  <2> QED BY <1>1, <1>6, <2>1, <2>2 DEF Kept
<1>8. row.cumulativeAmount <= now.cumulativeAmount
  BY <1>0, <1>1, <1>4, <1>6, OwedBounds DEF Kept, Counted
<1> QED BY <1>1, <1>4, <1>6, <1>7, <1>8 DEF now, Through

(* A row that nothing accrues on any more counts every day, too.            *)
LEMMA NothingMissing ==
  ASSUME today \in Nat, NEW row, Kept(row, today), row.status = "lopend", ~Accrues(row)
  PROVE  Through(row, today)
<1>0. row \in Calculation /\ row.startDate \in Nat /\ row.currentDag \in Nat
  BY RowFacts DEF Kept, Counted
<1> DEFINE days == Beyond(row.startDate, today)
<1>1. days \in Nat /\ days = elapsedAccrualDays(row)
  BY <1>0 DEF Beyond, elapsedAccrualDays
<1>2. row.plafondBereikt \/ days <= row.currentDag
  BY <1>0, <1>1 DEF Accrues
<1>3. row.cumulativeAmount <= Owed(days) /\ Owed(days) \in 0..Plafond
  BY <1>1, CountedInTime, OwedBounds
<1>4. Plafond \in Nat
  BY DEF Plafond
<1>5. CASE row.plafondBereikt
  BY <1>3, <1>4, <1>5 DEF Through, Kept, Counted
<1>6. CASE days <= row.currentDag
  <2>1. Owed(days) <= Owed(row.currentDag)
    BY <1>0, <1>1, <1>6, OwedBounds
  <2>2. row.cumulativeAmount = Owed(row.currentDag) /\ row.cumulativeAmount \in Nat
    BY <1>0, RowFacts DEF Kept, Counted
  <2>3. Owed(days) \in Nat
    BY <1>3, <1>4
  <2> QED BY <1>3, <2>1, <2>2, <2>3 DEF Through
<1> QED BY <1>2, <1>5, <1>6
------------------------------------------------------------------------------
(* What a request is about, and how what it has read is related to what it  *)
(* is to write.                                                             *)
Ops == {"none", "notice", "touch", "complete", "expire", "accrue", "stop", "object", "resolve", "pay",
        "callback"}
Pcs == {"idle", "link", "linkSave", "create", "patch", "patchSave", "settle", "reread", "write",
        "search", "payouts", "pay", "report"}

Call == [op : Ops, pc : Pcs, day : Days, calc : Calculations \cup {None}, amount : Nat,
         row : Terms, seen : Calculation, held : Calculation,
         found : [Payouts -> Payout] \cup {NoPayout}, todo : SUBSET Payouts]

InPlace(call) ==
  /\ call.pc \in {"settle", "reread"} => call.op = "stop"
  /\ call.pc = "write" => call.op \in {"accrue", "stop", "object", "resolve"}
  /\ call.pc \in {"search", "payouts"} => call.op \in {"object", "resolve"}
  /\ call.op \in {"accrue", "stop", "object", "resolve", "pay"} => call.calc \in Calculations
  /\ call.pc \in {"settle", "reread", "write", "search", "payouts", "pay"} => call.calc \in Calculations
  /\ call.op = "none" <=> call.pc = "idle"

Grounded(call) ==
  LET seen == call.seen
      held == call.held
  IN  /\ call.pc = "settle" \/ (call.pc = "write" /\ call.op = "accrue") =>
           /\ seen.status = "lopend" /\ held.status = "lopend"
           /\ held.startDate = seen.startDate
           /\ seen.cumulativeAmount <= held.cumulativeAmount
      /\ call.pc = "settle" => Through(held, call.day)
      /\ call.pc = "write" /\ call.op \in {"stop", "object", "resolve"} =>
           /\ held.startDate = seen.startDate
           /\ held.cumulativeAmount = seen.cumulativeAmount
           /\ call.op = "stop" => held.status = "gestopt-wegens-decision"
           /\ call.op = "object" => held.status = "objection-bevroren"
           /\ call.op = "resolve" => held.status = "completed" /\ held.definitiveAmount = call.amount
      /\ call.pc = "pay" => call.amount = Payable(seen)

Known(call, day, there) ==
  /\ call \in Call /\ InPlace(call) /\ Grounded(call)
  /\ Kept(call.seen, day) /\ Kept(call.held, day)
  /\ call.calc # None => call.calc \in there
  /\ call.pc \in {"payouts", "report"} =>
       /\ call.found \in [Payouts -> Payout]
       /\ \A p \in call.todo : call.found[p].status # "none" /\ call.found[p].calc \in there
  /\ call.pc = "payouts" => \A p \in call.todo : call.found[p].calc = call.calc

Kinds == {"raced", "linkLost", "linkOverwritten", "notCreated", "lostUpdate", "accrualLost", "overlap",
          "payoutLost", "unheld", "midnight"}

There == {c \in Calculations : Exists(c)}

Types ==
  /\ today \in Days
  /\ term \in Terms
  /\ calcs \in [Calculations -> Calculation] /\ \A c \in Calculations : Kept(calcs[c], today)
  /\ payouts \in [Payouts -> Payout]
  /\ \A p \in Payouts : payouts[p].status # "none" => payouts[p].calc \in There
  /\ req \in [Requests -> Call] /\ \A r \in Requests : Known(req[r], today, There)
  /\ decided \in [Calculations -> Days \cup {None}]
  /\ mishaps \subseteq Kinds

LEMMA DaysAreNumbers == 0 \in Days /\ Days \subseteq Nat /\ None \notin Calculations
BY DwangsomAssumption

LEMMA KnownLater ==
  ASSUME NEW call, NEW day \in Nat, NEW there, Known(call, day, there),
         NEW later \in Nat, day <= later, NEW more, there \subseteq more
  PROVE  Known(call, later, more)
BY KeptLater DEF Known

LEMMA NoCalcKept == ASSUME NEW day PROVE Kept(NoCalc, day) /\ NoCalc \in Calculation
<1>1. NoCalc \in Calculation
  BY DwangsomAssumption DEF NoCalc, Calculation, Plafond
<1>2. /\ NoCalc.status = "none" /\ NoCalc.currentDag = 0 /\ NoCalc.cumulativeAmount = 0
      /\ NoCalc.plafondBereikt = FALSE
  BY DEF NoCalc
<1>3. Plafond # 0
  BY DEF Plafond
<1> QED BY <1>1, <1>2, <1>3, OwedBounds DEF Kept, Counted

LEMMA IdleKnown ==
  ASSUME NEW day, NEW there
  PROVE  Known(Idle, day, there) /\ Idle.op = "none" /\ Idle.pc = "idle"
<1>1. /\ Idle.op = "none" /\ Idle.pc = "idle" /\ Idle.calc = None
      /\ Idle.seen = NoCalc /\ Idle.held = NoCalc
  BY DEF Idle
<1>2. Idle \in Call
  BY NoCalcKept, DaysAreNumbers, FreshTerm DEF Idle, Call, Ops, Pcs
<1> QED BY <1>1, <1>2, NoCalcKept, DaysAreNumbers DEF Known, InPlace, Grounded

(* A step whose results are of their types: what the requests that rest     *)
(* know stays true.                                                         *)
LEMMA TypesStep ==
  ASSUME Types, today' \in Days, today <= today',
         term' \in Terms,
         calcs' \in [Calculations -> Calculation],
         \A c \in Calculations : Kept(calcs'[c], today'), There \subseteq There',
         payouts' \in [Payouts -> Payout],
         \A p \in Payouts : payouts'[p].status # "none" => payouts'[p].calc \in There',
         NEW r, NEW call, req' = req \/ (req' = [req EXCEPT ![r] = call] /\ Known(call, today', There')),
         decided' \in [Calculations -> Days \cup {None}],
         mishaps' \subseteq Kinds
  PROVE  Types'
<1>1. today \in Nat /\ today' \in Nat
  BY DaysAreNumbers DEF Types
<1>2. \A q \in Requests : Known(req[q], today', There')
  BY <1>1, KnownLater DEF Types
<1>3. req' \in [Requests -> Call] /\ \A q \in Requests : Known(req'[q], today', There')
  <2>1. CASE req' = req
    BY <1>2, <2>1 DEF Types
  <2>2. CASE req' = [req EXCEPT ![r] = call] /\ Known(call, today', There')
    <3>1. call \in Call /\ req \in [Requests -> Call]
      BY <2>2 DEF Types, Known
    <3> QED BY <1>2, <2>2, <3>1
  <2> QED BY <2>1, <2>2
<1>4. \A q \in Requests : Known(req[q], today, There)'
  BY <1>3 DEF Known, Kept, Counted, InPlace, Grounded, Through
<1> QED BY <1>3, <1>4 DEF Types, Kept, Counted
------------------------------------------------------------------------------
LEMMA TypesInit == Init => Types
<1> SUFFICES ASSUME Init PROVE Types
  OBVIOUS
<1>1. /\ calcs \in [Calculations -> Calculation] /\ \A c \in Calculations : Kept(calcs[c], today)
      /\ today \in Days
  BY NoCalcKept, DaysAreNumbers DEF Init
<1>2. payouts \in [Payouts -> Payout] /\ \A p \in Payouts : payouts[p].status = "none"
  BY DEF Init, NoPayout, Payout
<1>3. req \in [Requests -> Call] /\ \A r \in Requests : Known(req[r], today, There)
  <2>1. \A r \in Requests : req[r] = Idle /\ req = [q \in Requests |-> Idle]
    BY DEF Init
  <2>2. Known(Idle, today, There)
    BY IdleKnown
  <2> QED BY <2>1, <2>2 DEF Known, Init
<1> QED BY <1>1, <1>2, <1>3, FreshTerm DEF Init, Types

(* A request begins, goes on or ends, and nothing else changes.             *)
LEMMA CallStep ==
  ASSUME Types, NEW r, NEW call, Known(call, today, There), req' = [req EXCEPT ![r] = call],
         calcs' = calcs, today' = today, term' = term, payouts' = payouts, decided' = decided,
         mishaps' \subseteq Kinds
  PROVE  Types'
<1>1. There' = There
  BY DEF There, Exists
<1>2. today \in Nat
  BY DaysAreNumbers DEF Types
<1>3. /\ today' \in Days /\ today <= today' /\ Known(call, today', There') /\ There \subseteq There'
      /\ term' \in Terms
      /\ calcs' \in [Calculations -> Calculation]
      /\ \A c \in Calculations : Kept(calcs'[c], today')
      /\ payouts' \in [Payouts -> Payout]
      /\ \A p \in Payouts : payouts'[p].status # "none" => payouts'[p].calc \in There'
      /\ decided' \in [Calculations -> Days \cup {None}]
  BY <1>1, <1>2 DEF Types
<1> QED BY <1>3, TypesStep

(* A calculation is written, and stays or comes to be there.                *)
LEMMA RowStep ==
  ASSUME Types, NEW r, NEW call, Known(call, today, There), req' = [req EXCEPT ![r] = call],
         NEW c \in Calculations, NEW row, Kept(row, today), row.status # "none",
         calcs' = [calcs EXCEPT ![c] = row], today' = today, term' = term, payouts' = payouts,
         decided' \in [Calculations -> Days \cup {None}], mishaps' \subseteq Kinds
  PROVE  Types'
<1>1. row \in Calculation /\ today \in Nat
  BY DaysAreNumbers DEF Kept, Counted, Types
<1>2. calcs' \in [Calculations -> Calculation] /\ \A d \in Calculations : Kept(calcs'[d], today')
  BY <1>1 DEF Types
<1>3. There \subseteq There'
  BY DEF There, Exists, Types
<1>4. Known(call, today', There') /\ today <= today' /\ today' \in Days
  BY <1>1, <1>3, KnownLater DEF Types
<1>5. /\ term' \in Terms
      /\ payouts' \in [Payouts -> Payout]
      /\ \A p \in Payouts : payouts'[p].status # "none" => payouts'[p].calc \in There'
  BY <1>3 DEF Types
<1> QED BY <1>2, <1>3, <1>4, <1>5, TypesStep

(* A payout is written, of a calculation that is there.                     *)
LEMMA PayoutStep ==
  ASSUME Types, NEW r, NEW call, Known(call, today, There), req' = [req EXCEPT ![r] = call],
         NEW p \in Payouts, NEW row \in Payout, row.calc \in There,
         payouts' = [payouts EXCEPT ![p] = row], calcs' = calcs, today' = today, term' = term,
         decided' = decided, mishaps' \subseteq Kinds
  PROVE  Types'
<1>1. There' = There
  BY DEF There, Exists
<1>2. today \in Nat
  BY DaysAreNumbers DEF Types
<1>3. payouts' \in [Payouts -> Payout]
  BY DEF Types
<1>4. \A q \in Payouts : payouts'[q].status # "none" => payouts'[q].calc \in There'
  BY <1>1 DEF Types
<1>5. /\ today' \in Days /\ today <= today' /\ Known(call, today', There') /\ There \subseteq There'
      /\ term' \in Terms
      /\ calcs' \in [Calculations -> Calculation]
      /\ \A c \in Calculations : Kept(calcs'[c], today')
      /\ decided' \in [Calculations -> Days \cup {None}]
  BY <1>1, <1>2 DEF Types
<1> QED BY <1>3, <1>4, <1>5, TypesStep
------------------------------------------------------------------------------
LEMMA CalendarTypes ==
  ASSUME Types, Tick
  PROVE  Types'
<1>1. There' = There
  BY DEF There, Exists, Tick
<1>2. today \in Nat /\ today' \in Nat /\ today' \in Days /\ today <= today'
  BY DaysAreNumbers DEF Types, Tick
<1>3. /\ calcs' = calcs /\ payouts' = payouts /\ decided' = decided /\ req' = req
      /\ term' \in Terms
      /\ mishaps' \subseteq Kinds
  BY DEF Tick, Types, Noting, Kinds
<1>4. \A c \in Calculations : Kept(calcs'[c], today')
  BY <1>2, <1>3, KeptLater DEF Types
<1>5. \A p \in Payouts : payouts'[p].status # "none" => payouts'[p].calc \in There'
  BY <1>1, <1>3 DEF Types
<1> QED BY <1>1, <1>2, <1>3, <1>4, <1>5, TypesStep DEF Types

(* The term is read and written back.                                       *)
LEMMA TermTypes ==
  ASSUME Types, NEW r \in Requests,
         ReadTerm(r) \/ SaveTerm(r) \/ \E op \in Patching : PatchTerm(r, op)
  PROVE  Types'
<1>0. Known(req[r], today, There) /\ req[r] \in Call /\ term \in Terms
  BY DEF Types, Known
<1>1. ASSUME NEW op \in Patching, PatchTerm(r, op) PROVE Types'
  <2> DEFINE call == [Idle EXCEPT !.op = op, !.pc = "patch"]
  <2>1. req' = [req EXCEPT ![r] = call] /\ mishaps' \subseteq Kinds
    BY <1>1 DEF PatchTerm, Requesting, Types
  <2>2. /\ call.op = op /\ call.pc = "patch" /\ call.calc = None
        /\ call.seen = NoCalc /\ call.held = NoCalc /\ call \in Call
    BY NoCalcKept, DaysAreNumbers, FreshTerm DEF Idle, Call, Ops, Pcs, Patching
  <2> HIDE DEF call
  <2>3. Known(call, today, There)
    BY <2>2, NoCalcKept DEF Known, InPlace, Grounded, Patching
  <2> QED BY <1>1, <2>1, <2>3, CallStep DEF PatchTerm
<1>2. ASSUME NEW pc \in {"linkSave", "patchSave"}, req[r].pc \in {"link", "patch"},
             req' = [req EXCEPT ![r].pc = pc, ![r].row = term],
             UNCHANGED <<today, term, calcs, payouts, decided, mishaps>>
      PROVE  Types'
  <2> DEFINE call == [req[r] EXCEPT !.pc = pc, !.row = term]
  <2>1. req' = [req EXCEPT ![r] = call] /\ mishaps' \subseteq Kinds
    BY <1>2 DEF Types
  <2>2. /\ call \in Call /\ call.pc = pc /\ call.op = req[r].op /\ call.calc = req[r].calc
        /\ call.seen = req[r].seen /\ call.held = req[r].held
    BY <1>0 DEF Call, Pcs
  <2> HIDE DEF call
  <2>3. Known(call, today, There)
    BY <1>0, <1>2, <2>2 DEF Known, InPlace, Grounded
  <2> QED BY <1>2, <2>1, <2>3, CallStep
<1>3. CASE SaveTerm(r)
  <2>1. /\ req' = [req EXCEPT ![r] = Idle] /\ mishaps' \subseteq Kinds
        /\ UNCHANGED <<today, calcs, payouts, decided>>
        /\ term' = Patched(req[r].op, req[r].row) /\ req[r].row \in Terms
    BY <1>0, <1>3 DEF SaveTerm, Ending, Noting, Types, Kinds, Call
  <2>2. term' \in Terms
    BY <2>1 DEF Patched, Terms
  <2>3. There' = There /\ today' \in Days /\ today <= today' /\ Known(Idle, today', There')
    BY <2>1, IdleKnown, DaysAreNumbers DEF There, Exists, Types
  <2> QED BY <2>1, <2>2, <2>3, TypesStep DEF Types
<1> QED BY <1>1, <1>2, <1>3 DEF ReadTerm

(* A notice, from its receipt to the calculation it starts.                 *)
LEMMA NoticeTypes ==
  ASSUME Types, NEW r \in Requests,
         LinkNotice(r) \/ StartCalculation(r) \/ \E day \in Days : RegisterNotice(r, day)
  PROVE  Types'
<1>1. ASSUME NEW day \in Days, RegisterNotice(r, day) PROVE Types'
  <2> DEFINE call == [Idle EXCEPT !.op = "notice", !.pc = "link", !.day = day]
  <2>1. req' = [req EXCEPT ![r] = call] /\ mishaps' \subseteq Kinds
    BY <1>1 DEF RegisterNotice, Requesting, Noting, Types, Kinds
  <2>2. /\ call.op = "notice" /\ call.pc = "link" /\ call.calc = None
        /\ call.seen = NoCalc /\ call.held = NoCalc /\ call \in Call
    BY NoCalcKept, DaysAreNumbers, FreshTerm DEF Idle, Call, Ops, Pcs
  <2> HIDE DEF call
  <2>3. Known(call, today, There)
    BY <2>2, NoCalcKept DEF Known, InPlace, Grounded
  <2> QED BY <1>1, <2>1, <2>3, CallStep DEF RegisterNotice
<1>2. CASE LinkNotice(r)
  <2> DEFINE call == [req[r] EXCEPT !.pc = "create"]
  <2>1. /\ req' = [req EXCEPT ![r] = call] /\ mishaps' \subseteq Kinds /\ req[r].pc = "linkSave"
    BY <1>2 DEF LinkNotice, Going, Noting, Types, Kinds
  <2>7. term' \in Terms
    <3>1. req[r].row \in Terms /\ term \in Terms
      BY DEF Types, Call
    <3> QED BY <1>2, <3>1 DEF LinkNotice, Terms
  <2>2. Known(req[r], today, There) /\ req[r] \in Call
    BY DEF Types, Known
  <2>3. /\ call \in Call /\ call.pc = "create" /\ call.op = req[r].op /\ call.calc = req[r].calc
        /\ call.seen = req[r].seen /\ call.held = req[r].held
    BY <2>2 DEF Call, Pcs
  <2> HIDE DEF call
  <2>4. Known(call, today, There)
    BY <2>1, <2>2, <2>3 DEF Known, InPlace, Grounded
  <2>5. There' = There /\ UNCHANGED <<today, calcs, payouts, decided>>
    BY <1>2 DEF There, Exists, LinkNotice
  <2>6. today' \in Days /\ today <= today'
    BY <2>5, DaysAreNumbers DEF Types
  <2> QED BY <2>1, <2>4, <2>5, <2>6, <2>7, TypesStep DEF Types
<1>3. CASE StartCalculation(r)
  <2>1. /\ req' = [req EXCEPT ![r] = Idle] /\ mishaps' \subseteq Kinds
        /\ UNCHANGED <<today, term, payouts, decided>>
    BY <1>3 DEF StartCalculation, Ending, Noting, Types, Kinds
  <2>2. Known(Idle, today, There) /\ req[r].day \in Nat
    BY IdleKnown, DaysAreNumbers DEF Types, Call
  <2>3. CASE calcs' = calcs
    BY <2>1, <2>2, <2>3, CallStep
  <2>4. ASSUME NEW c \in Calculations,
               calcs' = [calcs EXCEPT ![c] = [NoCalc EXCEPT !.status = "lopend",
                                                            !.startDate = req[r].day + Grace]]
        PROVE  Types'
    <3> DEFINE row == [NoCalc EXCEPT !.status = "lopend", !.startDate = req[r].day + Grace]
    <3>1. req[r].day + Grace \in Nat
      BY <2>2 DEF Grace
    <3>2. /\ row \in Calculation /\ row.status = "lopend" /\ row.currentDag = 0
          /\ row.cumulativeAmount = 0 /\ row.plafondBereikt = FALSE
      <4>1. NoCalc \in Calculation /\ row = [NoCalc EXCEPT !.status = "lopend",
                                                            !.startDate = req[r].day + Grace]
        BY NoCalcKept
      <4>2. row \in Calculation /\ row.status = "lopend"
        BY <3>1, <4>1 DEF Calculation
      <4>3. /\ row.currentDag = 0 /\ row.cumulativeAmount = 0 /\ row.plafondBereikt = FALSE
        BY DEF NoCalc
      <4> QED BY <4>2, <4>3
    <3>3. calcs' = [calcs EXCEPT ![c] = row] /\ Plafond # 0
      BY <2>4 DEF Plafond
    <3> HIDE DEF row
    <3>4. Kept(row, today)
      BY <3>2, <3>3, OwedBounds DEF Kept, Counted
    <3>5. decided' \in [Calculations -> Days \cup {None}]
      BY <2>1 DEF Types
    <3> QED BY <2>1, <2>2, <3>2, <3>3, <3>4, <3>5, RowStep
  <2> QED BY <1>3, <2>3, <2>4 DEF StartCalculation
<1> QED BY <1>1, <1>2, <1>3
------------------------------------------------------------------------------
(* What a request reads when it begins on a calculation.                    *)
LEMMA ReadingCall ==
  ASSUME Types, NEW op \in Ops, NEW c \in Calculations, NEW row \in Calculation
  PROVE  LET call == Reading(op, c, row) IN
           /\ call \in Call /\ call.op = op /\ call.pc = "write" /\ call.day = today
           /\ call.calc = c /\ call.seen = calcs[c] /\ call.held = row
<1>1. calcs[c] \in Calculation /\ today \in Days
  BY DEF Types
<1> QED BY <1>1, FreshTerm DEF Reading, Idle, Call, Pcs

LEMMA AccrueTypes ==
  ASSUME Types, NEW r \in Requests, NEW c \in Calculations, Accrue(r, c)
  PROVE  Types'
<1> DEFINE row == settle(calcs[c])
           call == Reading("accrue", c, row)
<1>1. /\ Accrues(calcs[c]) /\ req' = [req EXCEPT ![r] = call]
      /\ UNCHANGED <<today, term, calcs, payouts, decided, mishaps>>
  BY DEF Accrue, Requesting
<1>2. today \in Nat /\ Kept(calcs[c], today)
  BY DaysAreNumbers DEF Types
<1>3. /\ Kept(row, today) /\ row \in Calculation /\ row.status = "lopend"
      /\ calcs[c].status = "lopend" /\ row.startDate = calcs[c].startDate
      /\ calcs[c].cumulativeAmount <= row.cumulativeAmount
  BY <1>1, <1>2, SettledInFull DEF Kept, Counted
<1> HIDE DEF row
<1>4. /\ call \in Call /\ call.op = "accrue" /\ call.pc = "write" /\ call.calc = c
      /\ call.seen = calcs[c] /\ call.held = row
  BY <1>3, ReadingCall DEF Ops
<1> HIDE DEF call
<1>5. c \in There
  BY <1>3 DEF There, Exists
<1>6. Known(call, today, There)
  BY <1>2, <1>3, <1>4, <1>5 DEF Known, InPlace, Grounded
<1> QED BY <1>1, <1>6, CallStep DEF Types

(* A decision settles first, unless there is nothing to settle.             *)
LEMMA StopTypes ==
  ASSUME Types, NEW r \in Requests, NEW c \in Calculations, StopForBeschikking(r, c)
  PROVE  Types'
<1>1. /\ c \in There
      /\ UNCHANGED <<today, term, calcs, payouts, decided, mishaps>>
  BY DEF StopForBeschikking, There
<1>2. today \in Nat /\ Kept(calcs[c], today) /\ calcs[c] \in Calculation
  BY DaysAreNumbers DEF Types
<1>3. CASE Accrues(calcs[c])
  <2> DEFINE row == settle(calcs[c])
             read == Reading("stop", c, row)
             call == [read EXCEPT !.pc = "settle"]
  <2>1. req' = [req EXCEPT ![r] = call]
    BY <1>3 DEF StopForBeschikking, Requesting
  <2>2. /\ Kept(row, today) /\ row \in Calculation /\ row.status = "lopend" /\ Through(row, today)
        /\ calcs[c].status = "lopend" /\ row.startDate = calcs[c].startDate
        /\ calcs[c].cumulativeAmount <= row.cumulativeAmount
    BY <1>2, <1>3, SettledInFull DEF Kept, Counted
  <2> HIDE DEF row
  <2>3. /\ read \in Call /\ read.op = "stop" /\ read.pc = "write" /\ read.calc = c
        /\ read.seen = calcs[c] /\ read.held = row /\ read.day = today
    BY <2>2, ReadingCall DEF Ops
  <2> HIDE DEF read
  <2>4. /\ call \in Call /\ call.op = "stop" /\ call.pc = "settle" /\ call.calc = c
        /\ call.seen = calcs[c] /\ call.held = row /\ call.day = today
    BY <2>3 DEF Call, Pcs
  <2> HIDE DEF call
  <2>5. Known(call, today, There)
    BY <1>1, <1>2, <2>2, <2>4 DEF Known, InPlace, Grounded
  <2> QED BY <1>1, <2>1, <2>5, CallStep DEF Types
<1>4. CASE ~Accrues(calcs[c])
  <2> DEFINE read == Reading("stop", c, calcs[c])
             call == [read EXCEPT !.pc = "reread"]
  <2>1. req' = [req EXCEPT ![r] = call]
    BY <1>4 DEF StopForBeschikking, Requesting
  <2>2. /\ read \in Call /\ read.op = "stop" /\ read.pc = "write" /\ read.calc = c
        /\ read.seen = calcs[c] /\ read.held = calcs[c] /\ read.day = today
    BY <1>2, ReadingCall DEF Ops
  <2> HIDE DEF read
  <2>3. /\ call \in Call /\ call.op = "stop" /\ call.pc = "reread" /\ call.calc = c
        /\ call.seen = calcs[c] /\ call.held = calcs[c] /\ call.day = today
    BY <2>2 DEF Call, Pcs
  <2> HIDE DEF call
  <2>4. Known(call, today, There)
    BY <1>1, <1>2, <2>3 DEF Known, InPlace, Grounded
  <2> QED BY <1>1, <2>1, <2>4, CallStep DEF Types
<1> QED BY <1>3, <1>4

LEMMA SaveSettledTypes ==
  ASSUME Types, NEW r \in Requests, SaveSettled(r)
  PROVE  Types'
<1> DEFINE call == [req[r] EXCEPT !.pc = "reread"]
<1>1. /\ req[r].pc = "settle" /\ req' = [req EXCEPT ![r] = call] /\ mishaps' \subseteq Kinds
      /\ UNCHANGED <<today, term, payouts, decided>>
  BY DEF SaveSettled, Going, Noting, Types, Kinds
<1>2. Known(req[r], today, There) /\ req[r] \in Call
  BY DEF Types, Known
<1>3. /\ call \in Call /\ call.op = req[r].op /\ call.pc = "reread" /\ call.calc = req[r].calc
      /\ call.seen = req[r].seen /\ call.held = req[r].held
  BY <1>2 DEF Call, Pcs
<1> HIDE DEF call
<1>4. Known(call, today, There)
  BY <1>1, <1>2, <1>3 DEF Known, InPlace, Grounded
<1>5. CASE calcs' = calcs
  BY <1>1, <1>4, <1>5, CallStep
<1>6. CASE calcs' = [calcs EXCEPT ![req[r].calc] = req[r].held]
  <2>1. /\ req[r].calc \in Calculations /\ Kept(req[r].held, today)
        /\ req[r].held.status = "lopend"
    BY <1>1, <1>2 DEF Known, InPlace, Grounded
  <2> QED BY <1>1, <1>4, <1>6, <2>1, RowStep DEF Types
<1> QED BY <1>5, <1>6 DEF SaveSettled

LEMMA ReadAgainTypes ==
  ASSUME Types, NEW r \in Requests, ReadAgain(r)
  PROVE  Types'
<1> DEFINE row == calcs[req[r].calc]
           stopped == [row EXCEPT !.status = "gestopt-wegens-decision",
                                  !.definitiveAmount = row.cumulativeAmount]
           call == [req[r] EXCEPT !.pc = "write", !.seen = row, !.held = stopped]
<1>1. /\ req[r].pc = "reread" /\ req' = [req EXCEPT ![r] = call]
      /\ UNCHANGED <<today, term, calcs, payouts, decided, mishaps>>
  BY DEF ReadAgain
<1>2. Known(req[r], today, There) /\ req[r] \in Call
  BY DEF Types, Known
<1>3. req[r].calc \in Calculations /\ req[r].op = "stop" /\ Kept(row, today) /\ row \in Calculation
  BY <1>1, <1>2 DEF Known, InPlace, Types
<1> HIDE DEF row
<1>4. /\ stopped \in Calculation /\ stopped.status = "gestopt-wegens-decision"
      /\ stopped.definitiveAmount = row.cumulativeAmount
      /\ stopped.cumulativeAmount = row.cumulativeAmount /\ stopped.currentDag = row.currentDag
      /\ stopped.startDate = row.startDate /\ stopped.plafondBereikt = row.plafondBereikt
  <2>1. row.cumulativeAmount \in Nat
    BY <1>3, RowFacts
  <2> QED BY <1>3, <2>1 DEF Calculation
<1> HIDE DEF stopped
<1>5. Kept(stopped, today)
  BY <1>3, <1>4 DEF Kept, Counted
<1>6. /\ call \in Call /\ call.op = "stop" /\ call.pc = "write" /\ call.calc = req[r].calc
      /\ call.seen = row /\ call.held = stopped
  BY <1>2, <1>3, <1>4 DEF Call, Pcs
<1> HIDE DEF call
<1>7. Known(call, today, There)
  BY <1>2, <1>3, <1>4, <1>5, <1>6 DEF Known, InPlace, Grounded
<1> QED BY <1>1, <1>7, CallStep DEF Types

LEMMA WriteTypes ==
  ASSUME Types, NEW r \in Requests, WriteCalculation(r)
  PROVE  Types'
<1> DEFINE going == [req[r] EXCEPT !.pc = "search"]
<1>1. /\ req[r].pc = "write" /\ mishaps' \subseteq Kinds
      /\ calcs' = [calcs EXCEPT ![req[r].calc] = req[r].held]
      /\ UNCHANGED <<today, term, payouts>>
  BY DEF WriteCalculation, Noting, Types, Kinds
<1>2. Known(req[r], today, There) /\ req[r] \in Call
  BY DEF Types, Known
<1>3. /\ req[r].calc \in Calculations /\ Kept(req[r].held, today) /\ req[r].held.status # "none"
      /\ req[r].day \in Days
  BY <1>1, <1>2 DEF Known, InPlace, Grounded, Call
<1>4. decided' \in [Calculations -> Days \cup {None}]
  BY <1>3 DEF WriteCalculation, Types
<1>5. PICK call : req' = [req EXCEPT ![r] = call] /\ Known(call, today, There)
  <2>1. CASE req[r].op \in {"object", "resolve"}
    <3>1. /\ going \in Call /\ going.op = req[r].op /\ going.pc = "search"
          /\ going.calc = req[r].calc /\ going.seen = req[r].seen /\ going.held = req[r].held
      BY <1>2 DEF Call, Pcs
    <3>2. req' = [req EXCEPT ![r] = going]
      BY <2>1 DEF WriteCalculation, Going
    <3> HIDE DEF going
    <3>3. Known(going, today, There)
      BY <1>1, <1>2, <2>1, <3>1 DEF Known, InPlace, Grounded
    <3> QED BY <3>2, <3>3
  <2>2. CASE req[r].op \notin {"object", "resolve"}
    BY <2>2, IdleKnown DEF WriteCalculation, Ending
  <2> QED BY <2>1, <2>2
<1> QED BY <1>1, <1>3, <1>4, <1>5, RowStep
------------------------------------------------------------------------------
LEMMA ObjectTypes ==
  ASSUME Types, NEW r \in Requests, NEW c \in Calculations, RegisterBezwaar(r, c)
  PROVE  Types'
<1> DEFINE row == calcs[c]
           frozen == [row EXCEPT !.status = "objection-bevroren"]
           call == Reading("object", c, frozen)
<1>1. /\ c \in There /\ req' = [req EXCEPT ![r] = call] /\ mishaps' \subseteq Kinds
      /\ UNCHANGED <<today, term, calcs, payouts, decided>>
  BY DEF RegisterBezwaar, There, Requesting, Noting, Objecting, Types, Kinds
<1>2. Kept(row, today) /\ row \in Calculation /\ row = calcs[c]
  BY DEF Types
<1> HIDE DEF row
<1>3. /\ frozen \in Calculation /\ frozen.status = "objection-bevroren"
      /\ frozen.cumulativeAmount = row.cumulativeAmount /\ frozen.currentDag = row.currentDag
      /\ frozen.startDate = row.startDate /\ frozen.plafondBereikt = row.plafondBereikt
  BY <1>2 DEF Calculation
<1> HIDE DEF frozen
<1>4. Kept(frozen, today)
  BY <1>2, <1>3 DEF Kept, Counted
<1>5. /\ call \in Call /\ call.op = "object" /\ call.pc = "write" /\ call.calc = c
      /\ call.seen = row /\ call.held = frozen
  BY <1>2, <1>3, ReadingCall DEF Ops
<1> HIDE DEF call
<1>6. Known(call, today, There)
  BY <1>1, <1>2, <1>3, <1>4, <1>5 DEF Known, InPlace, Grounded
<1> QED BY <1>1, <1>6, CallStep DEF Types

LEMMA ResolveTypes ==
  ASSUME Types, NEW r \in Requests, NEW c \in Calculations, NEW amount \in Corrections,
         ResolveBezwaar(r, c, amount)
  PROVE  Types'
<1> DEFINE row == calcs[c]
           done == [row EXCEPT !.status = "completed", !.definitiveAmount = amount]
           read == Reading("resolve", c, done)
           call == [read EXCEPT !.amount = amount]
<1>1. /\ c \in There /\ req' = [req EXCEPT ![r] = call] /\ mishaps' \subseteq Kinds
      /\ UNCHANGED <<today, term, calcs, payouts, decided>>
  BY DEF ResolveBezwaar, There, Requesting, Noting, Objecting, Types, Kinds
<1>2. Kept(row, today) /\ row \in Calculation /\ row = calcs[c] /\ amount \in Nat /\ amount # None
  BY DwangsomAssumption DEF Types
<1> HIDE DEF row
<1>3. /\ done \in Calculation /\ done.status = "completed" /\ done.definitiveAmount = amount
      /\ done.cumulativeAmount = row.cumulativeAmount /\ done.currentDag = row.currentDag
      /\ done.startDate = row.startDate /\ done.plafondBereikt = row.plafondBereikt
  BY <1>2 DEF Calculation
<1> HIDE DEF done
<1>4. Kept(done, today)
  BY <1>2, <1>3 DEF Kept, Counted
<1>5. /\ read \in Call /\ read.op = "resolve" /\ read.pc = "write" /\ read.calc = c
      /\ read.seen = row /\ read.held = done
  BY <1>2, <1>3, ReadingCall DEF Ops
<1> HIDE DEF read
<1>6. /\ call \in Call /\ call.op = "resolve" /\ call.pc = "write" /\ call.calc = c
      /\ call.seen = row /\ call.held = done /\ call.amount = amount
  BY <1>2, <1>5 DEF Call
<1> HIDE DEF call
<1>7. Known(call, today, There)
  BY <1>1, <1>2, <1>3, <1>4, <1>6 DEF Known, InPlace, Grounded
<1> QED BY <1>1, <1>7, CallStep DEF Types
------------------------------------------------------------------------------
(* A request ends.                                                          *)
LEMMA CutShortTypes ==
  ASSUME Types, NEW r \in Requests, CutShort(r)
  PROVE  Types'
<1>1. mishaps' \subseteq Kinds
  BY DEF CutShort, Noting, Types, Kinds
<1> QED BY <1>1, IdleKnown, CallStep DEF CutShort, Ending

LEMMA FindPayoutsTypes ==
  ASSUME Types, NEW r \in Requests, FindPayouts(r)
  PROVE  Types'
<1> DEFINE of == PayoutsOf(req[r].calc)
           call == [req[r] EXCEPT !.pc = "payouts", !.todo = of, !.found = payouts]
<1>1. /\ req[r].pc = "search" /\ mishaps' \subseteq Kinds
      /\ req' = [req EXCEPT ![r] = Idle] \/ req' = [req EXCEPT ![r] = call]
      /\ UNCHANGED <<today, term, calcs, payouts, decided>>
  BY DEF FindPayouts, Ending, Types
<1>2. Known(req[r], today, There) /\ req[r] \in Call
  BY DEF Types, Known
<1>3. /\ payouts \in [Payouts -> Payout] /\ of \subseteq Payouts
      /\ \A p \in of : /\ payouts[p].status # "none" /\ payouts[p].calc = req[r].calc
                       /\ payouts[p].calc \in There
  BY DEF PayoutsOf, Types
<1> HIDE DEF of
<1>4. /\ call \in Call /\ call.op = req[r].op /\ call.pc = "payouts" /\ call.calc = req[r].calc
      /\ call.seen = req[r].seen /\ call.held = req[r].held
      /\ call.todo = of /\ call.found = payouts
  BY <1>2, <1>3 DEF Call, Pcs
<1> HIDE DEF call
<1>5. Known(call, today, There)
  BY <1>1, <1>2, <1>3, <1>4 DEF Known, InPlace, Grounded
<1> QED BY <1>1, <1>5, IdleKnown, CallStep

(* Fewer payouts to write, and the rest as before.                          *)
LEMMA SavePayoutTypes ==
  ASSUME Types, NEW r \in Requests, NEW p \in Payouts, SavePayout(r, p)
  PROVE  Types'
<1> DEFINE call == [req[r] EXCEPT !.todo = req[r].todo \ {p}]
           row == Follow(req[r].op, req[r].found[p], req[r].amount)
<1>1. /\ req[r].pc = "payouts" /\ p \in req[r].todo /\ mishaps' \subseteq Kinds
      /\ req' = [req EXCEPT ![r] = Idle] \/ req' = [req EXCEPT ![r] = call]
      /\ UNCHANGED <<today, term, calcs, decided>>
      /\ payouts' = payouts \/ payouts' = [payouts EXCEPT ![p] = row]
  BY DEF SavePayout, Ending, Noting, Types, Kinds
<1>2. Known(req[r], today, There) /\ req[r] \in Call
  BY DEF Types, Known
<1>3. /\ call \in Call /\ call.op = req[r].op /\ call.pc = "payouts" /\ call.calc = req[r].calc
      /\ call.seen = req[r].seen /\ call.held = req[r].held
      /\ call.todo = req[r].todo \ {p} /\ call.found = req[r].found
  BY <1>1, <1>2 DEF Call
<1> HIDE DEF call
<1>4. Known(call, today, There)
  BY <1>1, <1>2, <1>3 DEF Known, InPlace, Grounded
<1>5. PICK next : req' = [req EXCEPT ![r] = next] /\ Known(next, today, There)
  BY <1>1, <1>4, IdleKnown
<1>6. req[r].found[p] \in Payout /\ req[r].found[p].calc \in There /\ req[r].amount \in Nat
  BY <1>1, <1>2 DEF Known, Call
<1>7. row \in Payout /\ row.calc \in There
  BY <1>6 DEF Follow, Payout
<1> HIDE DEF row
<1>8. CASE payouts' = payouts
  BY <1>1, <1>5, <1>8, CallStep
<1>9. CASE payouts' = [payouts EXCEPT ![p] = row]
  BY <1>1, <1>5, <1>7, <1>9, PayoutStep
<1> QED BY <1>1, <1>8, <1>9

LEMMA PrepareTypes ==
  ASSUME Types, NEW r \in Requests, NEW c \in Calculations, PrepareBetaling(r, c)
  PROVE  Types'
<1> DEFINE row == calcs[c]
           read == Reading("pay", c, row)
           call == [read EXCEPT !.pc = "pay", !.amount = Payable(row)]
<1>1. /\ c \in There /\ req' = [req EXCEPT ![r] = call]
      /\ UNCHANGED <<today, term, calcs, payouts, decided, mishaps>>
  BY DEF PrepareBetaling, There, Requesting
<1>2. Kept(row, today) /\ row \in Calculation /\ row = calcs[c]
  BY DEF Types
<1> HIDE DEF row
<1>3. Payable(row) \in Nat
  BY <1>2, RowFacts DEF Payable
<1>4. /\ read \in Call /\ read.op = "pay" /\ read.calc = c /\ read.seen = row /\ read.held = row
  BY <1>2, ReadingCall DEF Ops
<1> HIDE DEF read
<1>5. /\ call \in Call /\ call.op = "pay" /\ call.pc = "pay" /\ call.calc = c
      /\ call.seen = row /\ call.held = row /\ call.amount = Payable(row)
  BY <1>3, <1>4 DEF Call, Pcs
<1> HIDE DEF call
<1>6. Known(call, today, There)
  BY <1>1, <1>2, <1>5 DEF Known, InPlace, Grounded
<1> QED BY <1>1, <1>6, CallStep DEF Types

LEMMA PersistTypes ==
  ASSUME Types, NEW r \in Requests, PersistDisbursement(r)
  PROVE  Types'
<1> DEFINE row == [status |-> "voorbereid", calc |-> req[r].calc, amount |-> req[r].amount]
<1>1. PICK p \in Payouts : payouts' = [payouts EXCEPT ![p] = row]
  BY DEF PersistDisbursement
<1>2. /\ req[r].pc = "pay" /\ req' = [req EXCEPT ![r] = Idle] /\ mishaps' \subseteq Kinds
      /\ UNCHANGED <<today, term, calcs, decided>>
  BY DEF PersistDisbursement, Ending, Noting, Types, Kinds
<1>3. /\ req[r].calc \in There /\ req[r].calc \in Calculations /\ req[r].amount \in Nat
  BY <1>2, DaysAreNumbers DEF Types, Known, InPlace, Call
<1>4. row \in Payout /\ row.calc \in There
  BY <1>3 DEF Payout
<1> HIDE DEF row
<1> QED BY <1>1, <1>2, <1>4, IdleKnown, PayoutStep

LEMMA CallbackTypes ==
  ASSUME Types, NEW r \in Requests, NEW p \in Payouts, HandleCallback(r, p) \/ ApplyCallback(r, p)
  PROVE  Types'
<1>1. CASE HandleCallback(r, p)
  <2> DEFINE call == [Idle EXCEPT !.op = "callback", !.pc = "report", !.todo = {p}, !.found = payouts]
  <2>1. /\ payouts[p].status # "none" /\ payouts \in [Payouts -> Payout] /\ payouts[p].calc \in There
        /\ req' = [req EXCEPT ![r] = call]
        /\ UNCHANGED <<today, term, calcs, payouts, decided, mishaps>>
    BY <1>1 DEF HandleCallback, Requesting, Types
  <2>2. /\ call \in Call /\ call.op = "callback" /\ call.pc = "report" /\ call.calc = None
        /\ call.seen = NoCalc /\ call.held = NoCalc /\ call.todo = {p} /\ call.found = payouts
    BY <2>1, NoCalcKept, DaysAreNumbers, FreshTerm DEF Idle, Call, Ops, Pcs
  <2> HIDE DEF call
  <2>3. Known(call, today, There)
    BY <2>1, <2>2, NoCalcKept DEF Known, InPlace, Grounded
  <2> QED BY <2>1, <2>3, CallStep DEF Types
<1>2. CASE ApplyCallback(r, p)
  <2> DEFINE row == [req[r].found[p] EXCEPT !.status = "reported"]
  <2>1. /\ req[r].pc = "report" /\ p \in req[r].todo /\ payouts' = [payouts EXCEPT ![p] = row]
        /\ req' = [req EXCEPT ![r] = Idle] /\ mishaps' \subseteq Kinds
        /\ UNCHANGED <<today, term, calcs, decided>>
    BY <1>2 DEF ApplyCallback, Ending, Noting, Types, Kinds
  <2>2. req[r].found[p] \in Payout /\ req[r].found[p].calc \in There
    BY <2>1 DEF Types, Known
  <2>3. row \in Payout /\ row.calc \in There
    BY <2>2 DEF Payout
  <2> HIDE DEF row
  <2> QED BY <2>1, <2>3, IdleKnown, PayoutStep
<1> QED BY <1>1, <1>2

LEMMA TypesNext == Types /\ [Next]_vars => Types'
<1> SUFFICES ASSUME Types, [Next]_vars PROVE Types'
  OBVIOUS
<1>1. CASE UNCHANGED vars
  <2>1. There' = There
    BY <1>1 DEF There, Exists, vars
  <2>2. today' \in Days /\ today <= today'
    BY <1>1, DaysAreNumbers DEF Types, vars
  <2> QED BY <1>1, <2>1, <2>2, TypesStep DEF Types, vars
<1>2. CASE Tick
  BY <1>2, CalendarTypes
<1>3. ASSUME NEW r \in Requests,
             LinkNotice(r) \/ StartCalculation(r) \/ \E day \in Days : RegisterNotice(r, day)
      PROVE  Types'
  BY <1>3, NoticeTypes
<1>4. ASSUME NEW r \in Requests, SaveSettled(r) \/ ReadAgain(r) \/ WriteCalculation(r)
      PROVE  Types'
  BY <1>4, SaveSettledTypes, ReadAgainTypes, WriteTypes
<1>5. ASSUME NEW r \in Requests, NEW c \in Calculations,
             \/ Accrue(r, c) \/ StopForBeschikking(r, c)
             \/ RegisterBezwaar(r, c) \/ PrepareBetaling(r, c)
             \/ \E amount \in Corrections : ResolveBezwaar(r, c, amount)
      PROVE  Types'
  BY <1>5, AccrueTypes, StopTypes, ObjectTypes, PrepareTypes, ResolveTypes
<1>6. ASSUME NEW r \in Requests,
             \/ FindPayouts(r) \/ PersistDisbursement(r) \/ CutShort(r)
             \/ \E p \in Payouts : SavePayout(r, p) \/ HandleCallback(r, p) \/ ApplyCallback(r, p)
      PROVE  Types'
  BY <1>6, FindPayoutsTypes, PersistTypes, CutShortTypes, SavePayoutTypes, CallbackTypes
<1>7. ASSUME NEW r \in Requests,
             ReadTerm(r) \/ SaveTerm(r) \/ \E op \in Patching : PatchTerm(r, op)
      PROVE  Types'
  BY <1>7, TermTypes
<1> QED BY <1>1, <1>2, <1>3, <1>4, <1>5, <1>6, <1>7 DEF Next

LEMMA TypesAlways == Spec => []Types
BY TypesInit, TypesNext, PTL DEF Spec

(* Types, for calendars of any length, the amounts and dates of the rows    *)
(* included; and what a request or a payout refers to exists.               *)
THEOREM TypeCorrect == Spec => []TypeOK
<1>1. Types => TypeOK
  BY DEF Types, TypeOK, There, Known, Kinds, Terms
<1> QED BY <1>1, TypesAlways, PTL

(* The amount of a calculation is what the law makes of the days counted,   *)
(* in whatever portions the runs counted them, and these are no more than   *)
(* have passed (DwangsomCalculationService::calculateDailyAccrual).         *)
THEOREM AmountsAreOwed == Spec => []AmountIsOwed
<1>1. Types => AmountIsOwed
  BY DEF Types, Kept, Counted, AmountIsOwed
<1> QED BY <1>1, TypesAlways, PTL
------------------------------------------------------------------------------
(* Until something goes wrong: a decision is handled on the day it is of;   *)
(* what is still running when it is read again counts the days up to today, *)
(* as does what is going to be stopped; and what was stopped is not running *)
(* any more and counts the days up to its decision.                         *)
Orderly == {"lostUpdate", "accrualLost", "midnight"} \cap mishaps = {}

Final(row, day) == row.status \notin {"none", "lopend"} /\ Through(row, day)

InDays(call, cs, day) ==
  /\ call.op = "stop" => call.day = day
  /\ call.pc = "reread" /\ cs[call.calc].status = "lopend" => Through(cs[call.calc], day)
  /\ call.pc = "write" /\ call.op = "stop" /\ call.seen.status = "lopend" =>
       Through(call.seen, call.day)

UpToDate ==
  Orderly =>
    /\ \A r \in Requests : InDays(req[r], calcs, today)
    /\ \A c \in Calculations : decided[c] # None => Final(calcs[c], decided[c])

(* What may be written to a calculation: more days while it is running, or  *)
(* that it is not running.                                                  *)
Continues(old, new, day) ==
  \/ new = old
  \/ old.status = "lopend" /\ new.status = "lopend" /\ (Through(old, day) => Through(new, day))
  \/ /\ new.status \notin {"none", "lopend"} /\ new.startDate = old.startDate
     /\ new.cumulativeAmount = old.cumulativeAmount

LEMMA UpToDateInit == Init => UpToDate
<1> SUFFICES ASSUME Init PROVE UpToDate
  OBVIOUS
<1>1. (\A r \in Requests : req[r] = Idle) /\ \A c \in Calculations : decided[c] = None
  BY DEF Init
<1>2. Idle.op = "none" /\ Idle.pc = "idle"
  BY DEF Idle
<1> QED BY <1>1, <1>2 DEF UpToDate, InDays

LEMMA UpToDateStep ==
  ASSUME Types, UpToDate, Orderly, today' = today,
         NEW r \in Requests, NEW call, req' = [req EXCEPT ![r] = call], InDays(call, calcs', today),
         \A c \in There : Continues(calcs[c], calcs'[c], today),
         \A c \in Calculations : decided'[c] = decided[c] \/ Final(calcs'[c], decided'[c])
  PROVE  UpToDate'
<1>1. ASSUME NEW q \in Requests PROVE InDays(req'[q], calcs', today)
  <2>1. CASE q = r
    BY <2>1 DEF Types
  <2>2. CASE q # r
    <3>1. req'[q] = req[q] /\ InDays(req[q], calcs, today) /\ Known(req[q], today, There)
      BY <2>2 DEF Types, UpToDate
    <3> DEFINE c == req[q].calc
    <3>2. ASSUME req[q].pc = "reread", calcs'[c].status = "lopend" PROVE Through(calcs'[c], today)
      <4>1. c \in There /\ Continues(calcs[c], calcs'[c], today)
        BY <3>1, <3>2, DaysAreNumbers DEF Known, InPlace
      <4>2. calcs[c].status = "lopend" => Through(calcs[c], today)
        BY <3>1, <3>2 DEF InDays
      <4> QED BY <3>2, <4>1, <4>2 DEF Continues
    <3> QED BY <3>1, <3>2 DEF InDays
  <2> QED BY <2>1, <2>2
<1>2. ASSUME NEW c \in Calculations, decided'[c] # None PROVE Final(calcs'[c], decided'[c])
  <2>1. CASE decided'[c] = decided[c]
    <3>1. Final(calcs[c], decided[c])
      BY <1>2, <2>1 DEF UpToDate
    <3>2. c \in There
      BY <3>1 DEF There, Exists, Final
    <3> QED BY <2>1, <3>1, <3>2 DEF Continues, Final, Through
  <2> QED BY <1>2, <2>1
<1>3. (\A q \in Requests : InDays(req[q], calcs, today)')
  BY <1>1 DEF InDays, Through
<1>4. (\A c \in Calculations : decided[c] # None => Final(calcs[c], decided[c]))'
  BY <1>2 DEF Final, Through
<1> QED BY <1>3, <1>4 DEF UpToDate

(* The calculations and decisions are left alone.                           *)
LEMMA UpToDateCall ==
  ASSUME Types, UpToDate, Orderly, UNCHANGED <<today, calcs, decided>>,
         NEW r \in Requests, NEW call, req' = [req EXCEPT ![r] = call], InDays(call, calcs, today)
  PROVE  UpToDate'
<1>1. \A c \in There : Continues(calcs[c], calcs'[c], today)
  BY DEF Continues
<1> QED BY <1>1, UpToDateStep
------------------------------------------------------------------------------
LEMMA IdleInDays == ASSUME NEW cs, NEW day PROVE InDays(Idle, cs, day)
<1>1. Idle.op = "none" /\ Idle.pc = "idle"
  BY DEF Idle
<1> QED BY <1>1 DEF InDays

LEMMA CalendarUpToDate ==
  ASSUME Types, UpToDate, Tick \/ UNCHANGED vars
  PROVE  UpToDate'
<1> SUFFICES ASSUME Orderly' PROVE UpToDate'
  BY DEF UpToDate
<1>1. Orderly /\ UNCHANGED <<calcs, req, decided>>
  BY DEF Orderly, Tick, vars, Noting
<1>2. today' = today \/ \A r \in Requests : req[r].op # "stop"
  BY DEF Orderly, Tick, vars, Noting
<1>3. \A r \in Requests : InDays(req'[r], calcs', today')
  BY <1>1, <1>2 DEF UpToDate, InDays, Types, Known, InPlace
<1>4. \A c \in Calculations : decided'[c] # None => Final(calcs'[c], decided'[c])
  BY <1>1 DEF UpToDate
<1>5. (\A q \in Requests : InDays(req[q], calcs, today)')
  BY <1>3 DEF InDays, Through
<1>6. (\A c \in Calculations : decided[c] # None => Final(calcs[c], decided[c]))'
  BY <1>4 DEF Final, Through
<1> QED BY <1>5, <1>6 DEF UpToDate

(* The term is read and written back.                                       *)
LEMMA TermUpToDate ==
  ASSUME Types, UpToDate, NEW r \in Requests,
         ReadTerm(r) \/ SaveTerm(r) \/ \E op \in Patching : PatchTerm(r, op)
  PROVE  UpToDate'
<1> SUFFICES ASSUME Orderly' PROVE UpToDate'
  BY DEF UpToDate
<1>1. Orderly /\ req[r] \in Call /\ InDays(req[r], calcs, today)
      /\ UNCHANGED <<today, calcs, decided>>
  <2>1. Orderly
    BY DEF Orderly, ReadTerm, SaveTerm, PatchTerm, Noting
  <2> QED BY <2>1 DEF ReadTerm, SaveTerm, PatchTerm, Types, UpToDate
<1>2. ASSUME NEW op \in Patching, PatchTerm(r, op) PROVE UpToDate'
  <2> DEFINE call == [Idle EXCEPT !.op = op, !.pc = "patch"]
  <2>1. req' = [req EXCEPT ![r] = call]
    BY <1>2 DEF PatchTerm, Requesting
  <2>2. call.op # "stop" /\ call.pc = "patch"
    BY DEF Idle, Patching
  <2> HIDE DEF call
  <2> QED BY <1>1, <2>1, <2>2, UpToDateCall DEF InDays
<1>3. ASSUME NEW pc \in {"linkSave", "patchSave"},
             req' = [req EXCEPT ![r].pc = pc, ![r].row = term]
      PROVE  UpToDate'
  <2> DEFINE call == [req[r] EXCEPT !.pc = pc, !.row = term]
  <2>1. req' = [req EXCEPT ![r] = call]
    BY <1>3
  <2>2. call.op = req[r].op /\ call.pc = pc /\ call.day = req[r].day
    BY <1>1 DEF Call
  <2> HIDE DEF call
  <2> QED BY <1>1, <2>1, <2>2, UpToDateCall DEF InDays
<1>4. CASE SaveTerm(r)
  BY <1>1, <1>4, IdleInDays, UpToDateCall DEF SaveTerm, Ending
<1> QED BY <1>2, <1>3, <1>4 DEF ReadTerm

(* A notice is no decision, and what it starts is decided by nobody yet.    *)
LEMMA NoticeUpToDate ==
  ASSUME Types, UpToDate, NEW r \in Requests,
         LinkNotice(r) \/ StartCalculation(r) \/ \E day \in Days : RegisterNotice(r, day)
  PROVE  UpToDate'
<1> SUFFICES ASSUME Orderly' PROVE UpToDate'
  BY DEF UpToDate
<1>1. Orderly
  BY DEF Orderly, LinkNotice, StartCalculation, RegisterNotice, Noting
<1>2. ASSUME NEW day \in Days, RegisterNotice(r, day) PROVE UpToDate'
  <2> DEFINE call == [Idle EXCEPT !.op = "notice", !.pc = "link", !.day = day]
  <2>1. req' = [req EXCEPT ![r] = call] /\ UNCHANGED <<today, calcs, decided>>
    BY <1>2 DEF RegisterNotice, Requesting
  <2>2. call.op = "notice" /\ call.pc = "link"
    BY DEF Idle
  <2> HIDE DEF call
  <2> QED BY <1>1, <2>1, <2>2, UpToDateCall DEF InDays
<1>3. CASE LinkNotice(r)
  <2> DEFINE call == [req[r] EXCEPT !.pc = "create"]
  <2>1. /\ req' = [req EXCEPT ![r] = call] /\ UNCHANGED <<today, calcs, decided>>
        /\ req[r] \in Call /\ InDays(req[r], calcs, today)
    BY <1>1, <1>3 DEF LinkNotice, Going, Types, UpToDate
  <2>2. call.op = req[r].op /\ call.pc = "create" /\ call.day = req[r].day
    BY <2>1 DEF Call
  <2> HIDE DEF call
  <2> QED BY <1>1, <2>1, <2>2, UpToDateCall DEF InDays
<1>4. CASE StartCalculation(r)
  <2>1. req' = [req EXCEPT ![r] = Idle] /\ UNCHANGED <<today, decided>>
    BY <1>4 DEF StartCalculation, Ending
  <2>2. \A c \in There : calcs'[c] = calcs[c]
    BY <1>4 DEF StartCalculation, There, Types
  <2>3. \A c \in There : Continues(calcs[c], calcs'[c], today)
    BY <2>2 DEF Continues
  <2> QED BY <1>1, <2>1, <2>3, IdleInDays, UpToDateStep
<1> QED BY <1>2, <1>3, <1>4

(* What a request begins with is not a decision, or one of today.           *)
LEMMA BeginningUpToDate ==
  ASSUME Types, UpToDate, NEW r \in Requests, NEW c \in Calculations,
         \/ Accrue(r, c) \/ StopForBeschikking(r, c)
         \/ RegisterBezwaar(r, c) \/ PrepareBetaling(r, c)
         \/ \E amount \in Corrections : ResolveBezwaar(r, c, amount)
  PROVE  UpToDate'
<1> SUFFICES ASSUME Orderly' PROVE UpToDate'
  BY DEF UpToDate
<1>1. Orderly /\ UNCHANGED <<today, calcs, decided>>
  BY DEF Orderly, Accrue, StopForBeschikking, RegisterBezwaar, PrepareBetaling, ResolveBezwaar, Noting
<1>2. today \in Nat /\ Kept(calcs[c], today)
  BY DaysAreNumbers DEF Types
<1>3. ASSUME StopForBeschikking(r, c), ~Accrues(calcs[c]) PROVE UpToDate'
  <2> DEFINE call == [Reading("stop", c, calcs[c]) EXCEPT !.pc = "reread"]
  <2>1. req' = [req EXCEPT ![r] = call]
    BY <1>3 DEF StopForBeschikking, Requesting
  <2>2. call.op = "stop" /\ call.pc = "reread" /\ call.calc = c /\ call.day = today
    BY DEF Reading, Idle
  <2> HIDE DEF call
  <2>3. calcs[c].status = "lopend" => Through(calcs[c], today)
    BY <1>2, <1>3, NothingMissing
  <2> QED BY <1>1, <2>1, <2>2, <2>3, UpToDateCall DEF InDays
<1>4. ASSUME StopForBeschikking(r, c), Accrues(calcs[c]) PROVE UpToDate'
  <2> DEFINE call == [Reading("stop", c, settle(calcs[c])) EXCEPT !.pc = "settle"]
  <2>1. req' = [req EXCEPT ![r] = call]
    BY <1>4 DEF StopForBeschikking, Requesting
  <2>2. call.op = "stop" /\ call.pc = "settle" /\ call.day = today
    BY DEF Reading, Idle
  <2> HIDE DEF call
  <2> QED BY <1>1, <2>1, <2>2, UpToDateCall DEF InDays
<1>5. CASE Accrue(r, c)
  <2> DEFINE call == Reading("accrue", c, settle(calcs[c]))
  <2>1. req' = [req EXCEPT ![r] = call] /\ call.op = "accrue" /\ call.pc = "write"
    BY <1>5 DEF Accrue, Requesting, Reading, Idle
  <2> HIDE DEF call
  <2> QED BY <1>1, <2>1, UpToDateCall DEF InDays
<1>6. CASE RegisterBezwaar(r, c)
  <2> DEFINE call == Reading("object", c, [calcs[c] EXCEPT !.status = "objection-bevroren"])
  <2>1. req' = [req EXCEPT ![r] = call] /\ call.op = "object" /\ call.pc = "write"
    BY <1>6 DEF RegisterBezwaar, Requesting, Reading, Idle
  <2> HIDE DEF call
  <2> QED BY <1>1, <2>1, UpToDateCall DEF InDays
<1>7. CASE PrepareBetaling(r, c)
  <2> DEFINE call == [Reading("pay", c, calcs[c]) EXCEPT !.pc = "pay", !.amount = Payable(calcs[c])]
  <2>1. req' = [req EXCEPT ![r] = call] /\ call.op = "pay" /\ call.pc = "pay"
    BY <1>7 DEF PrepareBetaling, Requesting, Reading, Idle
  <2> HIDE DEF call
  <2> QED BY <1>1, <2>1, UpToDateCall DEF InDays
<1>8. ASSUME NEW amount \in Corrections, ResolveBezwaar(r, c, amount) PROVE UpToDate'
  <2> DEFINE row == [calcs[c] EXCEPT !.status = "completed", !.definitiveAmount = amount]
             call == [Reading("resolve", c, row) EXCEPT !.amount = amount]
  <2>1. req' = [req EXCEPT ![r] = call]
    BY <1>8 DEF ResolveBezwaar, Requesting
  <2>2. call.op = "resolve" /\ call.pc = "write"
    BY DEF Reading, Idle
  <2> HIDE DEF call
  <2> QED BY <1>1, <2>1, <2>2, UpToDateCall DEF InDays
<1> QED BY <1>3, <1>4, <1>5, <1>6, <1>7, <1>8
------------------------------------------------------------------------------
(* What is settled is written to what it was computed from, and counts the  *)
(* days up to today.                                                        *)
LEMMA SaveSettledUpToDate ==
  ASSUME Types, UpToDate, NEW r \in Requests, SaveSettled(r)
  PROVE  UpToDate'
<1> SUFFICES ASSUME Orderly' PROVE UpToDate'
  BY DEF UpToDate
<1> DEFINE call == [req[r] EXCEPT !.pc = "reread"]
           c == req[r].calc
<1>1. /\ Orderly /\ UNCHANGED <<today, decided>> /\ req' = [req EXCEPT ![r] = call]
      /\ calcs' = [calcs EXCEPT ![c] = req[r].held] /\ calcs[c] = req[r].seen
      /\ req[r].pc = "settle"
  BY DEF Orderly, SaveSettled, Going, Noting
<1>2. Known(req[r], today, There) /\ req[r] \in Call /\ InDays(req[r], calcs, today)
  BY <1>1 DEF Types, UpToDate, Known
<1>3. /\ c \in Calculations /\ req[r].held.status = "lopend" /\ req[r].seen.status = "lopend"
      /\ Through(req[r].held, today)
  BY <1>1, <1>2 DEF Known, InPlace, Grounded, InDays
<1>4. /\ calcs'[c] = req[r].held /\ \A d \in Calculations : d # c => calcs'[d] = calcs[d]
  BY <1>1, <1>3 DEF Types
<1>5. call.op = req[r].op /\ call.pc = "reread" /\ call.day = req[r].day /\ call.calc = c
  BY <1>2 DEF Call
<1> HIDE DEF call, c
<1>6. InDays(call, calcs', today)
  BY <1>2, <1>3, <1>4, <1>5 DEF InDays
<1>7. \A d \in There : Continues(calcs[d], calcs'[d], today)
  BY <1>1, <1>3, <1>4 DEF Continues, There
<1> QED BY <1>1, <1>6, <1>7, UpToDateStep

LEMMA ReadAgainUpToDate ==
  ASSUME Types, UpToDate, NEW r \in Requests, ReadAgain(r)
  PROVE  UpToDate'
<1> SUFFICES ASSUME Orderly' PROVE UpToDate'
  BY DEF UpToDate
<1> DEFINE row == calcs[req[r].calc]
           call == [req[r] EXCEPT !.pc = "write", !.seen = row,
                                  !.held = [row EXCEPT !.status = "gestopt-wegens-decision",
                                                       !.definitiveAmount = row.cumulativeAmount]]
<1>1. /\ Orderly /\ UNCHANGED <<today, calcs, decided>> /\ req' = [req EXCEPT ![r] = call]
      /\ req[r].pc = "reread"
  BY DEF Orderly, ReadAgain
<1>2. Known(req[r], today, There) /\ req[r] \in Call /\ InDays(req[r], calcs, today)
  BY <1>1 DEF Types, UpToDate, Known
<1>3. call.op = req[r].op /\ call.pc = "write" /\ call.day = req[r].day /\ call.seen = row
  BY <1>2 DEF Call
<1> HIDE DEF call
<1>4. InDays(call, calcs, today)
  BY <1>1, <1>2, <1>3 DEF InDays, Known, InPlace
<1> QED BY <1>1, <1>4, UpToDateCall

(* What is written back counts as many days as what was read, or is running *)
(* and counts more.                                                         *)
LEMMA WriteUpToDate ==
  ASSUME Types, UpToDate, NEW r \in Requests, WriteCalculation(r)
  PROVE  UpToDate'
<1> SUFFICES ASSUME Orderly' PROVE UpToDate'
  BY DEF UpToDate
<1> DEFINE c == req[r].calc
           seen == req[r].seen
           held == req[r].held
           going == [req[r] EXCEPT !.pc = "search"]
<1>1. /\ Orderly /\ today' = today /\ calcs' = [calcs EXCEPT ![c] = held] /\ calcs[c] = seen
      /\ req[r].pc = "write"
      /\ decided' = IF req[r].op = "stop" /\ seen.status = "lopend"
                    THEN [decided EXCEPT ![c] = req[r].day] ELSE decided
      /\ \/ req' = [req EXCEPT ![r] = Idle]
         \/ req' = [req EXCEPT ![r] = going] /\ req[r].op \in {"object", "resolve"}
  BY DEF Orderly, WriteCalculation, Going, Ending, Noting
<1>2. Known(req[r], today, There) /\ req[r] \in Call /\ InDays(req[r], calcs, today)
  BY <1>1 DEF Types, UpToDate, Known
<1>3. /\ c \in Calculations /\ Grounded(req[r]) /\ Kept(held, today)
      /\ req[r].op \in {"accrue", "stop", "object", "resolve"}
  BY <1>1, <1>2 DEF Known, InPlace
<1>4. /\ calcs'[c] = held /\ \A d \in Calculations : d # c => calcs'[d] = calcs[d]
  BY <1>1, <1>3 DEF Types
<1>5. Continues(seen, held, today)
  <2>1. CASE req[r].op = "accrue"
    <3>1. /\ seen.status = "lopend" /\ held.status = "lopend" /\ held.startDate = seen.startDate
          /\ seen.cumulativeAmount <= held.cumulativeAmount
      BY <1>1, <1>3, <2>1 DEF Grounded
    <3>2. Through(seen, today) => Through(held, today)
      <4>1. today \in Nat /\ held.cumulativeAmount <= Owed(Beyond(held.startDate, today))
        BY <1>3, DaysAreNumbers, CountedInTime DEF Types
      <4>2. /\ held.startDate \in Nat /\ held.cumulativeAmount \in Nat
            /\ seen.cumulativeAmount \in Nat
        BY <1>2, <1>3, RowFacts DEF Call
      <4>3. Owed(Beyond(held.startDate, today)) \in Nat
        <5>1. Beyond(held.startDate, today) \in Nat /\ Plafond \in Nat
          BY <4>1, <4>2 DEF Beyond, Plafond
        <5> QED BY <5>1, OwedBounds
      <4> QED BY <3>1, <4>1, <4>2, <4>3 DEF Through
    <3> QED BY <3>1, <3>2 DEF Continues
  <2>2. CASE req[r].op \in {"stop", "object", "resolve"}
    BY <1>1, <1>3, <2>2 DEF Grounded, Continues
  <2> QED BY <1>3, <2>1, <2>2
<1>6. \A d \in There : Continues(calcs[d], calcs'[d], today)
  BY <1>1, <1>4, <1>5 DEF Continues, There
<1>7. \A d \in Calculations : decided'[d] = decided[d] \/ Final(calcs'[d], decided'[d])
  <2>1. CASE req[r].op = "stop" /\ seen.status = "lopend"
    <3>1. Through(held, req[r].day) /\ held.status \notin {"none", "lopend"}
      BY <1>1, <1>2, <1>3, <2>1 DEF Grounded, InDays, Through
    <3>2. /\ decided'[c] = req[r].day
          /\ \A d \in Calculations : d # c => decided'[d] = decided[d]
      BY <1>1, <1>3, <2>1 DEF Types
    <3> QED BY <1>4, <3>1, <3>2 DEF Final
  <2> QED BY <1>1, <2>1
<1>8. PICK call : req' = [req EXCEPT ![r] = call] /\ InDays(call, calcs', today)
  <2>1. CASE req' = [req EXCEPT ![r] = Idle]
    BY <2>1, IdleInDays
  <2>2. CASE req' = [req EXCEPT ![r] = going] /\ req[r].op \in {"object", "resolve"}
    <3>1. going.op = req[r].op /\ going.pc = "search"
      BY <1>2 DEF Call
    <3> HIDE DEF going
    <3> QED BY <2>2, <3>1 DEF InDays
  <2> QED BY <1>1, <2>1, <2>2
<1> QED BY <1>1, <1>6, <1>7, <1>8, UpToDateStep

LEMMA PayoutsUpToDate ==
  ASSUME Types, UpToDate, NEW r \in Requests,
         \/ FindPayouts(r) \/ PersistDisbursement(r) \/ CutShort(r)
         \/ \E p \in Payouts : SavePayout(r, p) \/ HandleCallback(r, p) \/ ApplyCallback(r, p)
  PROVE  UpToDate'
<1> SUFFICES ASSUME Orderly' PROVE UpToDate'
  BY DEF UpToDate
<1>1. Orderly /\ UNCHANGED <<today, calcs, decided>>
  BY DEF Orderly, FindPayouts, PersistDisbursement, CutShort, SavePayout, HandleCallback,
         ApplyCallback, Noting
<1>2. Known(req[r], today, There) /\ req[r] \in Call
  BY DEF Types, Known
<1>3. ASSUME Ending(r) PROVE UpToDate'
  BY <1>1, <1>3, IdleInDays, UpToDateCall DEF Ending
<1>4. CASE FindPayouts(r)
  <2> DEFINE call == [req[r] EXCEPT !.pc = "payouts", !.todo = PayoutsOf(req[r].calc),
                                    !.found = payouts]
  <2>1. Ending(r) \/ req' = [req EXCEPT ![r] = call]
    BY <1>4 DEF FindPayouts
  <2>2. call.op = req[r].op /\ call.pc = "payouts" /\ req[r].op \in {"object", "resolve"}
    BY <1>2, <1>4 DEF Call, FindPayouts, Known, InPlace
  <2> HIDE DEF call
  <2> QED BY <1>1, <1>3, <2>1, <2>2, UpToDateCall DEF InDays
<1>5. ASSUME NEW p \in Payouts, SavePayout(r, p) PROVE UpToDate'
  <2> DEFINE call == [req[r] EXCEPT !.todo = req[r].todo \ {p}]
  <2>1. Ending(r) \/ req' = [req EXCEPT ![r] = call]
    BY <1>5 DEF SavePayout
  <2>2. call.op = req[r].op /\ call.pc = "payouts" /\ req[r].op \in {"object", "resolve"}
    BY <1>2, <1>5 DEF Call, SavePayout, Known, InPlace
  <2> HIDE DEF call
  <2> QED BY <1>1, <1>3, <2>1, <2>2, UpToDateCall DEF InDays
<1>6. ASSUME NEW p \in Payouts, HandleCallback(r, p) PROVE UpToDate'
  <2> DEFINE call == [Idle EXCEPT !.op = "callback", !.pc = "report", !.todo = {p}, !.found = payouts]
  <2>1. req' = [req EXCEPT ![r] = call] /\ call.op = "callback" /\ call.pc = "report"
    BY <1>6 DEF HandleCallback, Requesting, Idle
  <2> HIDE DEF call
  <2> QED BY <1>1, <2>1, UpToDateCall DEF InDays
<1>7. ASSUME PersistDisbursement(r) \/ CutShort(r) \/ \E p \in Payouts : ApplyCallback(r, p)
      PROVE  UpToDate'
  BY <1>3, <1>7 DEF PersistDisbursement, CutShort, ApplyCallback
<1> QED BY <1>4, <1>5, <1>6, <1>7

LEMMA UpToDateNext == Types /\ UpToDate /\ [Next]_vars => UpToDate'
<1> SUFFICES ASSUME Types, UpToDate, [Next]_vars PROVE UpToDate'
  OBVIOUS
<1>1. CASE Tick \/ UNCHANGED vars
  BY <1>1, CalendarUpToDate
<1>2. ASSUME NEW r \in Requests,
             LinkNotice(r) \/ StartCalculation(r) \/ \E day \in Days : RegisterNotice(r, day)
      PROVE  UpToDate'
  BY <1>2, NoticeUpToDate
<1>3. ASSUME NEW r \in Requests, SaveSettled(r) \/ ReadAgain(r) \/ WriteCalculation(r)
      PROVE  UpToDate'
  BY <1>3, SaveSettledUpToDate, ReadAgainUpToDate, WriteUpToDate
<1>4. ASSUME NEW r \in Requests, NEW c \in Calculations,
             \/ Accrue(r, c) \/ StopForBeschikking(r, c)
             \/ RegisterBezwaar(r, c) \/ PrepareBetaling(r, c)
             \/ \E amount \in Corrections : ResolveBezwaar(r, c, amount)
      PROVE  UpToDate'
  BY <1>4, BeginningUpToDate
<1>5. ASSUME NEW r \in Requests,
             \/ FindPayouts(r) \/ PersistDisbursement(r) \/ CutShort(r)
             \/ \E p \in Payouts : SavePayout(r, p) \/ HandleCallback(r, p) \/ ApplyCallback(r, p)
      PROVE  UpToDate'
  BY <1>5, PayoutsUpToDate
<1>6. ASSUME NEW r \in Requests,
             ReadTerm(r) \/ SaveTerm(r) \/ \E op \in Patching : PatchTerm(r, op)
      PROVE  UpToDate'
  BY <1>6, TermUpToDate
<1> QED BY <1>1, <1>2, <1>3, <1>4, <1>5, <1>6 DEF Next

(* A running calculation that a decision stops ends at what is owed on that *)
(* day, unless settling it failed or took past midnight, or somebody wrote  *)
(* it meanwhile (DwangsomCalculationService::stopForBeschikking).           *)
THEOREM DecisionsReflectDays == Spec => []DecisionReflectsDays
<1>1. Types /\ UpToDate => DecisionReflectsDays
  BY DEF Types, UpToDate, Orderly, Final, Through, Kept, DecisionReflectsDays
<1>2. Init => UpToDate
  BY UpToDateInit
<1> QED BY <1>1, <1>2, TypesAlways, UpToDateNext, PTL DEF Spec
------------------------------------------------------------------------------
(* Until something goes wrong, a calculation is objected to by one request  *)
(* at a time, which finds it as it left it or stopped; and a payout is as   *)
(* its calculation demands or still to be written by such a request.        *)
Straight == {"lostUpdate", "overlap", "payoutLost", "unheld"} \cap mishaps = {}

Objects(call) == call.op \in {"object", "resolve"}
Updates(call) == call.pc \in {"search", "payouts"}

Pending(call, c, p) ==
  call.calc = c /\ (call.pc = "search" \/ (call.pc = "payouts" /\ p \in call.todo))

Backed(call, row) ==
  \/ row.status = "gestopt-wegens-decision"
  \/ call.op = "object" /\ row.status = "objection-bevroren"
  \/ call.op = "resolve" /\ row.status = "completed" /\ row.definitiveAmount = call.amount

Follows(payout, row) ==
  /\ row.status = "objection-bevroren" => payout.status \in {"on-hold-objection", "reported"}
  /\ row.status = "completed" => \/ payout.status = "reported"
                                 \/ /\ payout.status = "voorbereid"
                                    /\ payout.amount = row.definitiveAmount

Following ==
  Straight =>
    /\ \A q, r \in Requests :
         Objects(req[q]) /\ Objects(req[r]) /\ req[q].calc = req[r].calc => q = r
    /\ \A r \in Requests : Updates(req[r]) => Backed(req[r], calcs[req[r].calc])
    /\ \A p \in Payouts : payouts[p].status # "none" =>
         \/ Follows(payouts[p], calcs[payouts[p].calc])
         \/ \E r \in Requests : Pending(req[r], payouts[p].calc, p)

LEMMA FollowingInit == Init => Following
<1> SUFFICES ASSUME Init PROVE Following
  OBVIOUS
<1>1. (\A r \in Requests : req[r] = Idle) /\ \A p \in Payouts : payouts[p] = NoPayout
  BY DEF Init
<1>2. Idle.op = "none" /\ Idle.pc = "idle" /\ NoPayout.status = "none"
  BY DEF Idle, NoPayout
<1> QED BY <1>1, <1>2 DEF Following, Objects, Updates

Alone(r, call) ==
  Objects(call) => \A q \in Requests : q # r /\ Objects(req[q]) => req[q].calc # call.calc

LEMMA FollowingStep ==
  ASSUME Types, Following, Straight, NEW r \in Requests, NEW call,
         req' = [req EXCEPT ![r] = call], Alone(r, call),
         Updates(call) => Backed(call, calcs'[call.calc]),
         \A q \in Requests : q # r /\ Updates(req[q]) => Backed(req[q], calcs'[req[q].calc]),
         \A p \in Payouts : payouts'[p].status # "none" =>
           \/ Follows(payouts'[p], calcs'[payouts'[p].calc])
           \/ Pending(call, payouts'[p].calc, p)
           \/ \E q \in Requests : q # r /\ Pending(req[q], payouts'[p].calc, p)
  PROVE  Following'
<1>1. req'[r] = call /\ \A q \in Requests : q # r => req'[q] = req[q]
  BY DEF Types
<1>2. \A q, s \in Requests :
        Objects(req'[q]) /\ Objects(req'[s]) /\ req'[q].calc = req'[s].calc => q = s
  BY <1>1 DEF Alone, Following
<1>3. \A q \in Requests : Updates(req'[q]) => Backed(req'[q], calcs'[req'[q].calc])
  BY <1>1
<1>4. \A p \in Payouts : payouts'[p].status # "none" =>
        \/ Follows(payouts'[p], calcs'[payouts'[p].calc])
        \/ \E q \in Requests : Pending(req'[q], payouts'[p].calc, p)
  BY <1>1
<1> QED BY <1>2, <1>3, <1>4 DEF Following, Objects, Updates, Backed, Follows, Pending

(* Nothing that is there changes, and what is still to be written stays so. *)
LEMMA FollowingCall ==
  ASSUME Types, Following, Straight, NEW r \in Requests, NEW call,
         req' = [req EXCEPT ![r] = call], Alone(r, call),
         \A c \in There : calcs'[c] = calcs[c], payouts' = payouts,
         Updates(call) => call.calc \in There /\ Backed(call, calcs[call.calc]),
         \A p \in Payouts : /\ payouts[p].status # "none"
                            /\ Pending(req[r], payouts[p].calc, p)
                            => Pending(call, payouts[p].calc, p)
  PROVE  Following'
<1>1. Updates(call) => Backed(call, calcs'[call.calc])
  OBVIOUS
<1>2. ASSUME NEW q \in Requests, q # r, Updates(req[q]) PROVE Backed(req[q], calcs'[req[q].calc])
  <2>1. req[q].calc \in There
    BY <1>2, DaysAreNumbers DEF Types, Known, InPlace, Updates
  <2> QED BY <1>2, <2>1 DEF Following
<1>3. ASSUME NEW p \in Payouts, payouts'[p].status # "none"
      PROVE  \/ Follows(payouts'[p], calcs'[payouts'[p].calc])
             \/ Pending(call, payouts'[p].calc, p)
             \/ \E q \in Requests : q # r /\ Pending(req[q], payouts'[p].calc, p)
  <2>1. payouts[p].calc \in There
    BY <1>3 DEF Types
  <2> QED BY <1>3, <2>1 DEF Following
<1> QED BY <1>1, <1>2, <1>3, FollowingStep

(* A calculation is written: it is not demanding, or its payouts are next.  *)
Rewriting(r, call, c, row) ==
  /\ ~Updates(req[r]) /\ Alone(r, call)
  /\ Updates(call) => call.calc = c /\ Backed(call, row)
  /\ \/ row.status \notin {"objection-bevroren", "completed"}
     \/ call.pc = "search" /\ call.calc = c
  /\ \A q \in Requests : q # r /\ Updates(req[q]) /\ req[q].calc = c =>
       row.status = "gestopt-wegens-decision"

LEMMA FollowingRow ==
  ASSUME Types, Following, Straight, NEW r \in Requests, NEW call, NEW c \in Calculations, NEW row,
         Rewriting(r, call, c, row), req' = [req EXCEPT ![r] = call],
         calcs' = [calcs EXCEPT ![c] = row], payouts' = payouts
  PROVE  Following'
<1>0. /\ calcs'[c] = row /\ \A d \in Calculations : d # c => calcs'[d] = calcs[d]
      /\ ~Updates(req[r]) /\ Alone(r, call)
      /\ Updates(call) => call.calc = c /\ Backed(call, row)
      /\ \/ row.status \notin {"objection-bevroren", "completed"}
         \/ call.pc = "search" /\ call.calc = c
      /\ \A q \in Requests : q # r /\ Updates(req[q]) /\ req[q].calc = c =>
           row.status = "gestopt-wegens-decision"
  BY DEF Types, Rewriting
<1>1. Updates(call) => Backed(call, calcs'[call.calc])
  BY <1>0
<1>2. ASSUME NEW q \in Requests, q # r, Updates(req[q]) PROVE Backed(req[q], calcs'[req[q].calc])
  <2>1. req[q].calc \in Calculations /\ Backed(req[q], calcs[req[q].calc])
    BY <1>2 DEF Types, Known, InPlace, Updates, Following
  <2> QED BY <1>0, <1>2, <2>1 DEF Backed
<1>3. ASSUME NEW p \in Payouts, payouts'[p].status # "none"
      PROVE  \/ Follows(payouts'[p], calcs'[payouts'[p].calc])
             \/ Pending(call, payouts'[p].calc, p)
             \/ \E q \in Requests : q # r /\ Pending(req[q], payouts'[p].calc, p)
  <2>1. payouts[p].calc \in Calculations
    BY <1>3 DEF Types, There
  <2>2. CASE payouts[p].calc = c
    BY <1>0, <2>2 DEF Follows, Pending
  <2>3. CASE payouts[p].calc # c
    <3>1. calcs'[payouts[p].calc] = calcs[payouts[p].calc]
      BY <1>0, <2>1, <2>3
    <3>2. ~Pending(req[r], payouts[p].calc, p)
      BY <1>0 DEF Pending, Updates
    <3> QED BY <1>3, <3>1, <3>2 DEF Following
  <2> QED BY <2>2, <2>3
<1> QED BY <1>0, <1>1, <1>2, <1>3, FollowingStep

(* A payout is written as its calculation demands.                          *)
LEMMA FollowingPayout ==
  ASSUME Types, Following, Straight, NEW r \in Requests, NEW call,
         req' = [req EXCEPT ![r] = call], Alone(r, call), calcs' = calcs,
         Updates(call) => Backed(call, calcs[call.calc]),
         NEW p \in Payouts, NEW row, payouts' = [payouts EXCEPT ![p] = row],
         Follows(row, calcs[row.calc]),
         \A q \in Payouts : q # p /\ Pending(req[r], payouts[q].calc, q)
                              => Pending(call, payouts[q].calc, q)
  PROVE  Following'
<1>1. payouts'[p] = row /\ \A q \in Payouts : q # p => payouts'[q] = payouts[q]
  BY DEF Types
<1>2. \A q \in Requests : q # r /\ Updates(req[q]) => Backed(req[q], calcs'[req[q].calc])
  BY DEF Following
<1>3. ASSUME NEW q \in Payouts, payouts'[q].status # "none"
      PROVE  \/ Follows(payouts'[q], calcs'[payouts'[q].calc])
             \/ Pending(call, payouts'[q].calc, q)
             \/ \E s \in Requests : s # r /\ Pending(req[s], payouts'[q].calc, q)
  <2>1. CASE q = p
    BY <1>1, <2>1
  <2>2. CASE q # p
    BY <1>1, <1>3, <2>2 DEF Following
  <2> QED BY <2>1, <2>2
<1> QED BY <1>2, <1>3, FollowingStep
------------------------------------------------------------------------------
LEMMA IdleFollowing == ASSUME NEW r PROVE Alone(r, Idle) /\ ~Updates(Idle)
<1>1. Idle.op = "none" /\ Idle.pc = "idle"
  BY DEF Idle
<1> QED BY <1>1 DEF Alone, Objects, Updates

(* A request that goes on objects to nothing else.                          *)
LEMMA StaysAlone ==
  ASSUME Following, Straight, NEW r \in Requests, NEW call, call.op = req[r].op,
         call.calc = req[r].calc
  PROVE  Alone(r, call)
BY DEF Alone, Objects, Following

LEMMA CalendarFollowing ==
  ASSUME Types, Following, Tick \/ UNCHANGED vars
  PROVE  Following'
<1>1. mishaps \subseteq mishaps' /\ UNCHANGED <<calcs, payouts, req>>
  BY DEF Tick, vars, Noting
<1> QED BY <1>1 DEF Following, Straight, Objects, Updates, Backed, Follows, Pending

(* The term is read and written back.                                       *)
LEMMA TermFollowing ==
  ASSUME Types, Following, NEW r \in Requests,
         ReadTerm(r) \/ SaveTerm(r) \/ \E op \in Patching : PatchTerm(r, op)
  PROVE  Following'
<1> SUFFICES ASSUME Straight' PROVE Following'
  BY DEF Following
<1>1. Straight /\ payouts' = payouts /\ calcs' = calcs /\ req[r] \in Call
  <2>1. Straight
    BY DEF Straight, ReadTerm, SaveTerm, PatchTerm, Noting
  <2> QED BY <2>1 DEF ReadTerm, SaveTerm, PatchTerm, Types
<1>2. \A p \in Payouts : ~Updates(req[r]) => ~Pending(req[r], payouts[p].calc, p)
  BY DEF Pending, Updates
<1>3. ASSUME NEW op \in Patching, PatchTerm(r, op) PROVE Following'
  <2> DEFINE call == [Idle EXCEPT !.op = op, !.pc = "patch"]
  <2>1. req' = [req EXCEPT ![r] = call] /\ req[r] = Idle
    BY <1>3 DEF PatchTerm, Requesting
  <2>2. call.op = op /\ call.pc = "patch"
    BY DEF Idle
  <2> HIDE DEF call
  <2>3. Alone(r, call) /\ ~Updates(call)
    BY <2>2 DEF Alone, Objects, Updates, Patching
  <2> QED BY <1>1, <1>2, <2>1, <2>3, IdleFollowing, FollowingCall
<1>4. ASSUME NEW pc \in {"linkSave", "patchSave"}, req[r].pc \in {"link", "patch"},
             req' = [req EXCEPT ![r].pc = pc, ![r].row = term]
      PROVE  Following'
  <2> DEFINE call == [req[r] EXCEPT !.pc = pc, !.row = term]
  <2>1. req' = [req EXCEPT ![r] = call]
    BY <1>4
  <2>2. call.op = req[r].op /\ call.calc = req[r].calc /\ call.pc = pc
    BY <1>1 DEF Call
  <2> HIDE DEF call
  <2>3. Alone(r, call) /\ ~Updates(call) /\ ~Updates(req[r])
    BY <1>1, <1>4, <2>2, StaysAlone DEF Updates
  <2> QED BY <1>1, <1>2, <2>1, <2>3, FollowingCall
<1>5. CASE SaveTerm(r)
  <2>1. req' = [req EXCEPT ![r] = Idle] /\ ~Updates(req[r])
    BY <1>5 DEF SaveTerm, Ending, Updates
  <2> QED BY <1>1, <1>2, <2>1, IdleFollowing, FollowingCall
<1> QED BY <1>3, <1>4, <1>5 DEF ReadTerm

LEMMA NoticeFollowing ==
  ASSUME Types, Following, NEW r \in Requests,
         LinkNotice(r) \/ StartCalculation(r) \/ \E day \in Days : RegisterNotice(r, day)
  PROVE  Following'
<1> SUFFICES ASSUME Straight' PROVE Following'
  BY DEF Following
<1>1. Straight /\ payouts' = payouts
  BY DEF Straight, LinkNotice, StartCalculation, RegisterNotice, Noting
<1>2. \A p \in Payouts : ~Updates(req[r]) => ~Pending(req[r], payouts[p].calc, p)
  BY DEF Pending, Updates
<1>3. ASSUME NEW day \in Days, RegisterNotice(r, day) PROVE Following'
  <2> DEFINE call == [Idle EXCEPT !.op = "notice", !.pc = "link", !.day = day]
  <2>1. req' = [req EXCEPT ![r] = call] /\ calcs' = calcs /\ req[r] = Idle
    BY <1>3 DEF RegisterNotice, Requesting
  <2>2. call.op = "notice" /\ call.pc = "link"
    BY DEF Idle
  <2> HIDE DEF call
  <2>3. Alone(r, call) /\ ~Updates(call)
    BY <2>2 DEF Alone, Objects, Updates
  <2> QED BY <1>1, <1>2, <2>1, <2>3, IdleFollowing, FollowingCall
<1>4. CASE LinkNotice(r)
  <2> DEFINE call == [req[r] EXCEPT !.pc = "create"]
  <2>1. /\ req' = [req EXCEPT ![r] = call] /\ calcs' = calcs /\ req[r].pc = "linkSave"
        /\ req[r] \in Call
    BY <1>4 DEF LinkNotice, Going, Types
  <2>2. call.op = req[r].op /\ call.calc = req[r].calc /\ call.pc = "create"
    BY <2>1 DEF Call
  <2> HIDE DEF call
  <2>3. Alone(r, call) /\ ~Updates(call) /\ ~Updates(req[r])
    BY <1>1, <2>1, <2>2, StaysAlone DEF Updates
  <2> QED BY <1>1, <1>2, <2>1, <2>3, FollowingCall
<1>5. CASE StartCalculation(r)
  <2>1. req' = [req EXCEPT ![r] = Idle] /\ ~Updates(req[r])
    BY <1>5 DEF StartCalculation, Ending, Updates
  <2>2. \A c \in There : calcs'[c] = calcs[c]
    BY <1>5 DEF StartCalculation, There, Types
  <2> QED BY <1>1, <1>2, <2>1, <2>2, IdleFollowing, FollowingCall
<1> QED BY <1>3, <1>4, <1>5

(* A second objection at the same time is an overlap.                       *)
LEMMA BeginningFollowing ==
  ASSUME Types, Following, NEW r \in Requests, NEW c \in Calculations,
         \/ Accrue(r, c) \/ StopForBeschikking(r, c)
         \/ RegisterBezwaar(r, c) \/ PrepareBetaling(r, c)
         \/ \E amount \in Corrections : ResolveBezwaar(r, c, amount)
  PROVE  Following'
<1> SUFFICES ASSUME Straight' PROVE Following'
  BY DEF Following
<1>1. Straight /\ UNCHANGED <<calcs, payouts>> /\ req[r] = Idle
  BY DEF Straight, Accrue, StopForBeschikking, RegisterBezwaar, PrepareBetaling, ResolveBezwaar,
         Noting, Requesting
<1>2. \A p \in Payouts : ~Pending(req[r], payouts[p].calc, p)
  BY <1>1, IdleFollowing DEF Pending, Updates
<1>3. ASSUME NEW call, req' = [req EXCEPT ![r] = call], Alone(r, call), ~Updates(call)
      PROVE  Following'
  BY <1>1, <1>2, <1>3, FollowingCall
<1>4. CASE StopForBeschikking(r, c)
  <2> DEFINE settling == [Reading("stop", c, settle(calcs[c])) EXCEPT !.pc = "settle"]
             asItIs == [Reading("stop", c, calcs[c]) EXCEPT !.pc = "reread"]
  <2>1. req' = [req EXCEPT ![r] = settling] \/ req' = [req EXCEPT ![r] = asItIs]
    BY <1>4 DEF StopForBeschikking, Requesting
  <2>2. /\ settling.op = "stop" /\ settling.pc = "settle"
        /\ asItIs.op = "stop" /\ asItIs.pc = "reread"
    BY DEF Reading, Idle
  <2> HIDE DEF settling, asItIs
  <2> QED BY <1>3, <2>1, <2>2 DEF Alone, Objects, Updates
<1>5. CASE Accrue(r, c)
  <2> DEFINE call == Reading("accrue", c, settle(calcs[c]))
  <2>1. req' = [req EXCEPT ![r] = call] /\ call.op = "accrue" /\ call.pc = "write"
    BY <1>5 DEF Accrue, Requesting, Reading, Idle
  <2> HIDE DEF call
  <2> QED BY <1>3, <2>1 DEF Alone, Objects, Updates
<1>6. CASE PrepareBetaling(r, c)
  <2> DEFINE call == [Reading("pay", c, calcs[c]) EXCEPT !.pc = "pay", !.amount = Payable(calcs[c])]
  <2>1. req' = [req EXCEPT ![r] = call] /\ call.op = "pay" /\ call.pc = "pay"
    BY <1>6 DEF PrepareBetaling, Requesting, Reading, Idle
  <2> HIDE DEF call
  <2> QED BY <1>3, <2>1 DEF Alone, Objects, Updates
<1>7. ASSUME Noting(Objecting(c))
      PROVE  \A q \in Requests : Objects(req[q]) => req[q].calc # c
  BY <1>7 DEF Noting, Objecting, Objects, Straight
<1>8. CASE RegisterBezwaar(r, c)
  <2> DEFINE call == Reading("object", c, [calcs[c] EXCEPT !.status = "objection-bevroren"])
  <2>1. req' = [req EXCEPT ![r] = call] /\ call.calc = c /\ call.pc = "write"
    BY <1>8 DEF RegisterBezwaar, Requesting, Reading, Idle
  <2> HIDE DEF call
  <2> QED BY <1>3, <1>7, <1>8, <2>1 DEF RegisterBezwaar, Alone, Updates
<1>9. ASSUME NEW amount \in Corrections, ResolveBezwaar(r, c, amount) PROVE Following'
  <2> DEFINE row == [calcs[c] EXCEPT !.status = "completed", !.definitiveAmount = amount]
             call == [Reading("resolve", c, row) EXCEPT !.amount = amount]
  <2>1. req' = [req EXCEPT ![r] = call]
    BY <1>9 DEF ResolveBezwaar, Requesting
  <2>2. call.calc = c /\ call.pc = "write"
    BY DEF Reading, Idle
  <2> HIDE DEF call
  <2> QED BY <1>3, <1>7, <1>9, <2>1, <2>2 DEF ResolveBezwaar, Alone, Updates
<1> QED BY <1>4, <1>5, <1>6, <1>8, <1>9

(* Nobody updates the payouts of a calculation that is running; and what    *)
(* demands something of them is written by who updates them next.           *)
LEMMA WritingFollowing ==
  ASSUME Types, Following, NEW r \in Requests,
         SaveSettled(r) \/ ReadAgain(r) \/ WriteCalculation(r)
  PROVE  Following'
<1> SUFFICES ASSUME Straight' PROVE Following'
  BY DEF Following
<1> DEFINE c == req[r].calc
           seen == req[r].seen
           held == req[r].held
<1>1. Straight /\ payouts' = payouts /\ ~Updates(req[r])
  BY DEF Straight, SaveSettled, ReadAgain, WriteCalculation, Noting, Updates
<1>2. Known(req[r], today, There) /\ req[r] \in Call
  BY DEF Types, Known
<1>3. c \in Calculations /\ Grounded(req[r]) /\ InPlace(req[r]) /\ c \in There
  BY <1>2, DaysAreNumbers DEF Known, InPlace, SaveSettled, ReadAgain, WriteCalculation
<1>4. \A p \in Payouts : ~Pending(req[r], payouts[p].calc, p)
  BY <1>1 DEF Pending, Updates
<1>5. CASE ReadAgain(r)
  <2> DEFINE call == [req[r] EXCEPT !.pc = "write", !.seen = calcs[c],
                                    !.held = [calcs[c] EXCEPT !.status = "gestopt-wegens-decision",
                                                  !.definitiveAmount = calcs[c].cumulativeAmount]]
  <2>1. req' = [req EXCEPT ![r] = call] /\ calcs' = calcs
    BY <1>5 DEF ReadAgain
  <2>2. call.op = req[r].op /\ call.calc = c /\ call.pc = "write"
    BY <1>2 DEF Call
  <2> HIDE DEF call
  <2>3. Alone(r, call) /\ ~Updates(call)
    BY <1>1, <2>2, StaysAlone DEF Updates
  <2> QED BY <1>1, <1>4, <2>1, <2>3, FollowingCall
<1>6. CASE SaveSettled(r)
  <2> DEFINE call == [req[r] EXCEPT !.pc = "reread"]
  <2>1. /\ req' = [req EXCEPT ![r] = call] /\ req[r].pc = "settle"
        /\ \/ calcs' = [calcs EXCEPT ![c] = held] /\ calcs[c] = seen
           \/ calcs' = calcs
    BY <1>6 DEF SaveSettled, Going, Noting, Straight
  <2>2. call.op = req[r].op /\ call.calc = c /\ call.pc = "reread"
    BY <1>2 DEF Call
  <2> HIDE DEF call
  <2>3. Alone(r, call) /\ ~Updates(call)
    BY <1>1, <2>2, StaysAlone DEF Updates
  <2>4. CASE calcs' = calcs
    BY <1>1, <1>4, <2>1, <2>3, <2>4, FollowingCall
  <2>5. CASE calcs' = [calcs EXCEPT ![c] = held] /\ calcs[c] = seen
    <3>1. held.status = "lopend" /\ calcs[c].status = "lopend"
      BY <1>3, <2>1, <2>5 DEF Grounded
    <3>2. \A q \in Requests : q # r /\ Updates(req[q]) => req[q].calc # c
      BY <1>1, <3>1 DEF Following, Backed
    <3>3. held.status \notin {"objection-bevroren", "completed"}
      BY <3>1
    <3>4. \A q \in Requests : q # r /\ Updates(req[q]) /\ req[q].calc = c =>
            held.status = "gestopt-wegens-decision"
      BY <3>2
    <3>5. Updates(call) => call.calc = c /\ Backed(call, held)
      BY <2>3
    <3>6. req' = [req EXCEPT ![r] = call] /\ calcs' = [calcs EXCEPT ![c] = held]
      BY <2>1, <2>5
    <3> HIDE DEF c, held
    <3>7. Rewriting(r, call, c, held)
      BY <1>1, <2>3, <3>3, <3>4, <3>5 DEF Rewriting
    <3> QED BY <1>1, <1>3, <3>6, <3>7, FollowingRow
  <2> QED BY <2>1, <2>4, <2>5
<1>7. CASE WriteCalculation(r)
  <2> DEFINE going == [req[r] EXCEPT !.pc = "search"]
  <2>1. /\ req[r].pc = "write" /\ calcs' = [calcs EXCEPT ![c] = held] /\ calcs[c] = seen
        /\ req[r].op \in {"accrue", "stop", "object", "resolve"}
        /\ IF Objects(req[r]) THEN req' = [req EXCEPT ![r] = going] ELSE req' = [req EXCEPT ![r] = Idle]
    BY <1>3, <1>7 DEF WriteCalculation, Going, Ending, Noting, Straight, Objects, InPlace
  <2>2. CASE Objects(req[r])
    <3>1. going.op = req[r].op /\ going.calc = c /\ going.pc = "search" /\ going.amount = req[r].amount
      BY <1>2 DEF Call
    <3>2. Backed(going, held)
      BY <1>3, <2>1, <2>2, <3>1 DEF Grounded, Backed, Objects
    <3>3. \A q \in Requests : q # r /\ Updates(req[q]) => req[q].calc # c
      <4>1. \A q \in Requests : Updates(req[q]) => Objects(req[q])
        BY DEF Types, Known, InPlace, Updates, Objects
      <4> QED BY <1>1, <2>2, <4>1 DEF Following
    <3> HIDE DEF going
    <3>4. Alone(r, going) /\ req' = [req EXCEPT ![r] = going]
      BY <1>1, <2>1, <2>2, <3>1, StaysAlone
    <3>5. going.calc = c /\ going.pc = "search"
      BY <3>1
    <3>6. \A q \in Requests : q # r /\ Updates(req[q]) /\ req[q].calc = c =>
            held.status = "gestopt-wegens-decision"
      BY <3>3
    <3>7. Updates(going) => going.calc = c /\ Backed(going, held)
      BY <3>2, <3>5
    <3>8. calcs' = [calcs EXCEPT ![c] = held]
      BY <2>1
    <3> HIDE DEF c, held
    <3>9. Rewriting(r, going, c, held)
      BY <1>1, <3>4, <3>5, <3>6, <3>7 DEF Rewriting
    <3> QED BY <1>1, <1>3, <3>4, <3>8, <3>9, FollowingRow
  <2>3. CASE ~Objects(req[r])
    <3>1. \/ held.status = "lopend" /\ calcs[c].status = "lopend"
          \/ held.status = "gestopt-wegens-decision"
      BY <1>3, <2>1, <2>3 DEF Grounded, Objects
    <3>2. held.status \notin {"objection-bevroren", "completed"}
      BY <3>1
    <3>3. \A q \in Requests : q # r /\ Updates(req[q]) /\ req[q].calc = c =>
            held.status = "gestopt-wegens-decision"
      BY <1>1, <3>1 DEF Following, Backed
    <3>4. Alone(r, Idle) /\ (Updates(Idle) => Idle.calc = c /\ Backed(Idle, held))
      BY IdleFollowing
    <3>5. req' = [req EXCEPT ![r] = Idle] /\ calcs' = [calcs EXCEPT ![c] = held]
      BY <2>1, <2>3
    <3> HIDE DEF c, held
    <3>6. Rewriting(r, Idle, c, held)
      BY <1>1, <3>2, <3>3, <3>4 DEF Rewriting
    <3> QED BY <1>1, <1>3, <3>5, <3>6, FollowingRow
  <2> QED BY <2>2, <2>3
<1> QED BY <1>5, <1>6, <1>7
------------------------------------------------------------------------------
LEMMA PayoutsFollowing ==
  ASSUME Types, Following, NEW r \in Requests,
         \/ FindPayouts(r) \/ PersistDisbursement(r) \/ CutShort(r)
         \/ \E p \in Payouts : SavePayout(r, p) \/ HandleCallback(r, p) \/ ApplyCallback(r, p)
  PROVE  Following'
<1> SUFFICES ASSUME Straight' PROVE Following'
  BY DEF Following
<1>1. Straight /\ calcs' = calcs
  BY DEF Straight, FindPayouts, PersistDisbursement, CutShort, SavePayout, HandleCallback,
         ApplyCallback, Noting
<1>2. Known(req[r], today, There) /\ req[r] \in Call
  BY DEF Types, Known
<1>3. ~Updates(req[r]) => \A p \in Payouts : ~Pending(req[r], payouts[p].calc, p)
  BY DEF Pending, Updates
<1>4. CASE FindPayouts(r)
  <2> DEFINE of == PayoutsOf(req[r].calc)
             call == [req[r] EXCEPT !.pc = "payouts", !.todo = of, !.found = payouts]
  <2>1. /\ req[r].pc = "search" /\ payouts' = payouts
        /\ \/ of = {} /\ req' = [req EXCEPT ![r] = Idle]
           \/ req' = [req EXCEPT ![r] = call]
    BY <1>4 DEF FindPayouts, Ending
  <2>2. \A p \in Payouts : payouts[p].status # "none" /\ payouts[p].calc = req[r].calc => p \in of
    BY DEF PayoutsOf
  <2> HIDE DEF of
  <2>3. /\ call.op = req[r].op /\ call.calc = req[r].calc /\ call.pc = "payouts"
        /\ call.todo = of /\ call.amount = req[r].amount
    BY <1>2 DEF Call
  <2> HIDE DEF call
  <2>4. CASE of = {} /\ req' = [req EXCEPT ![r] = Idle]
    <3>1. \A p \in Payouts : payouts[p].status # "none" => ~Pending(req[r], payouts[p].calc, p)
      BY <2>2, <2>4 DEF Pending
    <3> QED BY <1>1, <2>1, <2>4, <3>1, IdleFollowing, FollowingCall
  <2>5. CASE req' = [req EXCEPT ![r] = call]
    <3>1. \A p \in Payouts : payouts[p].status # "none" /\ Pending(req[r], payouts[p].calc, p)
                               => Pending(call, payouts[p].calc, p)
      BY <2>2, <2>3 DEF Pending
    <3>2. call.calc \in There /\ Backed(call, calcs[call.calc])
      <4>1. req[r].calc \in There
        BY <1>2, <2>1, DaysAreNumbers DEF Known, InPlace
      <4>2. Backed(req[r], calcs[req[r].calc])
        BY <1>1, <2>1 DEF Following, Updates
      <4> QED BY <2>3, <4>1, <4>2 DEF Backed
    <3>3. Alone(r, call)
      BY <1>1, <2>3, StaysAlone
    <3> QED BY <1>1, <2>1, <2>5, <3>1, <3>2, <3>3, FollowingCall
  <2> QED BY <2>1, <2>4, <2>5
<1>5. CASE CutShort(r)
  <2>1. req' = [req EXCEPT ![r] = Idle] /\ payouts' = payouts /\ ~Updates(req[r])
    BY <1>5 DEF CutShort, Ending, Noting, Straight, Updates
  <2> QED BY <1>1, <1>3, <2>1, IdleFollowing, FollowingCall
<1>6. CASE PersistDisbursement(r)
  <2> DEFINE c == req[r].calc
             row == [status |-> "voorbereid", calc |-> c, amount |-> req[r].amount]
  <2>1. PICK p \in Payouts : payouts' = [payouts EXCEPT ![p] = row]
    BY <1>6 DEF PersistDisbursement
  <2>2. /\ req' = [req EXCEPT ![r] = Idle] /\ req[r].pc = "pay"
        /\ calcs[c] = req[r].seen /\ calcs[c].status # "objection-bevroren"
    BY <1>6 DEF PersistDisbursement, Ending, Noting, Straight
  <2>3. req[r].amount = Payable(calcs[c]) /\ c \in Calculations
    BY <1>2, <2>2 DEF Known, Grounded, InPlace
  <2>4. calcs[c].status = "completed" => req[r].amount = calcs[c].definitiveAmount
    BY <2>3 DEF Payable, Types, Kept
  <2>5. row.calc = c /\ Follows(row, calcs[c])
    BY <2>2, <2>4 DEF Follows
  <2> HIDE DEF row
  <2>6. ~Updates(req[r])
    BY <2>2 DEF Updates
  <2> QED BY <1>1, <1>3, <2>1, <2>2, <2>5, <2>6, IdleFollowing, FollowingPayout
<1>7. ASSUME NEW p \in Payouts, SavePayout(r, p) PROVE Following'
  <2> DEFINE found == req[r].found[p]
             row == Follow(req[r].op, found, req[r].amount)
             less == [req[r] EXCEPT !.todo = req[r].todo \ {p}]
             c == req[r].calc
  <2>1. /\ req[r].pc = "payouts" /\ p \in req[r].todo
        /\ payouts' = [payouts EXCEPT ![p] = row]
        /\ \/ req[r].todo = {p} /\ req' = [req EXCEPT ![r] = Idle]
           \/ req' = [req EXCEPT ![r] = less]
    BY <1>7 DEF SavePayout, Ending, Noting, Straight
  <2>2. /\ found \in Payout /\ found.calc = c /\ Backed(req[r], calcs[c])
        /\ req[r].op \in {"object", "resolve"}
    BY <1>1, <1>2, <2>1 DEF Known, InPlace, Following, Updates
  <2>3. row.calc = c /\ Follows(row, calcs[c])
    BY <2>2 DEF Follow, Payout, Follows, Backed
  <2>4. /\ less.op = req[r].op /\ less.calc = c /\ less.pc = "payouts"
        /\ less.todo = req[r].todo \ {p} /\ less.amount = req[r].amount
    BY <1>2, <2>1 DEF Call
  <2> HIDE DEF row, less
  <2>5. CASE req[r].todo = {p} /\ req' = [req EXCEPT ![r] = Idle]
    <3>1. \A q \in Payouts : q # p => ~Pending(req[r], payouts[q].calc, q)
      BY <2>1, <2>5 DEF Pending
    <3> QED BY <1>1, <2>1, <2>3, <2>5, <3>1, IdleFollowing, FollowingPayout
  <2>6. CASE req' = [req EXCEPT ![r] = less]
    <3>1. \A q \in Payouts : q # p /\ Pending(req[r], payouts[q].calc, q)
                               => Pending(less, payouts[q].calc, q)
      BY <2>1, <2>4 DEF Pending
    <3>2. Alone(r, less) /\ Backed(less, calcs[less.calc])
      BY <1>1, <2>2, <2>4, StaysAlone DEF Backed
    <3> QED BY <1>1, <2>1, <2>3, <2>6, <3>1, <3>2, FollowingPayout
  <2> QED BY <2>1, <2>5, <2>6
<1>8. ASSUME NEW p \in Payouts, HandleCallback(r, p) PROVE Following'
  <2> DEFINE call == [Idle EXCEPT !.op = "callback", !.pc = "report", !.todo = {p}, !.found = payouts]
  <2>1. /\ req' = [req EXCEPT ![r] = call] /\ payouts' = payouts /\ req[r] = Idle
        /\ call.op = "callback" /\ call.pc = "report"
    BY <1>8 DEF HandleCallback, Requesting, Idle
  <2> HIDE DEF call
  <2>2. Alone(r, call) /\ ~Updates(call) /\ ~Updates(req[r])
    BY <2>1, IdleFollowing DEF Alone, Objects, Updates
  <2> QED BY <1>1, <1>3, <2>1, <2>2, FollowingCall
<1>9. ASSUME NEW p \in Payouts, ApplyCallback(r, p) PROVE Following'
  <2> DEFINE row == [req[r].found[p] EXCEPT !.status = "reported"]
  <2>1. /\ req[r].pc = "report" /\ p \in req[r].todo /\ req' = [req EXCEPT ![r] = Idle]
        /\ payouts' = [payouts EXCEPT ![p] = row]
    BY <1>9 DEF ApplyCallback, Ending
  <2>2. req[r].found[p] \in Payout
    BY <1>2, <2>1 DEF Known
  <2>3. Follows(row, calcs[row.calc])
    BY <2>2 DEF Follows, Payout
  <2> HIDE DEF row
  <2>4. ~Updates(req[r])
    BY <2>1 DEF Updates
  <2> QED BY <1>1, <1>3, <2>1, <2>3, <2>4, IdleFollowing, FollowingPayout
<1> QED BY <1>4, <1>5, <1>6, <1>7, <1>8, <1>9

LEMMA FollowingNext == Types /\ Following /\ [Next]_vars => Following'
<1> SUFFICES ASSUME Types, Following, [Next]_vars PROVE Following'
  OBVIOUS
<1>1. CASE Tick \/ UNCHANGED vars
  BY <1>1, CalendarFollowing
<1>2. ASSUME NEW r \in Requests,
             LinkNotice(r) \/ StartCalculation(r) \/ \E day \in Days : RegisterNotice(r, day)
      PROVE  Following'
  BY <1>2, NoticeFollowing
<1>3. ASSUME NEW r \in Requests, SaveSettled(r) \/ ReadAgain(r) \/ WriteCalculation(r)
      PROVE  Following'
  BY <1>3, WritingFollowing
<1>4. ASSUME NEW r \in Requests, NEW c \in Calculations,
             \/ Accrue(r, c) \/ StopForBeschikking(r, c)
             \/ RegisterBezwaar(r, c) \/ PrepareBetaling(r, c)
             \/ \E amount \in Corrections : ResolveBezwaar(r, c, amount)
      PROVE  Following'
  BY <1>4, BeginningFollowing
<1>5. ASSUME NEW r \in Requests,
             \/ FindPayouts(r) \/ PersistDisbursement(r) \/ CutShort(r)
             \/ \E p \in Payouts : SavePayout(r, p) \/ HandleCallback(r, p) \/ ApplyCallback(r, p)
      PROVE  Following'
  BY <1>5, PayoutsFollowing
<1>6. ASSUME NEW r \in Requests,
             ReadTerm(r) \/ SaveTerm(r) \/ \E op \in Patching : PatchTerm(r, op)
      PROVE  Following'
  BY <1>6, TermFollowing
<1> QED BY <1>1, <1>2, <1>3, <1>4, <1>5, <1>6 DEF Next

(* A payout that is not reported on is held while its calculation is frozen *)
(* and is of the corrected amount afterwards, unless it could not be        *)
(* written, was prepared meanwhile, or handlers overlapped                  *)
(* (DwangsomUitbetalingService, DwangsomBezwaarService).                    *)
THEOREM PayoutsFollowCalculations == Spec => []PayoutsFollow
<1>1. Following => PayoutsFollow
  BY DEF Following, Straight, Follows, Pending, PayoutsFollow
<1> QED BY <1>1, FollowingInit, FollowingNext, TypesAlways, PTL DEF Spec
===============================================================================
