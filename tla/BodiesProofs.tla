---------------------------- MODULE BodiesProofs ----------------------------
(***************************************************************************)
(* What holds of Bodies for every set of requests, elements and            *)
(* constraints.  The handlers write whole rows from copies they read       *)
(* earlier, so the inductive invariant follows the copies: one whose base  *)
(* is still what the row went through is an edit of the row, so while no   *)
(* write was stale each writer's copy is an edit of the copy before, and   *)
(* the row is the last.  The commits say what the copies hold; that they   *)
(* replay to the row is proved from the writers after the last commit that *)
(* set a part, by least counterexample.                                    *)
(***************************************************************************)
EXTENDS Bodies, SequenceTheorems, WellFoundedInduction, TLAPS

(* The calls that read a body and write it back, those that write the body  *)
(* of what they create, and the step of each that writes.                    *)
BodyAt == [message |-> 3, resolve |-> 4, connect |-> 5, edit |-> 3,
           interaction |-> 3, fragment |-> 3, information |-> 2]
Edits(r) == do[r].call \in {"message", "resolve", "connect", "edit"}
Makes(r) == do[r].call \in {"interaction", "fragment", "information"}
Writes(r) == Edits(r) \/ Makes(r)

Entry == ({"created", "deleted"} \X Id)
         \cup ({"set"} \X Id \X {"messages"} \X Seq(Message))
         \cup ({"set"} \X Id \X {"state"} \X {"unresolved", "resolved"})
         \cup ({"set"} \X Id \X {"option", "rest"} \X (STRING \cup {Nothing}))
         \cup ({"Contains", "Member"} \X Id \X Id)

TypeOK ==
    /\ elements \subseteq Id
    /\ row \in [Id -> Body \cup {Nothing}]
    /\ commits \in Seq([by : Req, diff : SUBSET Entry])
    /\ DOMAIN do = Req /\ \A r \in Req : do[r] \in Call
    /\ pc \in [Req -> Nat]
    /\ old \in [Req -> Body] /\ copy \in [Req -> Body]
    /\ others \in [Req -> [Id -> STRING \cup {Nothing}]]
    /\ members \in [Req -> SUBSET Id] /\ todo \in [Req -> SUBSET Id]
    /\ writes \in [Id -> Seq(Req)]
    /\ base \in [Req -> Seq(Req)]
    /\ raced \subseteq Id /\ missed \subseteq Id

(* How far each request can be: a loop over edges ends its flow. *)
Placed(r) ==
    /\ pc[r] <= Len(Steps(r)) + 1
    /\ Does(r, {"fragment", "freeze"}) => pc[r] # 5

(* What r makes of the body b. *)
Edited(r, b) == IF Does(r, {"edit"}) \/ Makes(r) THEN [b EXCEPT !.rest = do[r].value] ELSE Changed(r, b)

Numbered(b) == \A n \in DOMAIN b.messages : b.messages[n].order = n - 1

(* Messages are in order in every row and in every copy of one. *)
AllNumbered ==
    /\ \A e \in Id : Numbered(Contents(e))
    /\ \A r \in Req : Numbered(copy[r])

(* A copy of a row that nobody has written since is an edit of that row. *)
CopyIsFresh(r) ==
    Edits(r) =>
        /\ (pc[r] \in 3..BodyAt[do[r].call] \/ (Does(r, {"edit"}) /\ pc[r] = 2)) =>
              /\ Len(base[r]) <= Len(writes[On(r)])
              /\ base[r] = writes[On(r)] => /\ copy[r] = Edited(r, Contents(On(r)))
                                            /\ pc[r] >= 3 => old[r] = Contents(On(r))

(* What creates an element makes its body of nothing. *)
MadeOfNothing(r) ==
    Makes(r) => /\ base[r] = << >> /\ old[r] = Blank
                /\ pc[r] = BodyAt[do[r].call] => copy[r] = Edited(r, Blank)

(* Who has written the row of e: each writer that is past its write, once, *)
(* and requests that deleted the element first. *)
WritersAre(e) ==
    /\ \A r \in Req : (Writes(r) /\ Target(r) = e /\ pc[r] > BodyAt[do[r].call]) =>
          \E i \in DOMAIN writes[e] : writes[e][i] = r
    /\ \A i \in DOMAIN writes[e], r \in Req : (writes[e][i] = r /\ e \in elements) =>
          Writes(r) /\ Target(r) = e /\ (pc[r] = Refused \/ pc[r] > BodyAt[do[r].call])
    /\ e \in elements => \A i, j \in DOMAIN writes[e] : writes[e][i] = writes[e][j] => i = j

(* A deletion removes the element before its row. *)
DeletedFirst ==
    \A r \in Req : (Does(r, {"delete"}) /\ pc[r] \in 3..5) =>
        On(r) \notin elements

(* As long as no copy was old, each write of a row was an edit of the last. *)
Chained(e) ==
    (e \in elements /\ e \notin raced) =>
        /\ Contents(e) = IF writes[e] = << >> THEN Blank ELSE copy[writes[e][Len(writes[e])]]
        /\ \A i \in DOMAIN writes[e], r \in Req : writes[e][i] = r =>
                /\ old[r] = IF i = 1 THEN Blank ELSE copy[writes[e][i - 1]]
                /\ copy[r] = Edited(r, old[r])
                /\ Does(r, {"message"}) =>
                      \E n \in DOMAIN Contents(e).messages : Contents(e).messages[n].by = r

(* What a commit says is what its request holds. *)
Committed ==
    /\ \A n \in DOMAIN commits, r \in Req : commits[n].by = r =>
          Done(r) /\ commits[n].diff = Entries(r) /\ ~Does(r, {"drag", "save"})
    /\ \A n, m \in DOMAIN commits : commits[n].by = commits[m].by => n = m
    /\ \A r \in Req : (Done(r) /\ ~Does(r, {"drag", "save"})) =>
          \E n \in DOMAIN commits : commits[n].by = r

(* A choice about to be resolved was checked against the others it saw. *)
Checked(r) ==
    (Does(r, {"resolve"}) /\ pc[r] = 4) =>
        /\ \A o \in Opposite(Incompatible, On(r)) : others[r][o] = Nothing
        /\ \A o \in Opposite(Linked, On(r)) : others[r][o] \in {Nothing, do[r].value}

(* An element that was created is not created again. *)
Ahead(r) == \E i \in DOMAIN Steps(r) : Steps(r)[i] = "element" /\ pc[r] \in 1..i

CreatedOnce ==
    /\ \A r \in elements \cap Req : ~Ahead(r)
    /\ \A r \in Req : \A m \in members[r] \cap Req : ~Ahead(m)

(* Nobody has dealt with an element that is still to be created. *)
Unborn(e) ==
    (e \in Req /\ Ahead(e)) =>
        /\ writes[e] = << >>
        /\ \A q \in Req : (On(q) = e /\ (Edits(q) \/ Does(q, {"delete"}))) => pc[q] \in {Refused, 1}

(* A row that nobody wrote is as good as none. *)
BlankAtFirst(e) == writes[e] = << >> => Contents(e) = Blank

(* The members a freezing request has not linked yet are on its list. *)
LinkedOrTodo(r) ==
    Does(r, {"freeze"}) =>
        /\ pc[r] \in {3, 4} => todo[r] \subseteq members[r]
        /\ pc[r] = 3 => todo[r] = members[r]
        /\ pc[r] = 6 => todo[r] = {}
        /\ pc[r] \in {4, 6} => \A m \in members[r] \ todo[r] :
                                  {r, m} \subseteq elements => Link(r, m) \in edges

BInv ==
    /\ TypeOK
    /\ \A r \in Req : Placed(r) /\ CopyIsFresh(r) /\ MadeOfNothing(r) /\ Checked(r) /\ LinkedOrTodo(r)
    /\ \A e \in Id : WritersAre(e) /\ Chained(e) /\ Unborn(e) /\ BlankAtFirst(e)
    /\ AllNumbered /\ DeletedFirst /\ Committed /\ CreatedOnce
    /\ ChoicesAgreeUnlessMissed

----------------------------------------------------------------------------
(* Where in its flow a request is when it takes a step. *)
LEMMA FlowOf ==
    ASSUME NEW r \in Req, do[r] \in Call
    PROVE  /\ Does(r, {"interaction", "message", "fragment", "information", "resolve", "connect", "edit",
                       "drag", "save", "freeze", "delete"})
           /\ Does(r, {"interaction"}) => Steps(r) = <<"check", "element", "body", "commit">>
           /\ Does(r, {"message"})     => Steps(r) = <<"check", "read", "body", "commit">>
           /\ Does(r, {"fragment"})    => Steps(r) = <<"check", "element", "body", "link", "commit">>
           /\ Does(r, {"information"}) => Steps(r) = <<"element", "body", "commit">>
           /\ Does(r, {"resolve"})     => Steps(r) = <<"check", "read", "constraints", "body", "commit">>
           /\ Does(r, {"connect"})     => Steps(r) = <<"check", "read", "source", "target", "body", "commit">>
           /\ Does(r, {"edit"})        => Steps(r) = <<"view", "read", "body", "commit">>
           /\ Does(r, {"drag"})        => Steps(r) = <<"position">>
           /\ Does(r, {"save"})        => Steps(r) = <<"check", "query">>
           /\ Does(r, {"freeze"})      => Steps(r) = <<"recall", "traverse", "element", "link", "commit">>
           /\ Does(r, {"delete"})      => Steps(r) = <<"check", "remove", "erase", "commit">>
BY DEF Call, Flow, Does, Steps

(* How long each flow is. *)
LEMMA FlowLength ==
    ASSUME NEW r \in Req, do[r] \in Call
    PROVE  /\ Does(r, {"interaction", "message", "edit", "delete"}) => Len(Steps(r)) = 4
           /\ Does(r, {"fragment", "resolve", "freeze"}) => Len(Steps(r)) = 5
           /\ Does(r, {"connect"}) => Len(Steps(r)) = 6
           /\ Does(r, {"information"}) => Len(Steps(r)) = 3
           /\ Does(r, {"save"}) => Len(Steps(r)) = 2
           /\ Does(r, {"drag"}) => Len(Steps(r)) = 1
           /\ DOMAIN Steps(r) = 1..Len(Steps(r)) /\ Len(Steps(r)) \in 1..6
BY FlowOf DEF Does

(* What each flow ends with: the commit, which a loop over edges comes before. *)
LEMMA FlowEnds ==
    ASSUME NEW r \in Req, do[r] \in Call
    PROVE  /\ Does(r, {"fragment", "freeze"}) => Len(Steps(r)) = 5 /\ Steps(r)[4] = "link"
           /\ ~Does(r, {"drag", "save"}) => Steps(r)[Len(Steps(r))] = "commit"
<1>1. Does(r, {"fragment", "freeze"}) => Steps(r)[4] = "link"
  BY FlowOf DEF Does
<1>2. /\ Does(r, {"interaction", "message", "edit", "delete"}) => Steps(r)[4] = "commit"
      /\ Does(r, {"fragment", "resolve", "freeze"}) => Steps(r)[5] = "commit"
      /\ Does(r, {"connect"}) => Steps(r)[6] = "commit"
      /\ Does(r, {"information"}) => Steps(r)[3] = "commit"
  BY FlowOf DEF Does
<1>3. /\ \/ Does(r, {"interaction", "message", "edit", "delete"}) \/ Does(r, {"fragment", "resolve", "freeze"})
         \/ Does(r, {"connect"}) \/ Does(r, {"information"}) \/ Does(r, {"drag", "save"})
      /\ Does(r, {"fragment", "freeze"}) => Does(r, {"fragment", "resolve", "freeze"})
  BY FlowOf DEF Does
<1> QED
  BY <1>1, <1>2, <1>3, FlowLength

(* Which request stands where when it takes a step that reads. *)
LEMMA AtRead ==
    ASSUME NEW r \in Req, do[r] \in Call
    PROVE  /\ At(r, "check") => pc[r] = 1 /\ ~Does(r, {"edit", "freeze", "information", "drag"})
           /\ At(r, "view") => pc[r] = 1 /\ Does(r, {"edit"})
           /\ At(r, "read") => pc[r] = 2 /\ Does(r, {"message", "resolve", "connect", "edit"})
           /\ At(r, "constraints") => pc[r] = 3 /\ Does(r, {"resolve"})
           /\ At(r, "source") => pc[r] = 3 /\ Does(r, {"connect"})
           /\ At(r, "target") => pc[r] = 4 /\ Does(r, {"connect"})
           /\ At(r, "recall") => pc[r] = 1 /\ Does(r, {"freeze"})
           /\ At(r, "traverse") => pc[r] = 2 /\ Does(r, {"freeze"})
BY FlowOf DEF Does, At

(* Which request stands where when it takes a step that writes. *)
LEMMA AtWrite ==
    ASSUME NEW r \in Req, do[r] \in Call
    PROVE  /\ At(r, "body") => \/ Edits(r) /\ pc[r] = BodyAt[do[r].call] /\ Target(r) = On(r)
                               \/ Does(r, {"interaction", "fragment"}) /\ pc[r] = 3 /\ Target(r) = r
                               \/ Does(r, {"information"}) /\ pc[r] = 2 /\ Target(r) = r
           /\ At(r, "body") => Writes(r) /\ pc[r] = BodyAt[do[r].call]
           /\ At(r, "element") => \/ Does(r, {"interaction", "fragment"}) /\ pc[r] = 2
                                  \/ Does(r, {"information"}) /\ pc[r] = 1
                                  \/ Does(r, {"freeze"}) /\ pc[r] = 3
           /\ At(r, "link") => pc[r] = 4 /\ Does(r, {"fragment", "freeze"})
           /\ At(r, "commit") => pc[r] = Len(Steps(r)) /\ ~Does(r, {"drag", "save"})
           /\ At(r, "position") => pc[r] = 1 /\ Does(r, {"drag"})
           /\ At(r, "query") => pc[r] = 2 /\ Does(r, {"save"})
           /\ At(r, "remove") => pc[r] = 2 /\ Does(r, {"delete"})
           /\ At(r, "erase") => pc[r] = 3 /\ Does(r, {"delete"})
<1>1. At(r, "body") => \/ Does(r, {"message", "edit"}) /\ pc[r] = 3
                       \/ Does(r, {"resolve"}) /\ pc[r] = 4
                       \/ Does(r, {"connect"}) /\ pc[r] = 5
                       \/ Does(r, {"interaction", "fragment"}) /\ pc[r] = 3
                       \/ Does(r, {"information"}) /\ pc[r] = 2
  BY FlowOf DEF Does, At
<1>2. /\ Does(r, {"message", "edit"}) => Edits(r) /\ BodyAt[do[r].call] = 3 /\ Target(r) = On(r)
      /\ Does(r, {"resolve"}) => Edits(r) /\ BodyAt[do[r].call] = 4 /\ Target(r) = On(r)
      /\ Does(r, {"connect"}) => Edits(r) /\ BodyAt[do[r].call] = 5 /\ Target(r) = On(r)
      /\ Does(r, {"interaction", "fragment", "information"}) => Target(r) = r
  BY DEF Does, Edits, BodyAt, Target
<1>3. /\ At(r, "element") => \/ Does(r, {"interaction", "fragment"}) /\ pc[r] = 2
                             \/ Does(r, {"information"}) /\ pc[r] = 1
                             \/ Does(r, {"freeze"}) /\ pc[r] = 3
      /\ At(r, "link") => pc[r] = 4 /\ Does(r, {"fragment", "freeze"})
      /\ At(r, "position") => pc[r] = 1 /\ Does(r, {"drag"})
      /\ At(r, "query") => pc[r] = 2 /\ Does(r, {"save"})
  BY FlowOf DEF Does, At
<1>4. /\ At(r, "remove") => pc[r] = 2 /\ Does(r, {"delete"})
      /\ At(r, "erase") => pc[r] = 3 /\ Does(r, {"delete"})
  BY FlowOf DEF Does, At
<1>5. At(r, "commit") => pc[r] = Len(Steps(r)) /\ ~Does(r, {"drag", "save"})
  <2>1. /\ At(r, "commit") => ~Does(r, {"drag", "save"})
        /\ At(r, "commit") /\ Does(r, {"interaction", "message", "edit", "delete"}) => pc[r] = 4
        /\ At(r, "commit") /\ Does(r, {"fragment", "resolve", "freeze"}) => pc[r] = 5
        /\ At(r, "commit") /\ Does(r, {"connect"}) => pc[r] = 6
        /\ At(r, "commit") /\ Does(r, {"information"}) => pc[r] = 3
    BY FlowOf DEF Does, At
  <2>2. \/ Does(r, {"interaction", "message", "edit", "delete"}) \/ Does(r, {"fragment", "resolve", "freeze"})
        \/ Does(r, {"connect"}) \/ Does(r, {"information"}) \/ Does(r, {"drag", "save"})
    BY FlowOf DEF Does
  <2> QED
    BY <2>1, <2>2, FlowLength
<1>6. At(r, "body") => \/ Edits(r) /\ pc[r] = BodyAt[do[r].call] /\ Target(r) = On(r)
                       \/ Does(r, {"interaction", "fragment"}) /\ pc[r] = 3 /\ Target(r) = r
                       \/ Does(r, {"information"}) /\ pc[r] = 2 /\ Target(r) = r
  <2>1. /\ Does(r, {"fragment"}) \/ Does(r, {"interaction"}) <=> Does(r, {"interaction", "fragment"})
        /\ Does(r, {"interaction", "fragment"}) => Does(r, {"interaction", "fragment", "information"})
        /\ Does(r, {"information"}) => Does(r, {"interaction", "fragment", "information"})
    BY DEF Does
  <2> QED
    BY <1>1, <1>2, <2>1
<1>7. At(r, "body") => Writes(r) /\ pc[r] = BodyAt[do[r].call]
  BY <1>1 DEF Writes, Edits, Makes, BodyAt, Does
<1> QED
  BY <1>3, <1>4, <1>5, <1>6, <1>7

----------------------------------------------------------------------------

(* The body of an element without a row. *)
LEMMA BlankTyped == Blank \in Body /\ Blank # Nothing /\ Numbered(Blank) /\ Blank.messages = << >>
<1>1. Blank.messages = << >> /\ DOMAIN Blank.messages = {} /\ Blank.messages \in Seq(Message)
  BY DEF Blank
<1>2. Blank \in Body
  BY <1>1 DEF Blank, Body
<1> QED
  BY <1>1, <1>2, NothingAssumption DEF Numbered

(* What a row stands for has a body's type. *)
LEMMA ContentsTyped ==
    ASSUME TypeOK, NEW e \in Id
    PROVE  /\ Contents(e) \in Body
           /\ Contents(e) = IF row[e] = Nothing THEN Blank ELSE row[e]
           /\ Options[e] = Contents(e).option
BY BlankTyped DEF TypeOK, Contents, Options

(* The parts of a body. *)
LEMMA BodyTyped ==
    ASSUME NEW b \in Body
    PROVE  /\ b.messages \in Seq(Message) /\ Len(b.messages) \in Nat
           /\ DOMAIN b.messages = 1..Len(b.messages)
           /\ b.option \in STRING \cup {Nothing} /\ b.rest \in STRING \cup {Nothing}
           /\ b.state \in {"unresolved", "resolved"} /\ b # Nothing
BY NothingAssumption DEF Body

(* What a request names. *)
LEMMA CallTyped ==
    ASSUME NEW r \in Req, do[r] \in Call
    PROVE  /\ On(r) \in Id /\ do[r].value \in STRING \cup {Nothing} /\ Target(r) \in Id /\ r \in Id
           /\ do[r].call \in DOMAIN Flow
BY DEF Call, On, Id, Target

(* An edit of a body is a body, its messages in order, and nothing but what *)
(* its call is about changes. *)
LEMMA EditedIs ==
    ASSUME NEW r \in Req, do[r] \in Call, Writes(r), NEW b \in Body
    PROVE  /\ Edited(r, b) \in Body
           /\ Numbered(b) => Numbered(Edited(r, b))
           /\ Does(r, {"message"}) => \E n \in DOMAIN Edited(r, b).messages : Edited(r, b).messages[n].by = r
           /\ \A n \in DOMAIN b.messages : /\ n \in DOMAIN Edited(r, b).messages
                                           /\ Edited(r, b).messages[n] = b.messages[n]
           /\ ~Does(r, {"message"}) => Edited(r, b).messages = b.messages
           /\ ~Does(r, {"resolve"}) => Edited(r, b).option = b.option
           /\ Does(r, {"resolve"}) => Edited(r, b).option = do[r].value
           /\ ~Does(r, {"resolve", "connect"}) => Edited(r, b).state = b.state
           /\ ~Does(r, {"edit"}) /\ ~Makes(r) => Edited(r, b).rest = b.rest
<1>0. b.messages \in Seq(Message) /\ Len(b.messages) \in Nat /\ DOMAIN b.messages = 1..Len(b.messages)
  BY BodyTyped
<1>1. CASE Does(r, {"message"})
  <2> DEFINE m == [by |-> r, order |-> Len(b.messages)]
  <2>1. Edited(r, b) = [b EXCEPT !.messages = Append(b.messages, m)]
    BY <1>1 DEF Edited, Changed, Does, Makes
  <2>2. m \in Message
    BY <1>0 DEF Message
  <2>3. /\ Append(b.messages, m) \in Seq(Message)
        /\ DOMAIN Append(b.messages, m) = 1..(Len(b.messages) + 1)
        /\ Append(b.messages, m)[Len(b.messages) + 1] = m
        /\ \A n \in 1..Len(b.messages) : Append(b.messages, m)[n] = b.messages[n]
    BY <1>0, <2>2
  <2>4. /\ Edited(r, b) \in Body
        /\ Edited(r, b).messages = Append(b.messages, m)
        /\ Edited(r, b).option = b.option /\ Edited(r, b).state = b.state /\ Edited(r, b).rest = b.rest
    BY <2>1, <2>3 DEF Body
  <2>5. ~Does(r, {"resolve"}) /\ ~Does(r, {"resolve", "connect"}) /\ ~Does(r, {"edit"})
    BY <1>1 DEF Does
  <2>6. Numbered(b) => Numbered(Edited(r, b))
    BY <1>0, <2>3, <2>4 DEF Numbered
  <2>7. Len(b.messages) + 1 \in DOMAIN Edited(r, b).messages /\ Edited(r, b).messages[Len(b.messages) + 1].by = r
    BY <1>0, <2>3, <2>4
  <2>8. \A n \in DOMAIN b.messages : /\ n \in DOMAIN Edited(r, b).messages
                                     /\ Edited(r, b).messages[n] = b.messages[n]
    BY <1>0, <2>3, <2>4
  <2> QED
    BY <1>1, <2>4, <2>5, <2>6, <2>7, <2>8
<1>2. CASE Does(r, {"resolve"})
  <2>1. Edited(r, b) = [b EXCEPT !.option = do[r].value, !.state = "resolved"]
    BY <1>2 DEF Edited, Changed, Does, Makes
  <2>2. /\ Edited(r, b) \in Body
        /\ Edited(r, b).messages = b.messages
        /\ Edited(r, b).option = do[r].value /\ Edited(r, b).rest = b.rest
    BY <2>1, CallTyped DEF Body
  <2>3. ~Does(r, {"message"}) /\ Does(r, {"resolve", "connect"})
    BY <1>2 DEF Does
  <2> QED
    BY <1>2, <2>2, <2>3 DEF Numbered
<1>3. CASE Does(r, {"connect"})
  <2>1. Edited(r, b) = [b EXCEPT !.state = "resolved"]
    BY <1>3 DEF Edited, Changed, Does, Makes
  <2>2. /\ Edited(r, b) \in Body
        /\ Edited(r, b).messages = b.messages
        /\ Edited(r, b).option = b.option /\ Edited(r, b).rest = b.rest
    BY <2>1 DEF Body
  <2>3. ~Does(r, {"message"}) /\ Does(r, {"resolve", "connect"}) /\ ~Does(r, {"resolve"})
    BY <1>3 DEF Does
  <2> QED
    BY <1>3, <2>2, <2>3 DEF Numbered
<1>4. CASE Does(r, {"edit"}) \/ Makes(r)
  <2>1. Edited(r, b) = [b EXCEPT !.rest = do[r].value]
    BY <1>4 DEF Edited
  <2>2. /\ Edited(r, b) \in Body
        /\ Edited(r, b).messages = b.messages
        /\ Edited(r, b).option = b.option /\ Edited(r, b).state = b.state
    BY <2>1, CallTyped DEF Body
  <2>3. ~Does(r, {"message"}) /\ ~Does(r, {"resolve"})
    BY <1>4 DEF Does, Makes
  <2> QED
    BY <1>4, <2>2, <2>3 DEF Numbered
<1> QED
  BY <1>1, <1>2, <1>3, <1>4 DEF Writes, Edits, Makes, Does

----------------------------------------------------------------------------
(* Types. *)

(* Each disjunct of Step, by what it may change. *)
Reads(r) ==
    \/ Check(r) \/ Constraints(r) \/ ReadPrerequisite(r, "source") \/ ReadPrerequisite(r, "target")
    \/ Recall(r) \/ Traverse(r) \/ Fail(r)

(* A step moves its own request, and no request changes what it does. *)
LEMMA PcMoves ==
    ASSUME TypeOK, NEW r \in Req, Step(r)
    PROVE  /\ pc' = [pc EXCEPT ![r] = pc'[r]]
           /\ pc'[r] \in {Refused, pc[r], pc[r] + 1, pc[r] + 2}
           /\ do' = do
<1>1. ASSUME NEW step, NEW ok, Take(r, step, ok) PROVE pc' = [pc EXCEPT ![r] = pc'[r]] /\ pc'[r] \in {Refused, pc[r] + 1}
  BY <1>1 DEF Take, TypeOK
<1>2. CASE Reads(r)
  BY <1>1, <1>2 DEF Reads, Check, Constraints, ReadPrerequisite, Recall, Traverse, Fail, TypeOK
<1>3. CASE View(r) \/ Read(r) \/ UpsertElement(r) \/ UpsertBody(r)
  BY <1>1, <1>3 DEF View, Read, UpsertElement, UpsertBody
<1>4. CASE UpsertPosition(r) \/ SaveQuery(r) \/ Remove(r) \/ Erase(r)
  BY <1>1, <1>4 DEF UpsertPosition, SaveQuery, Remove, Erase
<1>5. CASE CreateEdge(r)
  <2>1. pc' = pc \/ (\E there \in BOOLEAN : pc' = [pc EXCEPT ![r] = IF there THEN @ ELSE Refused])
    BY <1>5 DEF CreateEdge
  <2> QED
    BY <1>5, <2>1 DEF CreateEdge, TypeOK
<1>6. CASE RecordCommit(r)
  BY <1>1, <1>6 DEF RecordCommit, TypeOK
<1> QED
  BY <1>2, <1>3, <1>4, <1>5, <1>6 DEF Step, Reads

(* Where the requests are after a step. *)
LEMMA PcTyped ==
    ASSUME TypeOK, NEW r \in Req, Step(r)
    PROVE  pc' \in [Req -> Nat] /\ DOMAIN do' = Req /\ \A q \in Req : do'[q] \in Call
<1>1. pc[r] \in Nat /\ pc \in [Req -> Nat] /\ DOMAIN do = Req /\ \A q \in Req : do[q] \in Call
  BY DEF TypeOK
<1>2. pc'[r] \in Nat
  BY <1>1, PcMoves DEF Refused
<1>3. pc' = [pc EXCEPT ![r] = pc'[r]] /\ do' = do
  BY PcMoves
<1> QED
  BY <1>1, <1>2, <1>3

(* What is handed to record_commit is a diff. *)
LEMMA EntriesTyped ==
    ASSUME TypeOK, NEW r \in Req, ~Does(r, {"drag", "save"})
    PROVE  Entries(r) \subseteq Entry
<1>0. do[r] \in Call /\ On(r) \in Id /\ r \in Id
  BY CallTyped DEF TypeOK
<1>1. ASSUME NEW e \in Id, NEW k \in DOMAIN Blank PROVE Set(r, e, k) \in Entry
  <2>1. copy[r] \in Body /\ k \in {"messages", "option", "state", "rest"}
    BY DEF TypeOK, Blank
  <2>2. /\ copy[r].messages \in Seq(Message) /\ copy[r].option \in STRING \cup {Nothing}
        /\ copy[r].state \in {"unresolved", "resolved"} /\ copy[r].rest \in STRING \cup {Nothing}
    BY <2>1 DEF Body
  <2>3. k = "messages" \/ k = "option" \/ k = "state" \/ k = "rest"
    BY <2>1
  <2> QED
    BY <2>2, <2>3 DEF Set, Entry
<1>2. ASSUME NEW e \in Id PROVE <<"created", e>> \in Entry /\ <<"deleted", e>> \in Entry
  BY DEF Entry
<1>3. ASSUME NEW m \in Id PROVE Link(r, m) \in Entry
  BY <1>0 DEF Link, Entry
<1>4. "messages" \in DOMAIN Blank /\ "state" \in DOMAIN Blank /\ "rest" \in DOMAIN Blank
  BY DEF Blank
<1>5. CASE Does(r, {"interaction"})
  BY <1>0, <1>2, <1>5 DEF Entries, Does
<1>6. CASE Does(r, {"information"})
  BY <1>0, <1>1, <1>2, <1>4, <1>6 DEF Entries, Does
<1>7. CASE Does(r, {"fragment"})
  BY <1>0, <1>2, <1>3, <1>7 DEF Entries, Does
<1>8. CASE Does(r, {"freeze"})
  <2>1. members[r] \subseteq Id
    BY DEF TypeOK
  <2>2. Entries(r) = {<<"created", r>>} \cup {Link(r, m) : m \in members[r]}
    BY <1>8 DEF Entries, Does
  <2> QED
    BY <1>0, <1>2, <1>3, <2>1, <2>2
<1>9. CASE Does(r, {"message"})
  BY <1>0, <1>1, <1>4, <1>9 DEF Entries, Does
<1>10. CASE Does(r, {"resolve", "connect"})
  BY <1>0, <1>1, <1>4, <1>10 DEF Entries, Does
<1>11. CASE Does(r, {"edit"})
  <2>1. Entries(r) = {Set(r, On(r), k) : k \in {k \in DOMAIN Blank : copy[r][k] # old[r][k]}}
    BY <1>11 DEF Entries, Does
  <2> QED
    BY <1>0, <1>1, <2>1
<1>12. CASE Does(r, {"delete"})
  BY <1>0, <1>2, <1>12 DEF Entries, Does
<1> QED
  BY <1>0, <1>5, <1>6, <1>7, <1>8, <1>9, <1>10, <1>11, <1>12, FlowOf DEF Does

(* Types are kept. *)
LEMMA StepTyped ==
    ASSUME TypeOK, NEW r \in Req, Step(r)
    PROVE  TypeOK'
<1>0. /\ do[r] \in Call /\ On(r) \in Id /\ Target(r) \in Id /\ r \in Id /\ do[r].value \in STRING \cup {Nothing}
      /\ pc' \in [Req -> Nat] /\ DOMAIN do' = Req /\ \A q \in Req : do'[q] \in Call
  BY CallTyped, PcTyped DEF TypeOK
<1>1. CASE Check(r) \/ ReadPrerequisite(r, "source") \/ ReadPrerequisite(r, "target") \/ Recall(r) \/ Fail(r)
  BY <1>0, <1>1 DEF Check, ReadPrerequisite, Recall, Fail, TypeOK, stores, locals, history
<1>2. CASE Constraints(r)
  <2>1. \A e \in Id : Options[e] \in STRING \cup {Nothing}
    BY ContentsTyped, BodyTyped
  <2>2. Options \in [Id -> STRING \cup {Nothing}]
    BY <2>1 DEF Options
  <2> QED
    BY <1>0, <1>2, <2>2 DEF Constraints, TypeOK, stores, history
<1>3. CASE Traverse(r)
  <2>1. \E found \in SUBSET elements : /\ members' = [members EXCEPT ![r] = found]
                                       /\ todo' = [todo EXCEPT ![r] = found]
    BY <1>3 DEF Traverse
  <2> QED
    BY <1>0, <1>3, <2>1 DEF Traverse, TypeOK, stores, history
<1>4. CASE View(r)
  <2>1. [Contents(On(r)) EXCEPT !.rest = do[r].value] \in Body
    BY <1>0, ContentsTyped DEF Body
  <2> QED
    BY <1>0, <1>4, <2>1 DEF View, TypeOK, stores
<1>5. CASE Read(r)
  <2>1. Contents(On(r)) \in Body
    BY <1>0, ContentsTyped
  <2>2. Changed(r, Contents(On(r))) \in Body
    <3>1. Edits(r)
      BY <1>0, <1>5, AtRead DEF Read, Take, Edits, BodyAt, Does
    <3>2. CASE Does(r, {"edit"})
      BY <3>2 DEF Changed, Does, TypeOK
    <3>3. CASE ~Does(r, {"edit"})
      BY <1>0, <2>1, <3>1, <3>3, EditedIs DEF Edited, Writes, Makes, Edits
    <3> QED
      BY <3>2, <3>3
  <2> QED
    BY <1>0, <1>5, <2>1, <2>2 DEF Read, TypeOK, stores
<1>6. CASE UpsertElement(r)
  <2>1. [Blank EXCEPT !.rest = do[r].value] \in Body
    BY <1>0, BlankTyped DEF Body
  <2> QED
    BY <1>0, <1>6, <2>1 DEF UpsertElement, TypeOK, history
<1>7. CASE UpsertBody(r)
  <2>1. /\ row' = [row EXCEPT ![Target(r)] = copy[r]]
        /\ writes' = [writes EXCEPT ![Target(r)] = Append(@, r)]
        /\ raced' \in {raced, raced \cup {Target(r)}} /\ missed' \in {missed, missed \cup {Target(r)}}
        /\ UNCHANGED <<elements, edges, position, queries, commits, do, locals, base>>
    BY <1>7 DEF UpsertBody
  <2>2. writes[Target(r)] \in Seq(Req) /\ Append(writes[Target(r)], r) \in Seq(Req)
    BY <1>0 DEF TypeOK
  <2> QED
    BY <1>0, <2>1, <2>2 DEF TypeOK, locals
<1>8. CASE CreateEdge(r)
  <2>1. \E m \in todo[r] : todo' = [todo EXCEPT ![r] = @ \ {m}]
    BY <1>8 DEF CreateEdge
  <2> QED
    BY <1>0, <1>8, <2>1 DEF CreateEdge, TypeOK, history
<1>9. CASE RecordCommit(r)
  <2>1. ~Does(r, {"drag", "save"})
    BY <1>0, <1>9, AtWrite DEF RecordCommit, Take, Does
  <2>2. [by |-> r, diff |-> Entries(r)] \in [by : Req, diff : SUBSET Entry]
    BY <2>1, EntriesTyped
  <2>3. commits' \in Seq([by : Req, diff : SUBSET Entry])
    BY <1>9, <2>2 DEF RecordCommit, TypeOK
  <2> QED
    BY <1>0, <1>9, <2>3 DEF RecordCommit, TypeOK, locals, history
<1>10. CASE UpsertPosition(r)
  <2>1. Contents(On(r)) \in Body
    BY <1>0, ContentsTyped
  <2> QED
    BY <1>0, <1>10, <2>1 DEF UpsertPosition, TypeOK, locals, history
<1>11. CASE SaveQuery(r) \/ Remove(r)
  BY <1>0, <1>11 DEF SaveQuery, Remove, TypeOK, locals, history
<1>12. CASE Erase(r)
  <2>1. writes[On(r)] \in Seq(Req) /\ Append(writes[On(r)], r) \in Seq(Req)
    BY <1>0 DEF TypeOK
  <2> QED
    BY <1>0, <1>12, <2>1 DEF Erase, TypeOK, locals
<1> QED
  BY <1>1, <1>2, <1>3, <1>4, <1>5, <1>6, <1>7, <1>8, <1>9, <1>10, <1>11, <1>12 DEF Step

----------------------------------------------------------------------------
(* What a step of r leaves alone. *)

(* What is said of a request alone stays so. *)
LEMMA Doing == ASSUME do' = do, NEW r \in Req, NEW calls
               PROVE  /\ Does(r, calls)' = Does(r, calls) /\ On(r)' = On(r) /\ Steps(r)' = Steps(r)
                      /\ Target(r)' = Target(r) /\ Edits(r)' = Edits(r)
                      /\ Makes(r)' = Makes(r) /\ Writes(r)' = Writes(r)
                      /\ \A m : Link(r, m)' = Link(r, m)
                      /\ \A b : Writes(r) => Edited(r, b)' = Edited(r, b)
<1>1. Does(r, calls)' = Does(r, calls) /\ On(r)' = On(r) /\ Steps(r)' = Steps(r) /\ Edits(r)' = Edits(r)
  BY DEF Does, On, Steps, Edits
<1>2. Target(r)' = Target(r) /\ \A m : Link(r, m)' = Link(r, m)
  BY <1>1 DEF Target, Link, Does
<1>3. ASSUME NEW b, Writes(r) PROVE Edited(r, b)' = Edited(r, b)
  BY <1>3 DEF Edited, Changed, Does, Writes, Edits, Makes
<1>4. Makes(r)' = Makes(r) /\ Writes(r)' = Writes(r)
  BY DEF Makes, Writes, Edits
<1> QED
  BY <1>1, <1>2, <1>3, <1>4

(* A step of one request leaves the locals of the others alone. *)
LEMMA OthersWait ==
    ASSUME TypeOK, NEW r \in Req, Step(r), NEW q \in Req, q # r
    PROVE  /\ pc'[q] = pc[q] /\ old'[q] = old[q] /\ copy'[q] = copy[q] /\ others'[q] = others[q]
           /\ members'[q] = members[q] /\ todo'[q] = todo[q] /\ base'[q] = base[q]
<1>1. pc'[q] = pc[q]
  <2>1. pc' = [pc EXCEPT ![r] = pc'[r]] /\ q \in DOMAIN pc
    BY PcMoves DEF TypeOK
  <2> QED
    BY <2>1
<1>2. CASE Reads(r)
  BY <1>1, <1>2 DEF Reads, Check, Constraints, ReadPrerequisite, Recall, Traverse, Fail, TypeOK, locals, history
<1>3. CASE View(r) \/ Read(r)
  BY <1>1, <1>3 DEF View, Read, TypeOK
<1>4. CASE UpsertElement(r) \/ UpsertBody(r)
  BY <1>1, <1>4 DEF UpsertElement, UpsertBody, TypeOK, locals, history
<1>5. CASE UpsertPosition(r) \/ SaveQuery(r) \/ Remove(r) \/ Erase(r) \/ RecordCommit(r)
  BY <1>1, <1>5 DEF UpsertPosition, SaveQuery, Remove, Erase, RecordCommit, locals, history
<1>6. CASE CreateEdge(r)
  BY <1>1, <1>6 DEF CreateEdge, TypeOK, history
<1> QED
  BY <1>2, <1>3, <1>4, <1>5, <1>6 DEF Step, Reads

(* A step is a call of the flow, one edge of a loop, or a failure. *)
LEMMA StepShape ==
    ASSUME NEW r \in Req, Step(r)
    PROVE  \/ Fail(r) \/ CreateEdge(r) \/ RecordCommit(r)
           \/ \E step, ok : step \notin {"link", "commit"} /\ Take(r, step, ok)
<1>1. CASE Reads(r)
  BY <1>1 DEF Reads, Check, Constraints, ReadPrerequisite, Recall, Traverse
<1>2. CASE View(r) \/ Read(r) \/ UpsertElement(r) \/ UpsertBody(r)
  BY <1>2 DEF View, Read, UpsertElement, UpsertBody
<1>3. CASE UpsertPosition(r) \/ SaveQuery(r) \/ Remove(r) \/ Erase(r)
  BY <1>3 DEF UpsertPosition, SaveQuery, Remove, Erase
<1> QED
  BY <1>1, <1>2, <1>3 DEF Step, Reads

(* A request that has ended takes no step; where one ends. *)
LEMMA StepPlaces ==
    ASSUME TypeOK, NEW r \in Req, Step(r), Placed(r)
    PROVE  /\ pc[r] \in 1..Len(Steps(r))
           /\ Placed(r)'
           /\ pc'[r] \in {Refused, pc[r], pc[r] + 1, pc[r] + 2}
           /\ Done(r)' /\ ~Does(r, {"drag", "save"}) => RecordCommit(r)
           /\ RecordCommit(r) => Done(r)' /\ ~Does(r, {"drag", "save"})
<1>0. /\ do[r] \in Call /\ do' = do /\ pc \in [Req -> Nat] /\ pc'[r] \in Nat
      /\ Does(r, {"fragment", "freeze"})' = Does(r, {"fragment", "freeze"})
      /\ Steps(r)' = Steps(r)
      /\ pc'[r] \in {Refused, pc[r], pc[r] + 1, pc[r] + 2}
      /\ DOMAIN Steps(r) = 1..Len(Steps(r)) /\ Len(Steps(r)) \in 1..6
  BY PcMoves, PcTyped, FlowLength, Doing DEF TypeOK
<1>1. /\ Does(r, {"fragment", "freeze"}) => Len(Steps(r)) = 5 /\ Steps(r)[4] = "link"
      /\ ~Does(r, {"drag", "save"}) => Steps(r)[Len(Steps(r))] = "commit"
  BY <1>0, FlowEnds
<1>2. CASE Fail(r)
  <2>1. pc'[r] = Refused /\ pc[r] \in 1..Len(Steps(r)) /\ Refused = 0
    BY <1>0, <1>2 DEF Fail, Refused
  <2>2. ~RecordCommit(r)
    BY <1>0, <2>1 DEF RecordCommit, Take
  <2> QED
    BY <1>0, <2>1, <2>2 DEF Placed, Done
<1>3. CASE CreateEdge(r)
  <2>1. pc[r] = 4 /\ Does(r, {"fragment", "freeze"}) /\ At(r, "link")
    BY <1>0, <1>3, AtWrite DEF CreateEdge
  <2>2. pc'[r] \in {4, Refused}
    <3>1. pc' = pc \/ (\E there \in BOOLEAN : pc' = [pc EXCEPT ![r] = IF there THEN @ ELSE Refused])
      BY <1>3 DEF CreateEdge
    <3> QED
      BY <1>0, <2>1, <3>1
  <2>3. ~RecordCommit(r)
    BY <1>0, <1>3, <2>1, <2>2 DEF RecordCommit, Take, At, Refused
  <2> QED
    BY <1>0, <1>1, <2>1, <2>2, <2>3 DEF Placed, Done, At, Refused
<1>4. CASE RecordCommit(r)
  <2>1. CASE Take(r, "commit", TRUE)
    <3>1. pc[r] = Len(Steps(r)) /\ pc'[r] = pc[r] + 1 /\ ~Does(r, {"drag", "save"})
      BY <1>0, <2>1, AtWrite DEF Take
    <3>2. Does(r, {"fragment", "freeze"}) => pc[r] # 5
      BY DEF Placed
    <3> QED
      BY <1>0, <1>1, <1>4, <3>1, <3>2 DEF Placed, Done
  <2>2. CASE At(r, "link") /\ todo[r] = {} /\ pc' = [pc EXCEPT ![r] = @ + 2]
    <3>1. pc[r] = 4 /\ Does(r, {"fragment", "freeze"}) /\ pc'[r] = 6
      BY <1>0, <2>2, AtWrite
    <3>2. ~Does(r, {"drag", "save"})
      BY <3>1 DEF Does
    <3>3. Len(Steps(r)) = 5 /\ Len(Steps(r)') = 5
      BY <1>0, <1>1, <3>1
    <3> QED
      BY <1>0, <1>4, <3>1, <3>2, <3>3 DEF Placed, Done
  <2> QED
    BY <1>4, <2>1, <2>2 DEF RecordCommit
<1>5. CASE \E step, ok : step \notin {"link", "commit"} /\ Take(r, step, ok)
  <2>1. PICK step, ok : step \notin {"link", "commit"} /\ Take(r, step, ok)
    BY <1>5
  <2>2. pc[r] \in 1..Len(Steps(r)) /\ Steps(r)[pc[r]] = step /\ pc'[r] \in {Refused, pc[r] + 1}
    BY <1>0, <2>1 DEF Take, At
  <2>3. ~RecordCommit(r)
    BY <1>0, <2>2, <2>1 DEF RecordCommit, Take, At, Refused
  <2>4. ~Does(r, {"drag", "save"}) => pc[r] # Len(Steps(r))
    BY <1>1, <2>1, <2>2
  <2>5. Does(r, {"fragment", "freeze"}) => pc[r] # 4
    BY <1>1, <2>1, <2>2
  <2> QED
    BY <1>0, <2>2, <2>3, <2>4, <2>5 DEF Placed, Done, Refused
<1> QED
  BY <1>2, <1>3, <1>4, <1>5, StepShape

----------------------------------------------------------------------------
(* Rows: a step rewrites one, erases one, or leaves what they stand for. *)

RowKept(e) == Contents(e)' = Contents(e) /\ writes'[e] = writes[e] /\ (row'[e] = Nothing => row[e] = Nothing)

Written(r, e) ==
    /\ UpsertBody(r) /\ Target(r) = e
    /\ row'[e] = copy[r] /\ Contents(e)' = copy[r] /\ writes'[e] = Append(writes[e], r)

Erased(r, e) ==
    /\ Erase(r) /\ On(r) = e
    /\ Contents(e)' = Blank /\ writes'[e] = Append(writes[e], r)

(* What a step does to a row. *)
LEMMA StepRows ==
    ASSUME TypeOK, NEW r \in Req, Step(r), NEW e \in Id
    PROVE  RowKept(e) \/ Written(r, e) \/ Erased(r, e)
<1>0. do[r] \in Call /\ On(r) \in Id /\ Target(r) \in Id /\ copy[r] \in Body /\ copy[r] # Nothing
  BY CallTyped, BodyTyped DEF TypeOK
<1>1. ASSUME row'[e] = row[e], writes'[e] = writes[e] PROVE RowKept(e)
  BY <1>1 DEF RowKept, Contents
<1>2. CASE Reads(r)
  BY <1>1, <1>2 DEF Reads, Check, Constraints, ReadPrerequisite, Recall, Traverse, Fail, stores, history
<1>3. CASE View(r) \/ Read(r) \/ UpsertElement(r)
  BY <1>1, <1>3 DEF View, Read, UpsertElement, stores, history
<1>4. CASE CreateEdge(r) \/ RecordCommit(r) \/ SaveQuery(r) \/ Remove(r)
  BY <1>1, <1>4 DEF CreateEdge, RecordCommit, SaveQuery, Remove, history
<1>5. CASE UpsertPosition(r)
  <2>1. row' = [row EXCEPT ![On(r)] = Contents(On(r))] /\ writes' = writes
    BY <1>5 DEF UpsertPosition, history
  <2>2. Contents(On(r)) \in Body /\ Contents(On(r)) # Nothing
    BY <1>0, ContentsTyped, BodyTyped
  <2>3. CASE e = On(r)
    <3>1. row'[e] = Contents(e) /\ Contents(e) # Nothing
      BY <2>1, <2>2, <2>3 DEF TypeOK
    <3>2. Contents(e)' = row'[e]
      BY <3>1 DEF Contents
    <3> QED
      BY <2>1, <3>1, <3>2 DEF RowKept
  <2>4. CASE e # On(r)
    BY <1>1, <2>1, <2>4 DEF TypeOK
  <2> QED
    BY <2>3, <2>4
<1>6. CASE UpsertBody(r)
  <2>1. row' = [row EXCEPT ![Target(r)] = copy[r]] /\ writes' = [writes EXCEPT ![Target(r)] = Append(@, r)]
    BY <1>6 DEF UpsertBody
  <2>2. CASE e = Target(r)
    <3>1. row'[e] = copy[r] /\ writes'[e] = Append(writes[e], r)
      BY <2>1, <2>2 DEF TypeOK
    <3>2. Contents(e)' = copy[r]
      BY <1>0, <3>1 DEF Contents
    <3> QED
      BY <1>6, <2>2, <3>1, <3>2 DEF Written
  <2>3. CASE e # Target(r)
    BY <1>1, <2>1, <2>3 DEF TypeOK
  <2> QED
    BY <2>2, <2>3
<1>7. CASE Erase(r)
  <2>1. row' = [row EXCEPT ![On(r)] = Nothing] /\ writes' = [writes EXCEPT ![On(r)] = Append(@, r)]
    BY <1>7 DEF Erase
  <2>2. CASE e = On(r)
    <3>1. row'[e] = Nothing /\ writes'[e] = Append(writes[e], r)
      BY <2>1, <2>2 DEF TypeOK
    <3>2. Contents(e)' = Blank
      BY <3>1 DEF Contents
    <3> QED
      BY <1>7, <2>2, <3>1, <3>2 DEF Erased
  <2>3. CASE e # On(r)
    BY <1>1, <2>1, <2>3 DEF TypeOK
  <2> QED
    BY <2>2, <2>3
<1> QED
  BY <1>2, <1>3, <1>4, <1>5, <1>6, <1>7 DEF Step, Reads

(* Only the steps that take a copy change it. *)
LEMMA StepCopies ==
    ASSUME TypeOK, NEW r \in Req, Step(r)
    PROVE  \/ copy' = copy /\ old' = old /\ base' = base
           \/ View(r) \/ Read(r)
           \/ UpsertElement(r) /\ copy'[r] = [Blank EXCEPT !.rest = do[r].value] /\ old' = old /\ base' = base
<1>1. CASE Reads(r)
  BY <1>1 DEF Reads, Check, Constraints, ReadPrerequisite, Recall, Traverse, Fail, locals, history
<1>2. CASE UpsertElement(r)
  BY <1>2 DEF UpsertElement, TypeOK, history
<1>3. CASE UpsertBody(r) \/ CreateEdge(r) \/ RecordCommit(r) \/ UpsertPosition(r) \/ SaveQuery(r)
             \/ Remove(r) \/ Erase(r)
  BY <1>3 DEF UpsertBody, CreateEdge, RecordCommit, UpsertPosition, SaveQuery, Remove, Erase, locals, history
<1> QED
  BY <1>1, <1>2, <1>3 DEF Step, Reads

(* The copy View or Read takes. *)
LEMMA CopyTaken ==
    ASSUME TypeOK, NEW r \in Req, Step(r)
    PROVE  /\ View(r) => /\ Does(r, {"edit"}) /\ pc[r] = 1 /\ pc'[r] = 2
                         /\ copy'[r] = Edited(r, Contents(On(r))) /\ base'[r] = writes[On(r)]
           /\ Read(r) => /\ Edits(r) /\ pc[r] = 2 /\ pc'[r] \in {Refused, 3}
                         /\ old'[r] = Contents(On(r))
                         /\ Does(r, {"edit"}) => copy'[r] = copy[r] /\ base'[r] = base[r]
                         /\ ~Does(r, {"edit"}) => /\ copy'[r] = Edited(r, Contents(On(r)))
                                                  /\ base'[r] = writes[On(r)]
<1>0. do[r] \in Call /\ pc \in [Req -> Nat] /\ r \in DOMAIN copy /\ r \in DOMAIN old /\ r \in DOMAIN base
  BY DEF TypeOK
<1>1. ASSUME View(r)
      PROVE  /\ Does(r, {"edit"}) /\ pc[r] = 1 /\ pc'[r] = 2
             /\ copy'[r] = Edited(r, Contents(On(r))) /\ base'[r] = writes[On(r)]
  <2>1. Does(r, {"edit"}) /\ pc[r] = 1 /\ pc'[r] = 2
    BY <1>0, <1>1, AtRead DEF View, Take
  <2> QED
    BY <1>0, <1>1, <2>1 DEF View, Edited
<1>2. ASSUME Read(r)
      PROVE  /\ Edits(r) /\ pc[r] = 2 /\ pc'[r] \in {Refused, 3}
             /\ old'[r] = Contents(On(r))
             /\ copy'[r] = Changed(r, Contents(On(r)))
             /\ base'[r] = IF Does(r, {"edit"}) THEN base[r] ELSE writes[On(r)]
  <2>1. Does(r, {"message", "resolve", "connect", "edit"}) /\ pc[r] = 2 /\ pc'[r] \in {Refused, 3}
    BY <1>0, <1>2, AtRead DEF Read, Take
  <2>2. Edits(r)
    BY <2>1 DEF Edits, BodyAt, Does
  <2> QED
    BY <1>0, <1>2, <2>1, <2>2 DEF Read
<1>3. Does(r, {"edit"}) => Changed(r, Contents(On(r))) = copy[r]
  BY DEF Changed, Does
<1>4. ~Does(r, {"edit"}) /\ Edits(r) => Changed(r, Contents(On(r))) = Edited(r, Contents(On(r)))
  BY DEF Edited, Edits, Makes
<1> QED
  BY <1>1, <1>2, <1>3, <1>4

(* A request that is past its body keeps the copies it had. *)
LEMMA WriterStands ==
    ASSUME TypeOK, NEW r \in Req, Step(r), Placed(r), NEW q \in Req, Writes(q),
           pc[q] = Refused \/ pc[q] > BodyAt[do[q].call]
    PROVE  copy'[q] = copy[q] /\ old'[q] = old[q] /\ (pc'[q] = Refused \/ pc'[q] > BodyAt[do[q].call])
<1>1. CASE q # r
  BY <1>1, OthersWait
<1>2. CASE q = r
  <2>1. BodyAt[do[r].call] \in {2, 3, 4, 5}
    BY <1>2 DEF Writes, Edits, Makes, BodyAt
  <2>2. pc[r] \in Nat /\ pc[r] > BodyAt[do[r].call] /\ pc'[r] \in {Refused, pc[r], pc[r] + 1, pc[r] + 2}
    BY <1>2, StepPlaces DEF TypeOK, Refused
  <2>3. ~View(r) /\ ~Read(r)
    BY <2>1, <2>2, CopyTaken
  <2>4. ~UpsertElement(r)
    <3>1. UpsertElement(r) => \/ Does(r, {"interaction", "fragment"}) /\ pc[r] = 2
                              \/ Does(r, {"information"}) /\ pc[r] = 1
                              \/ Does(r, {"freeze"})
      BY AtWrite DEF UpsertElement, Take, TypeOK
    <3> QED
      BY <1>2, <2>2, <3>1 DEF Does, Writes, Edits, Makes, BodyAt
  <2>5. copy' = copy /\ old' = old
    BY <2>3, <2>4, StepCopies
  <2> QED
    BY <1>2, <2>1, <2>2, <2>5 DEF Refused
<1> QED
  BY <1>1, <1>2

(* Messages stay in order: every row is a copy, and a copy an edit of a row. *)
LEMMA StepNumbered ==
    ASSUME TypeOK, AllNumbered, NEW r \in Req, Step(r)
    PROVE  AllNumbered'
<1>1. ASSUME NEW e \in Id PROVE Numbered(Contents(e))'
  <2>1. Contents(e)' \in {Contents(e), copy[r], Blank}
    BY StepRows DEF RowKept, Written, Erased
  <2>2. Numbered(Contents(e)) /\ Numbered(copy[r]) /\ Numbered(Blank)
    BY BlankTyped DEF AllNumbered
  <2> QED
    BY <2>1, <2>2 DEF Numbered
<1>2. ASSUME NEW q \in Req PROVE Numbered(copy[q])'
  <2>0. Numbered(copy[q]) /\ On(r) \in Id /\ do[r] \in Call
    BY CallTyped DEF AllNumbered, TypeOK
  <2>1. CASE copy'[q] = copy[q]
    BY <2>0, <2>1 DEF Numbered
  <2>2. CASE copy'[q] = Edited(r, Contents(On(r))) /\ Edits(r)
    <3>1. Numbered(Contents(On(r))) /\ Contents(On(r)) \in Body
      BY <2>0, ContentsTyped DEF AllNumbered
    <3>2. Numbered(Edited(r, Contents(On(r))))
      BY <2>0, <2>2, <3>1, EditedIs DEF Writes
    <3> QED
      BY <2>2, <3>2 DEF Numbered
  <2>3. CASE copy'[q] = [Blank EXCEPT !.rest = do[r].value]
    <3>1. copy'[q].messages = << >>
      BY <2>3 DEF Blank
    <3> QED
      BY <3>1 DEF Numbered
  <2>4. Does(r, {"edit"}) => Edits(r)
    BY DEF Does, Edits, BodyAt
  <2> QED
    BY <2>1, <2>2, <2>3, <2>4, OthersWait, StepCopies, CopyTaken
<1> QED
  BY <1>1, <1>2 DEF AllNumbered

(* The steps of a request that edits a body. *)
LEMMA EditorSteps ==
    ASSUME TypeOK, NEW r \in Req, Step(r), Edits(r)
    PROVE  /\ ~UpsertElement(r) /\ ~Erase(r) /\ ~Remove(r) /\ ~CreateEdge(r)
           /\ \/ View(r) \/ Read(r) \/ pc'[r] = Refused
              \/ pc[r] = 1 /\ pc'[r] = 2 /\ ~Does(r, {"edit"}) /\ ~UpsertBody(r) /\ On(r) \in elements
              \/ pc[r] \in 3..(BodyAt[do[r].call] - 1) /\ pc'[r] = pc[r] + 1 /\ ~UpsertBody(r)
              \/ UpsertBody(r) /\ pc[r] = BodyAt[do[r].call] /\ pc'[r] = pc[r] + 1
              \/ RecordCommit(r) /\ pc[r] = BodyAt[do[r].call] + 1 /\ pc'[r] = pc[r] + 1 /\ ~UpsertBody(r)
<1>0. /\ do[r] \in Call /\ pc \in [Req -> Nat]
      /\ Does(r, {"message"}) \/ Does(r, {"resolve"}) \/ Does(r, {"connect"}) \/ Does(r, {"edit"})
      /\ ~Does(r, {"interaction", "fragment"}) /\ ~Does(r, {"information"}) /\ ~Does(r, {"freeze"})
      /\ ~Does(r, {"fragment", "freeze"}) /\ ~Does(r, {"delete"}) /\ ~Does(r, {"drag"}) /\ ~Does(r, {"save"})
  BY DEF TypeOK, Edits, BodyAt, Does
<1>1. ASSUME NEW step, NEW ok, Take(r, step, ok) PROVE At(r, step) /\ pc'[r] \in {Refused, pc[r] + 1}
  BY <1>0, <1>1 DEF Take
<1>2. /\ BodyAt[do[r].call] \in {3, 4, 5}
      /\ Does(r, {"resolve"}) => BodyAt[do[r].call] = 4
      /\ Does(r, {"connect"}) => BodyAt[do[r].call] = 5
      /\ BodyAt[do[r].call] + 1 = Len(Steps(r))
  <2>1. CASE Does(r, {"message"}) \/ Does(r, {"edit"})
    <3>1. BodyAt[do[r].call] = 3 /\ ~Does(r, {"resolve"}) /\ ~Does(r, {"connect"})
      BY <2>1 DEF BodyAt, Does
    <3>2. Len(Steps(r)) = 4
      BY <1>0, <2>1, FlowLength DEF Does
    <3> QED
      BY <3>1, <3>2
  <2>2. CASE Does(r, {"resolve"})
    <3>1. BodyAt[do[r].call] = 4 /\ ~Does(r, {"connect"})
      BY <2>2 DEF BodyAt, Does
    <3>2. Len(Steps(r)) = 5
      BY <1>0, <2>2, FlowLength DEF Does
    <3> QED
      BY <3>1, <3>2
  <2>3. CASE Does(r, {"connect"})
    <3>1. BodyAt[do[r].call] = 5 /\ ~Does(r, {"resolve"})
      BY <2>3 DEF BodyAt, Does
    <3>2. Len(Steps(r)) = 6
      BY <1>0, <2>3, FlowLength
    <3> QED
      BY <3>1, <3>2
  <2> QED
    BY <1>0, <2>1, <2>2, <2>3
<1>3. ~UpsertElement(r) /\ ~Erase(r) /\ ~Remove(r) /\ ~CreateEdge(r) /\ ~UpsertPosition(r) /\ ~SaveQuery(r)
  BY <1>0, <1>1, AtWrite DEF UpsertElement, Erase, Remove, CreateEdge, UpsertPosition, SaveQuery
<1>4. ~Recall(r) /\ ~Traverse(r)
  BY <1>0, <1>1, AtRead DEF Recall, Traverse
<1>5. UpsertBody(r) => pc[r] = BodyAt[do[r].call] /\ pc'[r] = pc[r] + 1
  BY <1>0, AtWrite DEF UpsertBody, Take
<1>6. CASE Check(r)
  <2>1. /\ pc[r] = 1 /\ pc'[r] \in {Refused, 2} /\ ~Does(r, {"edit"})
        /\ pc'[r] # Refused => On(r) \in elements
    <3>1. Take(r, "check", /\ On(r) \in elements
                           /\ do[r].call \in DOMAIN Expects => Kind[On(r)] = Expects[do[r].call])
      BY <1>6 DEF Check
    <3>2. At(r, "check") /\ pc'[r] \in {Refused, pc[r] + 1}
      BY <1>0, <3>1 DEF Take
    <3>3. pc[r] = 1 /\ ~Does(r, {"edit", "freeze", "information", "drag"})
      BY <1>0, <3>2, AtRead
    <3>4. pc'[r] # Refused => On(r) \in elements
      BY <1>0, <3>1 DEF Take
    <3> QED
      BY <3>2, <3>3, <3>4 DEF Does
  <2> QED
    BY <1>2, <1>3, <1>5, <2>1
<1>7. CASE Constraints(r) \/ ReadPrerequisite(r, "source") \/ ReadPrerequisite(r, "target")
  <2>1. /\ Constraints(r) => pc[r] = 3 /\ Does(r, {"resolve"})
        /\ ReadPrerequisite(r, "source") => pc[r] = 3 /\ Does(r, {"connect"})
        /\ ReadPrerequisite(r, "target") => pc[r] = 4 /\ Does(r, {"connect"})
        /\ pc'[r] \in {Refused, pc[r] + 1}
    BY <1>0, <1>1, <1>7, AtRead DEF Constraints, ReadPrerequisite
  <2> QED
    BY <1>2, <1>3, <1>5, <1>7, <2>1
<1>8. CASE RecordCommit(r)
  <2>1. ~At(r, "link")
    BY <1>0, AtWrite
  <2>2. pc[r] = Len(Steps(r)) /\ pc'[r] = pc[r] + 1
    BY <1>0, <1>8, <2>1, AtWrite DEF RecordCommit, Take
  <2>3. pc[r] = BodyAt[do[r].call] + 1
    BY <1>2, <2>2
  <2> QED
    BY <1>2, <1>3, <1>5, <1>8, <2>2, <2>3
<1>9. CASE Fail(r)
  BY <1>0, <1>3, <1>9 DEF Fail
<1> QED
  BY <1>3, <1>4, <1>5, <1>6, <1>7, <1>8, <1>9 DEF Step

(* What an editor makes of the row as it is after a step. *)
LEMMA EditedAfter ==
    ASSUME do' = do, NEW q \in Req, Edits(q)
    PROVE  Edited(q, Contents(On(q)))' = Edited(q, Contents(On(q))')
BY DEF Edited, Changed, Does, Edits, Makes, On, Contents

(* A copy stays as fresh as its base says, whoever writes in between. *)
LEMMA StepCopyFresh ==
    ASSUME TypeOK, NEW r \in Req, Step(r), NEW q \in Req, CopyIsFresh(q)
    PROVE  CopyIsFresh(q)'
<1> DEFINE e == On(q)
<1> SUFFICES ASSUME Edits(q),
                    pc'[q] \in 3..BodyAt[do[q].call] \/ (Does(q, {"edit"}) /\ pc'[q] = 2)
             PROVE  /\ Len(base'[q]) <= Len(writes'[e])
                    /\ base'[q] = writes'[e] => /\ copy'[q] = Edited(q, Contents(e))'
                                                /\ pc'[q] >= 3 => old'[q] = Contents(e)'
  <2>1. Edits(q)' = Edits(q) /\ On(q)' = On(q) /\ Does(q, {"edit"})' = Does(q, {"edit"}) /\ do' = do
    BY PcMoves, Doing
  <2> QED
    BY <2>1 DEF CopyIsFresh
<1>0. /\ e \in Id /\ do' = do /\ On(q)' = On(q) /\ pc[q] \in Nat /\ base[q] \in Seq(Req) /\ writes[e] \in Seq(Req)
      /\ BodyAt[do[q].call] \in {3, 4, 5} /\ do[q] \in Call
  <2>1. do' = do /\ On(q)' = On(q)
    BY PcMoves, Doing
  <2>2. do[q] \in Call /\ e \in Id
    BY CallTyped DEF TypeOK
  <2>3. BodyAt[do[q].call] \in {3, 4, 5}
    BY DEF Edits, BodyAt
  <2> QED
    BY <2>1, <2>2, <2>3 DEF TypeOK
<1>1. Edited(q, Contents(e))' = Edited(q, Contents(e)') /\ (Contents(e)' = Contents(e) => Edited(q, Contents(e)') = Edited(q, Contents(e)))
  BY <1>0, EditedAfter
<1>2. CASE q # r
  <2>1. pc'[q] = pc[q] /\ old'[q] = old[q] /\ copy'[q] = copy[q] /\ base'[q] = base[q]
    BY <1>2, OthersWait
  <2>2. /\ Len(base[q]) <= Len(writes[e])
        /\ base[q] = writes[e] => /\ copy[q] = Edited(q, Contents(e))
                                  /\ pc[q] >= 3 => old[q] = Contents(e)
    BY <2>1 DEF CopyIsFresh
  <2>3. CASE RowKept(e)
    BY <1>1, <2>1, <2>2, <2>3 DEF RowKept
  <2>4. CASE writes'[e] = Append(writes[e], r)
    <3>1. Len(writes'[e]) = Len(writes[e]) + 1 /\ Len(base[q]) \in Nat /\ Len(writes[e]) \in Nat
      BY <1>0, <2>4
    <3>2. base[q] # writes'[e]
      BY <2>2, <3>1
    <3> QED
      BY <2>1, <2>2, <3>1, <3>2
  <2> QED
    BY <1>0, <2>3, <2>4, StepRows DEF Written, Erased
<1>3. CASE q = r
  <2>1. ~UpsertBody(r)
    <3>1. UpsertBody(r) => pc[r] = BodyAt[do[r].call] /\ pc'[r] = pc[r] + 1
      BY <1>0, <1>3, AtWrite DEF UpsertBody, Take, TypeOK, Edits, BodyAt, Does
    <3> QED
      BY <1>0, <1>3, <3>1
  <2>2. RowKept(e)
    BY <1>0, <1>3, <2>1, StepRows, EditorSteps DEF Written, Erased
  <2>3. CASE View(r)
    BY <1>0, <1>1, <1>3, <2>2, <2>3, CopyTaken DEF RowKept
  <2>4. CASE Read(r)
    <3>1. CASE ~Does(r, {"edit"})
      BY <1>0, <1>1, <1>3, <2>2, <2>4, <3>1, CopyTaken DEF RowKept
    <3>2. CASE Does(r, {"edit"})
      <4>1. pc[r] = 2 /\ old'[r] = Contents(e) /\ copy'[r] = copy[r] /\ base'[r] = base[r]
        BY <1>3, <2>4, <3>2, CopyTaken
      <4>2. /\ Len(base[q]) <= Len(writes[e])
            /\ base[q] = writes[e] => copy[q] = Edited(q, Contents(e))
        BY <1>3, <3>2, <4>1 DEF CopyIsFresh
      <4> QED
        BY <1>1, <1>3, <2>2, <4>1, <4>2 DEF RowKept
    <3> QED
      BY <3>1, <3>2
  <2>5. CASE ~View(r) /\ ~Read(r)
    <3>1. pc[r] \in 3..BodyAt[do[r].call]
      <4>1. /\ pc[r] \in Nat /\ BodyAt[do[r].call] \in {3, 4, 5} /\ Edits(r)
            /\ pc'[r] \in 3..BodyAt[do[r].call] \/ (Does(r, {"edit"}) /\ pc'[r] = 2)
        BY <1>0, <1>3
      <4>2. \/ pc'[r] = 0
            \/ pc[r] = 1 /\ pc'[r] = 2 /\ ~Does(r, {"edit"})
            \/ pc[r] \in 3..(BodyAt[do[r].call] - 1)
            \/ pc[r] = BodyAt[do[r].call] + 1 /\ pc'[r] = pc[r] + 1
        BY <2>1, <2>5, <4>1, EditorSteps DEF Refused
      <4> QED
        BY <4>1, <4>2
    <3>2. copy' = copy /\ old' = old /\ base' = base
      BY <1>3, <2>5, EditorSteps, StepCopies
    <3>3. /\ Len(base[q]) <= Len(writes[e])
          /\ base[q] = writes[e] => copy[q] = Edited(q, Contents(e)) /\ old[q] = Contents(e)
      BY <1>0, <1>3, <3>1 DEF CopyIsFresh
    <3> QED
      BY <1>1, <2>2, <3>2, <3>3 DEF RowKept
  <2> QED
    BY <2>3, <2>4, <2>5
<1> QED
  BY <1>2, <1>3

----------------------------------------------------------------------------
(* The writers of a row. *)

(* Who has still to create an element. *)
LEMMA AheadIs ==
    ASSUME NEW r \in Req, do[r] \in Call, pc[r] \in Nat
    PROVE  Ahead(r) <=> \/ Does(r, {"interaction", "fragment"}) /\ pc[r] \in 1..2
                        \/ Does(r, {"information"}) /\ pc[r] = 1
                        \/ Does(r, {"freeze"}) /\ pc[r] \in 1..3
BY FlowOf DEF Ahead, Does

(* An element's creation is not behind its creator for long. *)
LEMMA AheadShrinks ==
    ASSUME TypeOK, NEW r \in Req, Step(r), Placed(r), NEW q \in Req
    PROVE  Ahead(q)' => Ahead(q)
<1>0. do' = do /\ do[q] \in Call /\ pc[q] \in Nat /\ pc'[q] \in Nat /\ Steps(q)' = Steps(q)
  BY PcMoves, PcTyped, Doing DEF TypeOK
<1>1. CASE q # r
  BY <1>0, <1>1, OthersWait DEF Ahead
<1>2. CASE q = r
  BY <1>0, <1>2, StepPlaces DEF Ahead, Refused
<1> QED
  BY <1>1, <1>2

(* The steps of a request that makes an element with a body. *)
LEMMA MakerSteps ==
    ASSUME TypeOK, NEW r \in Req, Step(r), Placed(r), Makes(r)
    PROVE  /\ ~View(r) /\ ~Read(r) /\ ~Erase(r) /\ ~Remove(r)
           /\ \/ pc'[r] = Refused
              \/ UpsertElement(r) /\ pc[r] = BodyAt[do[r].call] - 1 /\ pc'[r] = pc[r] + 1 /\ ~UpsertBody(r)
              \/ UpsertBody(r) /\ pc[r] = BodyAt[do[r].call] /\ pc'[r] = pc[r] + 1
              \/ pc[r] > BodyAt[do[r].call] /\ pc'[r] >= pc[r] /\ ~UpsertBody(r) /\ ~UpsertElement(r)
              \/ pc[r] < BodyAt[do[r].call] - 1 /\ pc'[r] = pc[r] + 1 /\ ~UpsertBody(r) /\ ~UpsertElement(r)
<1>0. /\ do[r] \in Call /\ pc[r] \in Nat /\ BodyAt[do[r].call] \in {2, 3}
      /\ pc[r] \in 1..Len(Steps(r)) /\ pc'[r] \in {Refused, pc[r], pc[r] + 1, pc[r] + 2}
      /\ DOMAIN Steps(r) = 1..Len(Steps(r)) /\ pc \in [Req -> Nat]
  BY StepPlaces, FlowLength DEF TypeOK, Makes, BodyAt
<1>1. \/ Does(r, {"interaction"}) /\ BodyAt[do[r].call] = 3 /\ Steps(r) = <<"check", "element", "body", "commit">>
      \/ Does(r, {"fragment"}) /\ BodyAt[do[r].call] = 3 /\ Steps(r) = <<"check", "element", "body", "link", "commit">>
      \/ Does(r, {"information"}) /\ BodyAt[do[r].call] = 2 /\ Steps(r) = <<"element", "body", "commit">>
  <2>1. Does(r, {"interaction"}) \/ Does(r, {"fragment"}) \/ Does(r, {"information"})
    BY DEF Makes, Does
  <2>2. /\ Does(r, {"interaction"}) => BodyAt[do[r].call] = 3
        /\ Does(r, {"fragment"}) => BodyAt[do[r].call] = 3
        /\ Does(r, {"information"}) => BodyAt[do[r].call] = 2
    BY DEF BodyAt, Does
  <2>3. /\ Does(r, {"interaction"}) => Steps(r) = <<"check", "element", "body", "commit">>
        /\ Does(r, {"fragment"}) => Steps(r) = <<"check", "element", "body", "link", "commit">>
        /\ Does(r, {"information"}) => Steps(r) = <<"element", "body", "commit">>
    BY <1>0, FlowOf
  <2> QED
    BY <2>1, <2>2, <2>3
<1>2. /\ pc[r] < BodyAt[do[r].call] - 1 => Steps(r)[pc[r]] = "check"
      /\ pc[r] = BodyAt[do[r].call] - 1 => Steps(r)[pc[r]] = "element"
      /\ pc[r] = BodyAt[do[r].call] => Steps(r)[pc[r]] = "body"
      /\ pc[r] > BodyAt[do[r].call] => Steps(r)[pc[r]] \in {"link", "commit"}
  BY <1>0, <1>1
<1>3. Steps(r)[pc[r]] \in {"check", "element", "body", "link", "commit"}
  BY <1>0, <1>2
<1>4. /\ ~View(r) /\ ~Read(r) /\ ~Erase(r) /\ ~Remove(r) /\ ~Constraints(r)
      /\ ~ReadPrerequisite(r, "source") /\ ~ReadPrerequisite(r, "target") /\ ~Recall(r) /\ ~Traverse(r)
      /\ ~UpsertPosition(r) /\ ~SaveQuery(r)
  BY <1>3 DEF View, Read, Erase, Remove, Constraints, ReadPrerequisite, Recall, Traverse, UpsertPosition, SaveQuery,
              Take, At
<1>5. /\ Check(r) => Steps(r)[pc[r]] = "check" /\ pc'[r] \in {Refused, pc[r] + 1}
      /\ UpsertElement(r) => Steps(r)[pc[r]] = "element" /\ pc'[r] = pc[r] + 1
      /\ UpsertBody(r) => Steps(r)[pc[r]] = "body" /\ pc'[r] = pc[r] + 1
      /\ CreateEdge(r) => Steps(r)[pc[r]] = "link"
      /\ RecordCommit(r) => Steps(r)[pc[r]] \in {"link", "commit"}
      /\ Fail(r) => pc'[r] = Refused
  <2>1. ASSUME NEW step, NEW ok, Take(r, step, ok)
        PROVE  Steps(r)[pc[r]] = step /\ pc'[r] = IF ok THEN pc[r] + 1 ELSE Refused
    BY <1>0, <2>1 DEF Take, At
  <2>2. Check(r) => Steps(r)[pc[r]] = "check" /\ pc'[r] \in {Refused, pc[r] + 1}
    <3>1. Check(r) => \E ok \in BOOLEAN : Take(r, "check", ok)
      BY DEF Check
    <3> QED
      BY <2>1, <3>1
  <2>3. /\ UpsertElement(r) => Steps(r)[pc[r]] = "element" /\ pc'[r] = pc[r] + 1
        /\ UpsertBody(r) => Steps(r)[pc[r]] = "body" /\ pc'[r] = pc[r] + 1
    BY <2>1 DEF UpsertElement, UpsertBody
  <2>4. /\ CreateEdge(r) => Steps(r)[pc[r]] = "link"
        /\ RecordCommit(r) => Steps(r)[pc[r]] \in {"link", "commit"}
        /\ Fail(r) => pc'[r] = Refused
    BY <1>0, <2>1 DEF CreateEdge, RecordCommit, Fail, At
  <2> QED
    BY <2>2, <2>3, <2>4
<1>6. Check(r) \/ UpsertElement(r) \/ UpsertBody(r) \/ CreateEdge(r) \/ RecordCommit(r) \/ Fail(r)
  BY <1>4 DEF Step
<1>7. pc[r] < BodyAt[do[r].call] - 1 \/ pc[r] = BodyAt[do[r].call] - 1 \/ pc[r] = BodyAt[do[r].call]
      \/ pc[r] > BodyAt[do[r].call]
  BY <1>0
<1> QED
  BY <1>0, <1>2, <1>4, <1>5, <1>6, <1>7 DEF Refused

(* What was made of nothing stays so until it is written. *)
LEMMA StepMade ==
    ASSUME TypeOK, NEW r \in Req, Step(r), Placed(r), NEW q \in Req, MadeOfNothing(q)
    PROVE  MadeOfNothing(q)'
<1>0. do' = do /\ Makes(q)' = Makes(q) /\ BodyAt[do'[q].call] = BodyAt[do[q].call] /\ pc[q] \in Nat
  BY PcMoves, Doing DEF TypeOK
<1>1. Makes(q) => Edited(q, Blank)' = Edited(q, Blank) /\ Edited(q, Blank) = [Blank EXCEPT !.rest = do[q].value]
  BY <1>0 DEF Edited, Makes
<1>2. CASE q # r
  BY <1>0, <1>1, <1>2, OthersWait DEF MadeOfNothing
<1>3. CASE q = r /\ Makes(r)
  <2>0. BodyAt[do[r].call] \in {2, 3}
    BY <1>3 DEF Makes, BodyAt
  <2>1. old' = old /\ base' = base
    BY <1>3, StepCopies, MakerSteps
  <2>2. pc'[r] = BodyAt[do[r].call] => UpsertElement(r)
    BY <1>0, <1>3, <2>0, MakerSteps DEF Refused
  <2>3. UpsertElement(r) => copy'[r] = [Blank EXCEPT !.rest = do[r].value]
    BY DEF UpsertElement, TypeOK
  <2> QED
    BY <1>0, <1>1, <1>3, <2>1, <2>2, <2>3 DEF MadeOfNothing
<1> QED
  BY <1>0, <1>2, <1>3 DEF MadeOfNothing

(* A step of a writer that is not its write leaves it on the side of its *)
(* write where it was, or refuses it. *)
LEMMA SidesKept ==
    ASSUME TypeOK, NEW r \in Req, Step(r), Placed(r), NEW q \in Req, Writes(q)
    PROVE  /\ pc'[q] > BodyAt[do[q].call] => pc[q] > BodyAt[do[q].call] \/ (q = r /\ UpsertBody(r))
           /\ pc[q] = Refused \/ pc[q] > BodyAt[do[q].call] =>
                 pc'[q] = Refused \/ pc'[q] > BodyAt[do[q].call]
<1>0. /\ pc[q] \in Nat /\ pc'[q] \in Nat /\ BodyAt[do[q].call] \in {2, 3, 4, 5} /\ do[q] \in Call
      /\ Edits(q) => BodyAt[do[q].call] \in {3, 4, 5}
  BY PcTyped DEF TypeOK, Writes, Edits, Makes, BodyAt
<1>1. CASE q # r
  BY <1>1, OthersWait
<1>2. CASE q = r
  <2>1. pc[r] # Refused
    BY StepPlaces DEF Refused
  <2>2. CASE Edits(r)
    <3>1. /\ View(r) => pc'[r] = 2 /\ pc[r] = 1
          /\ Read(r) => pc[r] = 2 /\ pc'[r] \in {Refused, 3}
      BY CopyTaken
    <3>2. \/ View(r) \/ Read(r) \/ pc'[r] = Refused
          \/ pc[r] = 1 /\ pc'[r] = 2
          \/ pc[r] \in 3..(BodyAt[do[r].call] - 1) /\ pc'[r] = pc[r] + 1
          \/ UpsertBody(r) /\ pc[r] = BodyAt[do[r].call] /\ pc'[r] = pc[r] + 1
          \/ pc[r] = BodyAt[do[r].call] + 1 /\ pc'[r] = pc[r] + 1
      BY <2>2, EditorSteps
    <3> QED
      BY <1>0, <1>2, <2>1, <2>2, <3>1, <3>2 DEF Refused
  <2>3. CASE Makes(r)
    <3>1. \/ pc'[r] = Refused
          \/ pc[r] = BodyAt[do[r].call] - 1 /\ pc'[r] = pc[r] + 1
          \/ UpsertBody(r) /\ pc[r] = BodyAt[do[r].call] /\ pc'[r] = pc[r] + 1
          \/ pc[r] > BodyAt[do[r].call] /\ pc'[r] >= pc[r]
          \/ pc[r] < BodyAt[do[r].call] - 1 /\ pc'[r] = pc[r] + 1
      BY <2>3, MakerSteps
    <3> QED
      BY <1>0, <1>2, <2>1, <3>1 DEF Refused
  <2> QED
    BY <1>2, <2>2, <2>3 DEF Writes
<1> QED
  BY <1>1, <1>2

(* Elements do not come back, nor do deleted ones. *)
LEMMA StepElements ==
    ASSUME TypeOK, NEW r \in Req, Step(r)
    PROVE  /\ elements' \ {r} \subseteq elements
           /\ elements \ {On(r)} \subseteq elements'
           /\ Remove(r) \/ elements \subseteq elements'
           /\ UpsertElement(r) \/ elements' \subseteq elements
<1>1. CASE Reads(r)
  BY <1>1 DEF Reads, Check, Constraints, ReadPrerequisite, Recall, Traverse, Fail, stores
<1>2. CASE View(r) \/ Read(r)
  BY <1>2 DEF View, Read, stores
<1>3. CASE UpsertElement(r)
  BY <1>3 DEF UpsertElement
<1>4. CASE Remove(r)
  BY <1>4 DEF Remove
<1>5. CASE UpsertBody(r) \/ CreateEdge(r) \/ RecordCommit(r) \/ UpsertPosition(r) \/ SaveQuery(r) \/ Erase(r)
  BY <1>5 DEF UpsertBody, CreateEdge, RecordCommit, UpsertPosition, SaveQuery, Erase
<1> QED
  BY <1>1, <1>2, <1>3, <1>4, <1>5 DEF Step, Reads

(* A row that nobody wrote stays as good as none. *)
LEMMA StepBlankAtFirst ==
    ASSUME TypeOK, NEW r \in Req, Step(r), NEW e \in Id, BlankAtFirst(e)
    PROVE  BlankAtFirst(e)'
<1>1. writes[e] \in Seq(Req)
  BY DEF TypeOK
<1>2. Append(writes[e], r) # << >>
  BY <1>1
<1> QED
  BY <1>2, StepRows DEF BlankAtFirst, RowKept, Written, Erased

(* delete_element begins with a look at the element. *)
LEMMA DeleterBegins ==
    ASSUME TypeOK, NEW r \in Req, Step(r), Does(r, {"delete"}), pc[r] = 1
    PROVE  pc'[r] = Refused \/ On(r) \in elements
<1>1. Steps(r)[pc[r]] = "check" /\ pc \in [Req -> Nat]
  BY FlowOf DEF TypeOK, Does
<1>2. Check(r)
  BY <1>1 DEF Step, Check, View, Read, Constraints, ReadPrerequisite, Recall, Traverse, UpsertElement, UpsertBody,
              CreateEdge, RecordCommit, UpsertPosition, SaveQuery, Remove, Erase, Fail, Take, At
<1> QED
  BY <1>1, <1>2 DEF Check, Take

(* An element that was not created is not known to anybody. *)
LEMMA StepUnborn ==
    ASSUME TypeOK, CreatedOnce, NEW r \in Req, Step(r), Placed(r), NEW e \in Id, Unborn(e)
    PROVE  Unborn(e)'
<1> SUFFICES ASSUME e \in Req, Ahead(e)'
             PROVE  /\ writes'[e] = << >>
                    /\ \A q \in Req : (On(q) = e /\ (Edits(q) \/ Does(q, {"delete"}))) => pc'[q] \in {Refused, 1}
  <2>1. \A q \in Req : On(q)' = On(q) /\ Edits(q)' = Edits(q) /\ Does(q, {"delete"})' = Does(q, {"delete"})
    BY PcMoves, Doing
  <2> QED
    BY <2>1 DEF Unborn
<1>1. /\ Ahead(e) /\ writes[e] = << >> /\ e \notin elements /\ e \notin Element
      /\ \A q \in Req : (On(q) = e /\ (Edits(q) \/ Does(q, {"delete"}))) => pc[q] \in {Refused, 1}
  BY AheadShrinks, NothingAssumption DEF Unborn, CreatedOnce
<1>2. do[r] \in Call /\ do[e] \in Call /\ pc[e] \in Nat /\ pc[r] \in Nat /\ pc[r] \in 1..Len(Steps(r))
  BY StepPlaces DEF TypeOK
<1>3. ~Written(r, e)
  <2>1. Written(r, e) => At(r, "body") /\ Target(r) = e
    BY DEF Written, UpsertBody, Take
  <2>2. At(r, "body") => \/ Edits(r) /\ pc[r] = BodyAt[do[r].call] /\ Target(r) = On(r)
                         \/ Does(r, {"interaction", "fragment"}) /\ pc[r] = 3 /\ Target(r) = r
                         \/ Does(r, {"information"}) /\ pc[r] = 2 /\ Target(r) = r
    BY <1>2, AtWrite
  <2>3. Edits(r) => BodyAt[do[r].call] \in {3, 4, 5}
    BY DEF Edits, BodyAt
  <2>4. Ahead(e) <=> \/ Does(e, {"interaction", "fragment"}) /\ pc[e] \in 1..2
                     \/ Does(e, {"information"}) /\ pc[e] = 1
                     \/ Does(e, {"freeze"}) /\ pc[e] \in 1..3
    BY <1>2, AheadIs
  <2>5. /\ Does(e, {"interaction", "fragment"}) => ~Does(e, {"information"}) /\ ~Does(e, {"freeze"})
        /\ Does(e, {"information"}) => ~Does(e, {"freeze"})
    BY DEF Does
  <2> QED
    BY <1>1, <2>1, <2>2, <2>3, <2>4, <2>5 DEF Refused
<1>4. ~Erased(r, e)
  <2>1. Erased(r, e) => At(r, "erase") /\ On(r) = e
    BY DEF Erased, Erase, Take
  <2>2. At(r, "erase") => pc[r] = 3 /\ Does(r, {"delete"})
    BY <1>2, AtWrite
  <2> QED
    BY <1>1, <2>1, <2>2 DEF Refused
<1>5. writes'[e] = << >>
  BY <1>1, <1>3, <1>4, StepRows DEF RowKept
<1>6. ASSUME NEW q \in Req, On(q) = e, Edits(q) \/ Does(q, {"delete"}) PROVE pc'[q] \in {Refused, 1}
  <2>1. CASE q # r
    BY <1>1, <1>6, <2>1, OthersWait
  <2>2. CASE q = r
    <3>1. pc[r] = 1
      BY <1>1, <1>2, <1>6, <2>2 DEF Refused
    <3>2. CASE Does(r, {"delete"})
      BY <1>1, <1>6, <2>2, <3>1, <3>2, DeleterBegins
    <3>3. CASE Edits(r)
      <4>1. ~View(r)
        BY <1>1, <1>6, <2>2 DEF View, Known
      <4>2. ~Read(r)
        BY <3>1, CopyTaken
      <4>3. BodyAt[do[r].call] \in {3, 4, 5}
        BY <3>3 DEF Edits, BodyAt
      <4> QED
        BY <1>1, <1>6, <2>2, <3>1, <3>3, <4>1, <4>2, <4>3, EditorSteps
    <3> QED
      BY <1>6, <2>2, <3>2, <3>3
  <2> QED
    BY <2>1, <2>2
<1> QED
  BY <1>5, <1>6

(* delete_element removes the element before its row. *)
LEMMA StepDeletedFirst ==
    ASSUME TypeOK, DeletedFirst, NEW r \in Req, Step(r), Placed(r), \A e \in Id : Unborn(e)
    PROVE  DeletedFirst'
<1> SUFFICES ASSUME NEW q \in Req, Does(q, {"delete"}), pc'[q] \in 3..5
             PROVE  On(q) \notin elements'
  <2>1. \A q \in Req : Does(q, {"delete"})' = Does(q, {"delete"}) /\ On(q)' = On(q)
    BY PcMoves, Doing
  <2> QED
    BY <2>1 DEF DeletedFirst
<1>0. do[q] \in Call /\ pc[q] \in Nat /\ do[r] \in Call /\ pc[r] \in Nat /\ On(q) \in Id
  BY CallTyped DEF TypeOK
<1>1. CASE On(q) \notin elements
  <2> SUFFICES ASSUME On(q) \in elements' PROVE FALSE
    OBVIOUS
  <2>1. UpsertElement(r) /\ On(q) = r
    BY <1>1, StepElements
  <2>2. At(r, "element")
    BY <2>1 DEF UpsertElement, Take
  <2>3. Ahead(r)
    BY <2>2, StepPlaces DEF At, Ahead
  <2>4. pc[q] \in {Refused, 1}
    BY <1>0, <2>1, <2>3 DEF Unborn
  <2>5. q # r
    BY <1>0, <2>2, AtWrite DEF Does
  <2> QED
    BY <2>4, <2>5, OthersWait DEF Refused
<1>2. CASE q # r
  BY <1>0, <1>1, <1>2, OthersWait DEF DeletedFirst
<1>3. CASE q = r /\ On(q) \in elements
  <2>1. pc[r] \notin 3..5 /\ pc[r] \in 1..4
    BY <1>3, StepPlaces, FlowLength DEF DeletedFirst, Does, TypeOK
  <2>2. pc[r] \in {1, 2} /\ pc'[r] \in {3, 4}
    BY <1>3, <2>1, StepPlaces DEF Refused
  <2>3. /\ ~Does(r, {"interaction", "fragment"}) /\ ~Does(r, {"information"}) /\ ~Does(r, {"freeze"}) /\ ~Edits(r)
        /\ ~Does(r, {"fragment", "freeze"}) /\ ~Does(r, {"drag"}) /\ ~Does(r, {"save"}) /\ ~Does(r, {"edit"})
        /\ ~Does(r, {"resolve"}) /\ ~Does(r, {"connect"}) /\ ~Does(r, {"message", "resolve", "connect", "edit"})
    BY <1>3 DEF Does, Edits, BodyAt
  <2>4. Remove(r)
    <3>1. ASSUME NEW step, NEW ok, Take(r, step, ok) PROVE At(r, step) /\ pc'[r] \in {Refused, pc[r] + 1}
      BY <3>1 DEF Take, TypeOK
    <3>2. Check(r) => pc'[r] \in {0, 2}
      <4>1. Check(r) => \E ok : Take(r, "check", ok)
        BY DEF Check
      <4> QED
        BY <1>0, <1>3, <3>1, <4>1, AtRead DEF Refused
    <3>3. ~View(r) /\ ~Read(r) /\ ~Constraints(r) /\ ~ReadPrerequisite(r, "source")
          /\ ~ReadPrerequisite(r, "target") /\ ~Recall(r) /\ ~Traverse(r)
      BY <1>0, <1>3, <2>3, <3>1, AtRead DEF View, Read, Constraints, ReadPrerequisite, Recall, Traverse
    <3>4. ~UpsertElement(r) /\ ~UpsertBody(r) /\ ~CreateEdge(r) /\ ~UpsertPosition(r) /\ ~SaveQuery(r) /\ ~Erase(r)
      <4>1. /\ UpsertElement(r) => At(r, "element")
            /\ UpsertBody(r) => At(r, "body")
            /\ CreateEdge(r) => At(r, "link")
            /\ UpsertPosition(r) => At(r, "position")
            /\ SaveQuery(r) => At(r, "query")
            /\ Erase(r) => At(r, "erase")
        BY DEF UpsertElement, UpsertBody, CreateEdge, UpsertPosition, SaveQuery, Erase, Take
      <4> QED
        BY <1>0, <1>3, <2>2, <2>3, <4>1, AtWrite
    <3>5. ~RecordCommit(r)
      <4>1. RecordCommit(r) => At(r, "commit") \/ At(r, "link")
        BY DEF RecordCommit, Take
      <4>2. Len(Steps(r)) = 4
        BY <1>0, <1>3, FlowLength DEF Does
      <4> QED
        BY <1>0, <1>3, <2>2, <2>3, <4>1, <4>2, AtWrite
    <3>6. ~Fail(r)
      BY <1>0, <1>3, <2>2 DEF Fail, Refused, TypeOK
    <3> QED
      BY <2>2, <3>2, <3>3, <3>4, <3>5, <3>6 DEF Step
  <2> QED
    BY <1>3, <2>4 DEF Remove
<1> QED
  BY <1>1, <1>2, <1>3

(* The writers of a row stay known. *)
LEMMA StepWriters ==
    ASSUME TypeOK, DeletedFirst, NEW r \in Req, Step(r), Placed(r), NEW e \in Id, WritersAre(e), Unborn(e)
    PROVE  WritersAre(e)'
<1>0. /\ e \in Id /\ writes[e] \in Seq(Req) /\ Len(writes[e]) \in Nat /\ DOMAIN writes[e] = 1..Len(writes[e])
      /\ \A q \in Req : /\ do[q] \in Call /\ Writes(q)' = Writes(q) /\ Target(q)' = Target(q)
                        /\ BodyAt[do'[q].call] = BodyAt[do[q].call]
      /\ do' = do
  <2>1. do' = do /\ e \in Id
    BY PcMoves
  <2>2. writes[e] \in Seq(Req)
    BY <2>1 DEF TypeOK
  <2>3. Len(writes[e]) \in Nat /\ DOMAIN writes[e] = 1..Len(writes[e])
    BY <2>2
  <2>4. \A q \in Req : /\ do[q] \in Call /\ Writes(q)' = Writes(q) /\ Target(q)' = Target(q)
                       /\ BodyAt[do'[q].call] = BodyAt[do[q].call]
    BY <2>1, Doing DEF TypeOK
  <2> QED
    BY <2>1, <2>2, <2>3, <2>4
<1>1. e \in elements' => e \in elements \/ (writes[e] = << >> /\ writes'[e] = << >>)
  <2> SUFFICES ASSUME e \in elements', e \notin elements PROVE writes[e] = << >> /\ writes'[e] = << >>
    OBVIOUS
  <2>1. UpsertElement(r) /\ e = r
    BY StepElements
  <2>2. At(r, "element")
    BY <2>1 DEF UpsertElement, Take
  <2>3. Ahead(r)
    BY <2>2, StepPlaces DEF At, Ahead
  <2>4. writes' = writes
    BY <2>1 DEF UpsertElement, history
  <2> QED
    BY <2>1, <2>3, <2>4 DEF Unborn
<1>2. \/ writes'[e] = writes[e] /\ ~(UpsertBody(r) /\ Target(r) = e)
      \/ /\ writes'[e] = Append(writes[e], r)
         /\ \/ UpsertBody(r) /\ Target(r) = e
            \/ Erase(r) /\ On(r) = e
  <2>1. UpsertBody(r) /\ Target(r) = e => writes'[e] = Append(writes[e], r)
    BY <1>0 DEF UpsertBody, TypeOK
  <2> QED
    BY <1>0, <2>1, StepRows DEF RowKept, Written, Erased
<1>3. UpsertBody(r) => Writes(r) /\ pc[r] = BodyAt[do[r].call] /\ pc'[r] = pc[r] + 1
  <2>1. UpsertBody(r) => At(r, "body") /\ pc'[r] = pc[r] + 1
    BY DEF UpsertBody, Take, TypeOK
  <2> QED
    BY <1>0, <2>1, AtWrite
<1>4. Erase(r) /\ On(r) = e => e \notin elements /\ elements' = elements
  <2>1. Erase(r) => At(r, "erase")
    BY DEF Erase, Take
  <2>2. Erase(r) => elements' = elements
    BY DEF Erase
  <2> QED
    BY <1>0, <2>1, <2>2, AtWrite DEF DeletedFirst
<1>5. /\ writes'[e] \in Seq(Req)
      /\ DOMAIN writes[e] \subseteq DOMAIN writes'[e]
      /\ \A i \in DOMAIN writes[e] : writes'[e][i] = writes[e][i] /\ writes[e][i] \in Req
      /\ writes'[e] # writes[e] => DOMAIN writes'[e] = DOMAIN writes[e] \cup {Len(writes[e]) + 1}
                                   /\ writes'[e][Len(writes[e]) + 1] = r
      /\ Append(writes[e], r) # writes[e]
  <2>1. /\ Append(writes[e], r) \in Seq(Req) /\ DOMAIN Append(writes[e], r) = 1..(Len(writes[e]) + 1)
        /\ \A i \in 1..Len(writes[e]) : Append(writes[e], r)[i] = writes[e][i] /\ writes[e][i] \in Req
        /\ Append(writes[e], r)[Len(writes[e]) + 1] = r
        /\ Len(Append(writes[e], r)) = Len(writes[e]) + 1
    BY <1>0
  <2> QED
    BY <1>0, <1>2, <2>1
<1>6. ASSUME NEW q \in Req, Writes(q), Target(q) = e, pc'[q] > BodyAt[do[q].call]
      PROVE  \E i \in DOMAIN writes'[e] : writes'[e][i] = q
  <2>1. CASE pc[q] > BodyAt[do[q].call]
    BY <1>5, <1>6, <2>1 DEF WritersAre
  <2>2. CASE q = r /\ UpsertBody(r)
    BY <1>2, <1>5, <1>6, <2>2
  <2> QED
    BY <1>6, <2>1, <2>2, SidesKept
<1>7. ASSUME NEW i \in DOMAIN writes'[e], NEW q \in Req, writes'[e][i] = q, e \in elements'
      PROVE  Writes(q) /\ Target(q) = e /\ (pc'[q] = Refused \/ pc'[q] > BodyAt[do[q].call])
  <2>1. CASE i \in DOMAIN writes[e]
    <3>1. writes[e][i] = q
      BY <1>5, <1>7, <2>1
    <3>2. Writes(q) /\ Target(q) = e /\ (pc[q] = Refused \/ pc[q] > BodyAt[do[q].call])
      BY <1>0, <1>1, <1>7, <2>1, <3>1 DEF WritersAre
    <3> QED
      BY <3>2, SidesKept
  <2>2. CASE i \notin DOMAIN writes[e]
    <3>1. q = r
      BY <1>5, <1>7, <2>2
    <3>2. pc[r] \in Nat
      BY DEF TypeOK
    <3>3. Writes(r) => BodyAt[do[r].call] \in {2, 3, 4, 5}
      BY DEF Writes, Edits, Makes, BodyAt
    <3> QED
      BY <1>1, <1>2, <1>3, <1>4, <1>7, <2>2, <3>1, <3>2, <3>3
  <2> QED
    BY <2>1, <2>2
<1>8. ASSUME e \in elements', NEW i \in DOMAIN writes'[e], NEW j \in DOMAIN writes'[e], writes'[e][i] = writes'[e][j]
      PROVE  i = j
  <2>1. \A k \in DOMAIN writes[e] : writes[e][k] = r => ~(UpsertBody(r) /\ Target(r) = e)
    <3>1. pc[r] \in Nat /\ (Writes(r) => BodyAt[do[r].call] \in {2, 3, 4, 5})
      BY DEF TypeOK, Writes, Edits, Makes, BodyAt
    <3> QED
      BY <1>0, <1>1, <1>3, <1>8, <3>1 DEF WritersAre, Refused
  <2>2. CASE i \in DOMAIN writes[e] /\ j \in DOMAIN writes[e]
    BY <1>0, <1>1, <1>5, <1>8, <2>2 DEF WritersAre
  <2>3. CASE i \notin DOMAIN writes[e] \/ j \notin DOMAIN writes[e]
    BY <1>1, <1>2, <1>4, <1>5, <1>8, <2>1, <2>3
  <2> QED
    BY <2>2, <2>3
<1>9. \A q \in Req : (Writes(q)' /\ Target(q)' = e /\ pc'[q] > BodyAt[do'[q].call]) =>
          \E i \in DOMAIN writes'[e] : writes'[e][i] = q
  BY <1>0, <1>6
<1>10. \A i \in DOMAIN writes'[e], q \in Req : (writes'[e][i] = q /\ e \in elements') =>
          Writes(q)' /\ Target(q)' = e /\ (pc'[q] = Refused \/ pc'[q] > BodyAt[do'[q].call])
  BY <1>0, <1>7
<1> QED
  BY <1>8, <1>9, <1>10 DEF WritersAre

----------------------------------------------------------------------------
(* Each write is an edit of the last. *)

(* Only upsert_body marks a row as raced or a choice as missed, for good. *)
LEMMA MarksGrow ==
    ASSUME NEW r \in Req, Step(r)
    PROVE  /\ raced \subseteq raced' /\ missed \subseteq missed'
           /\ UpsertBody(r) \/ (raced' = raced /\ missed' = missed)
<1>1. CASE Reads(r)
  BY <1>1 DEF Reads, Check, Constraints, ReadPrerequisite, Recall, Traverse, Fail, history
<1>2. CASE View(r) \/ Read(r) \/ UpsertElement(r) \/ UpsertBody(r)
  BY <1>2 DEF View, Read, UpsertElement, UpsertBody, history
<1>3. CASE CreateEdge(r) \/ RecordCommit(r) \/ UpsertPosition(r) \/ SaveQuery(r) \/ Remove(r) \/ Erase(r)
  BY <1>3 DEF CreateEdge, RecordCommit, UpsertPosition, SaveQuery, Remove, Erase, history
<1> QED
  BY <1>1, <1>2, <1>3 DEF Step, Reads

(* A write that is not from an old copy is an edit of what the row was. *)
LEMMA WriteIsEdit ==
    ASSUME TypeOK, NEW r \in Req, UpsertBody(r), CopyIsFresh(r), MadeOfNothing(r), NEW e \in Id, Target(r) = e,
           BlankAtFirst(e)
    PROVE  /\ Writes(r) /\ pc[r] = BodyAt[do[r].call]
           /\ e \in raced' \/ (copy[r] = Edited(r, old[r]) /\ old[r] = Contents(e) /\ base[r] = writes[e])
           /\ row' = [row EXCEPT ![e] = copy[r]] /\ writes' = [writes EXCEPT ![e] = Append(@, r)]
           /\ copy' = copy /\ old' = old
<1>1. At(r, "body")
  BY DEF UpsertBody, Take
<1>2. /\ \/ Edits(r) /\ Target(r) = On(r)
         \/ Makes(r)
      /\ Writes(r) /\ pc[r] = BodyAt[do[r].call]
  <2>1. Does(r, {"interaction", "fragment"}) \/ Does(r, {"information"}) => Makes(r)
    BY DEF Makes, Does
  <2> QED
    BY <1>1, <2>1, AtWrite DEF TypeOK
<1>3. Edits(r) => pc[r] \in {3, 4, 5}
  BY <1>2 DEF Edits, BodyAt
<1>4. e \in raced' \/ writes[e] = base[r]
  BY DEF UpsertBody
<1>5. writes[e] = base[r] => copy[r] = Edited(r, old[r]) /\ old[r] = Contents(e)
  <2>1. CASE Edits(r) /\ Target(r) = On(r)
    BY <1>2, <1>3, <2>1 DEF CopyIsFresh
  <2>2. CASE Makes(r)
    BY <1>2, <2>2 DEF MadeOfNothing, BlankAtFirst
  <2> QED
    BY <1>2, <2>1, <2>2
<1> QED
  BY <1>2, <1>4, <1>5 DEF UpsertBody, locals

(* What a request made of the body it read stays so. *)
LEMMA EditedStands ==
    ASSUME do' = do, NEW q \in Req, Writes(q), old'[q] = old[q]
    PROVE  Edited(q, old[q])' = Edited(q, old[q]) /\ Does(q, {"message"})' = Does(q, {"message"})
BY DEF Edited, Changed, Does, Writes, Edits, Makes

(* A write that is not from an old copy puts an edit of the last body in its place. *)
LEMMA StepChained ==
    ASSUME TypeOK, DeletedFirst, NEW r \in Req, Step(r), Placed(r), CopyIsFresh(r), MadeOfNothing(r),
           NEW e \in Id, WritersAre(e), Chained(e), Unborn(e), BlankAtFirst(e)
    PROVE  Chained(e)'
<1> SUFFICES ASSUME e \in elements', e \notin raced'
             PROVE  /\ Contents(e)' = IF writes'[e] = << >> THEN Blank ELSE copy'[writes'[e][Len(writes'[e])]]
                    /\ \A i \in DOMAIN writes'[e], q \in Req : writes'[e][i] = q =>
                          /\ old'[q] = IF i = 1 THEN Blank ELSE copy'[writes'[e][i - 1]]
                          /\ copy'[q] = Edited(q, old[q])'
                          /\ Does(q, {"message"})' =>
                                \E n \in DOMAIN Contents(e)'.messages : Contents(e)'.messages[n].by = q
  BY DEF Chained
<1>0. /\ e \in Id /\ do' = do /\ writes[e] \in Seq(Req) /\ Len(writes[e]) \in Nat
      /\ DOMAIN writes[e] = 1..Len(writes[e])
      /\ writes[e] = << >> <=> Len(writes[e]) = 0
  <2>1. do' = do /\ e \in Id
    BY PcMoves
  <2>2. writes[e] \in Seq(Req)
    BY <2>1 DEF TypeOK
  <2> QED
    BY <2>1, <2>2
<1>1. e \notin raced
  BY MarksGrow
<1>2. CASE e \notin elements
  <2>1. UpsertElement(r) /\ e = r
    BY <1>2, StepElements
  <2>2. At(r, "element") /\ writes' = writes /\ row' = row
    BY <2>1 DEF UpsertElement, Take, history
  <2>3. Ahead(r)
    BY <2>2, StepPlaces DEF At, Ahead
  <2>4. writes'[e] = << >> /\ Contents(e)' = Blank
    BY <2>1, <2>2, <2>3 DEF Unborn, BlankAtFirst, Contents
  <2> QED
    BY <2>4
<1>3. CASE e \in elements
  <2>2. /\ Contents(e) = IF writes[e] = << >> THEN Blank ELSE copy[writes[e][Len(writes[e])]]
        /\ \A i \in DOMAIN writes[e], q \in Req : writes[e][i] = q =>
              /\ old[q] = IF i = 1 THEN Blank ELSE copy[writes[e][i - 1]]
              /\ copy[q] = Edited(q, old[q])
              /\ Does(q, {"message"}) =>
                    \E n \in DOMAIN Contents(e).messages : Contents(e).messages[n].by = q
    BY <1>1, <1>3 DEF Chained
  <2>3. ASSUME NEW i \in DOMAIN writes[e], NEW q \in Req, writes[e][i] = q
        PROVE  /\ Writes(q) /\ copy'[q] = copy[q] /\ old'[q] = old[q]
               /\ Edited(q, old[q])' = Edited(q, old[q]) /\ Does(q, {"message"})' = Does(q, {"message"})
    <3>1. Writes(q) /\ Target(q) = e /\ (pc[q] = Refused \/ pc[q] > BodyAt[do[q].call])
      BY <1>3, <2>3 DEF WritersAre
    <3> QED
      BY <1>0, <3>1, WriterStands, EditedStands
  <2>4. \A i \in DOMAIN writes[e] : writes[e][i] \in Req /\ copy'[writes[e][i]] = copy[writes[e][i]]
    BY <1>0, <2>3
  <2>5. CASE RowKept(e)
    <3>1. Contents(e)' = Contents(e) /\ writes'[e] = writes[e]
      BY <2>5 DEF RowKept
    <3>2. Contents(e) = IF writes[e] = << >> THEN Blank ELSE copy'[writes[e][Len(writes[e])]]
      BY <1>0, <2>2, <2>4
    <3>3. ASSUME NEW i \in DOMAIN writes[e], NEW q \in Req, writes[e][i] = q
          PROVE  /\ old'[q] = IF i = 1 THEN Blank ELSE copy'[writes[e][i - 1]]
                 /\ copy'[q] = Edited(q, old[q])'
                 /\ Does(q, {"message"})' =>
                       \E n \in DOMAIN Contents(e).messages : Contents(e).messages[n].by = q
      <4>1. i # 1 => i - 1 \in DOMAIN writes[e]
        BY <1>0, <3>3
      <4>2. /\ old[q] = IF i = 1 THEN Blank ELSE copy[writes[e][i - 1]]
            /\ copy[q] = Edited(q, old[q])
            /\ Does(q, {"message"}) => \E n \in DOMAIN Contents(e).messages : Contents(e).messages[n].by = q
        BY <2>2, <3>3
      <4> QED
        BY <2>3, <2>4, <3>3, <4>1, <4>2
    <3> QED
      BY <3>1, <3>2, <3>3
  <2>6. CASE Written(r, e)
    <3> DEFINE w == Append(writes[e], r)
    <3>0. /\ UpsertBody(r) /\ Target(r) = e /\ Contents(e)' = copy[r] /\ writes'[e] = w
          /\ do[r] \in Call /\ Contents(e) \in Body
      BY <1>0, <2>6, ContentsTyped DEF Written, TypeOK
    <3>1. /\ Writes(r) /\ copy[r] = Edited(r, old[r]) /\ old[r] = Contents(e) /\ copy' = copy /\ old' = old
      BY <1>0, <3>0, WriteIsEdit
    <3>2. /\ DOMAIN w = 1..(Len(writes[e]) + 1) /\ Len(w) = Len(writes[e]) + 1 /\ w # << >>
          /\ w[Len(writes[e]) + 1] = r
          /\ \A i \in 1..Len(writes[e]) : w[i] = writes[e][i]
      BY <1>0
    <3>3. copy[r] = Edited(r, Contents(e))
      BY <3>1
    <3>4. /\ Does(r, {"message"}) => \E n \in DOMAIN copy[r].messages : copy[r].messages[n].by = r
          /\ \A n \in DOMAIN Contents(e).messages : /\ n \in DOMAIN copy[r].messages
                                                    /\ copy[r].messages[n] = Contents(e).messages[n]
      BY <3>0, <3>1, <3>3, EditedIs
    <3>5. copy[r] = IF w = << >> THEN Blank ELSE copy'[w[Len(w)]]
      BY <3>1, <3>2
    <3>6. ASSUME NEW i \in DOMAIN w, NEW q \in Req, w[i] = q
          PROVE  /\ old'[q] = IF i = 1 THEN Blank ELSE copy'[w[i - 1]]
                 /\ copy'[q] = Edited(q, old[q])'
                 /\ Does(q, {"message"})' => \E n \in DOMAIN copy[r].messages : copy[r].messages[n].by = q
      <4>1. CASE i \in 1..Len(writes[e])
        <5>1. i \in DOMAIN writes[e] /\ writes[e][i] = q /\ (i # 1 => i - 1 \in 1..Len(writes[e]))
          BY <1>0, <3>2, <3>6, <4>1
        <5>2. /\ old[q] = IF i = 1 THEN Blank ELSE copy[writes[e][i - 1]]
              /\ copy[q] = Edited(q, old[q])
              /\ Does(q, {"message"}) => \E n \in DOMAIN Contents(e).messages : Contents(e).messages[n].by = q
          BY <2>2, <5>1
        <5>3. i # 1 => w[i - 1] = writes[e][i - 1]
          BY <3>2, <5>1
        <5>4. Does(q, {"message"}) => \E n \in DOMAIN copy[r].messages : copy[r].messages[n].by = q
          BY <3>4, <5>2
        <5> QED
          BY <2>3, <3>1, <5>1, <5>2, <5>3, <5>4
      <4>2. CASE i = Len(writes[e]) + 1
        <5>1. q = r /\ i - 1 = Len(writes[e])
          BY <1>0, <3>2, <3>6, <4>2
        <5>2. Edited(r, old[r])' = Edited(r, old[r]) /\ Does(r, {"message"})' = Does(r, {"message"})
          BY <1>0, <3>1, EditedStands
        <5>3. i # 1 => Len(writes[e]) \in 1..Len(writes[e]) /\ w[i - 1] = writes[e][Len(writes[e])]
          BY <1>0, <3>2, <4>2, <5>1
        <5>4. old[r] = IF i = 1 THEN Blank ELSE copy[w[i - 1]]
          BY <1>0, <2>2, <3>1, <4>2, <5>3
        <5> QED
          BY <3>1, <3>4, <5>1, <5>2, <5>4
      <4> QED
        BY <1>0, <3>2, <3>6, <4>1, <4>2
    <3> HIDE DEF w
    <3>7. \A i \in DOMAIN w, q \in Req : w[i] = q =>
             /\ old'[q] = IF i = 1 THEN Blank ELSE copy'[w[i - 1]]
             /\ copy'[q] = Edited(q, old[q])'
             /\ Does(q, {"message"})' => \E n \in DOMAIN copy[r].messages : copy[r].messages[n].by = q
      BY <3>6
    <3> QED
      BY <3>0, <3>5, <3>7
  <2>7. ~Erased(r, e)
    <3>1. Erase(r) => At(r, "erase")
      BY DEF Erase, Take
    <3> QED
      BY <1>3, <3>1, AtWrite DEF DeletedFirst, Erased, TypeOK
  <2> QED
    BY <1>0, <2>5, <2>6, <2>7, StepRows
<1> QED
  BY <1>2, <1>3

----------------------------------------------------------------------------
(* Commits. *)

(* A diff depends on the request's own copies only. *)
LEMMA EntriesKept ==
    ASSUME do' = do, NEW q \in Req, copy'[q] = copy[q], old'[q] = old[q], members'[q] = members[q]
    PROVE  Entries(q)' = Entries(q)
<1>1. /\ Does(q, {"interaction"})' = Does(q, {"interaction"}) /\ Does(q, {"information"})' = Does(q, {"information"})
      /\ Does(q, {"fragment"})' = Does(q, {"fragment"}) /\ Does(q, {"freeze"})' = Does(q, {"freeze"})
      /\ Does(q, {"message"})' = Does(q, {"message"}) /\ Does(q, {"edit"})' = Does(q, {"edit"})
      /\ Does(q, {"resolve", "connect"})' = Does(q, {"resolve", "connect"})
      /\ Does(q, {"delete"})' = Does(q, {"delete"}) /\ On(q)' = On(q)
  BY Doing
<1>2. /\ Set(q, q, "rest")' = Set(q, q, "rest")
      /\ Set(q, On(q), "messages")' = Set(q, On(q), "messages")
      /\ Set(q, On(q), "state")' = Set(q, On(q), "state")
      /\ {Set(q, On(q), k) : k \in {k \in DOMAIN Blank : copy[q][k] # old[q][k]}}'
            = {Set(q, On(q), k) : k \in {k \in DOMAIN Blank : copy[q][k] # old[q][k]}}
  BY <1>1 DEF Set
<1>3. Link(q, On(q))' = Link(q, On(q)) /\ {Link(q, m) : m \in members[q]}' = {Link(q, m) : m \in members[q]}
  BY <1>1 DEF Link
<1> QED
  BY <1>1, <1>2, <1>3 DEF Entries

(* Nothing but record_commit changes the commits. *)
LEMMA StepCommits ==
    ASSUME TypeOK, NEW r \in Req, Step(r)
    PROVE  RecordCommit(r) \/ commits' = commits
<1>1. CASE Reads(r)
  BY <1>1 DEF Reads, Check, Constraints, ReadPrerequisite, Recall, Traverse, Fail, stores
<1>2. CASE View(r) \/ Read(r) \/ UpsertElement(r) \/ UpsertBody(r)
  BY <1>2 DEF View, Read, UpsertElement, UpsertBody, stores
<1>3. CASE CreateEdge(r) \/ UpsertPosition(r) \/ SaveQuery(r) \/ Remove(r) \/ Erase(r)
  BY <1>3 DEF CreateEdge, UpsertPosition, SaveQuery, Remove, Erase
<1> QED
  BY <1>1, <1>2, <1>3 DEF Step, Reads

(* One commit for each request that ended well, with what it holds. *)
LEMMA StepCommitted ==
    ASSUME TypeOK, Committed, NEW r \in Req, Step(r), Placed(r)
    PROVE  Committed'
<1>0. /\ do' = do /\ ~Done(r) /\ do[r] \in Call
      /\ commits \in Seq([by : Req, diff : SUBSET Entry]) /\ Len(commits) \in Nat
      /\ DOMAIN commits = 1..Len(commits)
      /\ \A q \in Req : Steps(q)' = Steps(q) /\ Does(q, {"drag", "save"})' = Does(q, {"drag", "save"})
  <2>1. do' = do /\ do[r] \in Call /\ commits \in Seq([by : Req, diff : SUBSET Entry])
    BY PcMoves DEF TypeOK
  <2>2. ~Done(r)
    <3>1. pc[r] \in 1..Len(Steps(r)) /\ Len(Steps(r)) \in 1..6
      BY <2>1, StepPlaces, FlowLength
    <3> QED
      BY <3>1 DEF Done
  <2> QED
    BY <2>1, <2>2, Doing
<1>1. ASSUME NEW q \in Req, q # r PROVE Done(q)' = Done(q) /\ Entries(q)' = Entries(q)
  <2>1. pc'[q] = pc[q] /\ copy'[q] = copy[q] /\ old'[q] = old[q] /\ members'[q] = members[q]
    BY <1>1, OthersWait
  <2> QED
    BY <1>0, <2>1, EntriesKept DEF Done
<1>2. \A n \in DOMAIN commits : commits[n].by \in Req /\ commits[n].by # r
  <2>1. ASSUME NEW n \in DOMAIN commits PROVE commits[n].by \in Req
    <3>1. commits[n] \in [by : Req, diff : SUBSET Entry]
      BY <1>0, ElementOfSeq
    <3> QED
      BY <3>1
  <2> QED
    BY <1>0, <2>1 DEF Committed
<1>3. CASE RecordCommit(r)
  <2> DEFINE c == [by |-> r, diff |-> Entries(r)]
  <2>1. commits' = Append(commits, c) /\ Entries(r)' = Entries(r) /\ c.by = r /\ c.diff = Entries(r)
    BY <1>0, <1>3, EntriesKept DEF RecordCommit, locals
  <2>2. /\ DOMAIN commits' = 1..(Len(commits) + 1)
        /\ commits'[Len(commits) + 1] = c
        /\ \A n \in 1..Len(commits) : commits'[n] = commits[n]
    <3>1. c \in [by : Req, diff : SUBSET Entry]
      BY <1>3, EntriesTyped, StepPlaces
    <3> HIDE DEF c
    <3> QED
      BY <1>0, <2>1, <3>1
  <2> HIDE DEF c
  <2>3. Done(r)' /\ ~Does(r, {"drag", "save"})
    BY <1>3, StepPlaces
  <2>4. ASSUME NEW n \in DOMAIN commits', NEW q \in Req, commits'[n].by = q
        PROVE  Done(q)' /\ commits'[n].diff = Entries(q)' /\ ~Does(q, {"drag", "save"})'
    <3>1. CASE n \in DOMAIN commits
      BY <1>0, <1>1, <1>2, <2>2, <2>4, <3>1 DEF Committed
    <3>2. CASE n = Len(commits) + 1
      BY <1>0, <2>1, <2>2, <2>3, <2>4, <3>2
    <3> QED
      BY <1>0, <2>2, <2>4, <3>1, <3>2
  <2>5. ASSUME NEW n \in DOMAIN commits', NEW m \in DOMAIN commits', commits'[n].by = commits'[m].by
        PROVE  n = m
    <3>1. CASE n \in DOMAIN commits /\ m \in DOMAIN commits
      BY <1>0, <2>2, <2>5, <3>1 DEF Committed
    <3>2. CASE n = Len(commits) + 1 \/ m = Len(commits) + 1
      BY <1>0, <1>2, <2>1, <2>2, <2>5, <3>2
    <3> QED
      BY <1>0, <2>2, <2>5, <3>1, <3>2
  <2>6. ASSUME NEW q \in Req, Done(q)', ~Does(q, {"drag", "save"})
        PROVE  \E n \in DOMAIN commits' : commits'[n].by = q
    <3>1. CASE q = r
      BY <1>0, <2>1, <2>2, <3>1
    <3>2. CASE q # r
      <4>1. PICK n \in DOMAIN commits : commits[n].by = q
        BY <1>1, <2>6, <3>2 DEF Committed
      <4>2. n \in DOMAIN commits' /\ commits'[n].by = q
        BY <1>0, <2>2, <4>1
      <4> QED
        BY <4>2
    <3> QED
      BY <3>1, <3>2
  <2>7. \A q \in Req : Done(q)' /\ ~Does(q, {"drag", "save"})' => \E n \in DOMAIN commits' : commits'[n].by = q
    BY <1>0, <2>6
  <2> QED
    BY <2>4, <2>5, <2>7 DEF Committed
<1>4. CASE ~RecordCommit(r)
  <2>1. commits' = commits
    BY <1>4, StepCommits
  <2>2. Done(r)' => Does(r, {"drag", "save"})
    BY <1>4, StepPlaces
  <2>3. \A n \in DOMAIN commits, q \in Req : commits[n].by = q =>
            Done(q)' /\ commits[n].diff = Entries(q)' /\ ~Does(q, {"drag", "save"})'
    BY <1>0, <1>1, <1>2 DEF Committed
  <2>4. \A q \in Req : Done(q)' /\ ~Does(q, {"drag", "save"})' => \E n \in DOMAIN commits : commits[n].by = q
    BY <1>0, <1>1, <2>2 DEF Committed
  <2> QED
    BY <2>1, <2>3, <2>4 DEF Committed
<1> QED
  BY <1>3, <1>4

----------------------------------------------------------------------------
(* Choices. *)

(* check_constraints lets a choice go on only when the others allow it. *)
LEMMA StepChecked ==
    ASSUME TypeOK, NEW r \in Req, Step(r), NEW q \in Req, Checked(q)
    PROVE  Checked(q)'
<1> SUFFICES ASSUME Does(q, {"resolve"}), pc'[q] = 4
             PROVE  /\ \A o \in Opposite(Incompatible, On(q)) : others'[q][o] = Nothing
                    /\ \A o \in Opposite(Linked, On(q)) : others'[q][o] \in {Nothing, do[q].value}
  <2>1. Does(q, {"resolve"})' = Does(q, {"resolve"}) /\ On(q)' = On(q) /\ do' = do
    BY PcMoves, Doing
  <2> QED
    BY <2>1 DEF Checked, Opposite
<1>1. CASE q # r
  BY <1>1, OthersWait DEF Checked
<1>2. CASE q = r
  <2>1. Edits(r) /\ BodyAt[do[r].call] = 4
    BY <1>2 DEF Edits, BodyAt, Does
  <2>2. pc[r] = 3 /\ ~UpsertBody(r) /\ ~View(r) /\ ~Read(r)
    <3>1. /\ View(r) => pc'[r] = 2
          /\ Read(r) => pc'[r] \in {Refused, 3}
      BY CopyTaken
    <3>2. \/ View(r) \/ Read(r) \/ pc'[r] = Refused
          \/ pc'[r] = 2
          \/ pc[r] \in 3..3 /\ pc'[r] = pc[r] + 1 /\ ~UpsertBody(r)
          \/ pc[r] \in {4, 5} /\ pc'[r] = pc[r] + 1
      BY <2>1, EditorSteps
    <3>3. UpsertBody(r) => pc[r] = 4
      <4>1. UpsertBody(r) => At(r, "body")
        BY DEF UpsertBody, Take
      <4> QED
        BY <1>2, <2>1, <4>1, AtWrite DEF TypeOK, Does
    <3> QED
      BY <1>2, <3>1, <3>2, <3>3 DEF Refused
  <2>3. Constraints(r)
    <3>1. /\ ~Does(r, {"edit"}) /\ ~Does(r, {"connect"}) /\ ~Does(r, {"freeze"}) /\ ~Does(r, {"drag"}) /\ ~Does(r, {"save"})
      BY <1>2 DEF Does
    <3>2. /\ Check(r) => At(r, "check")
          /\ ReadPrerequisite(r, "source") => At(r, "source")
          /\ ReadPrerequisite(r, "target") => At(r, "target")
          /\ Recall(r) => At(r, "recall")
          /\ Traverse(r) => At(r, "traverse")
          /\ UpsertPosition(r) => At(r, "position")
          /\ SaveQuery(r) => At(r, "query")
          /\ RecordCommit(r) => At(r, "link") \/ At(r, "commit")
      BY DEF Check, ReadPrerequisite, Recall, Traverse, UpsertPosition, SaveQuery, RecordCommit, Take
    <3>3. Len(Steps(r)) = 5 /\ ~Does(r, {"fragment", "freeze"}) /\ do[r] \in Call
      BY <1>2, FlowLength DEF Does, TypeOK
    <3>4. ~Fail(r)
      BY <1>2 DEF Fail, Refused, TypeOK
    <3> QED
      BY <2>1, <2>2, <3>1, <3>2, <3>3, <3>4, EditorSteps, AtRead, AtWrite DEF Step
  <2>4. others'[r] = Options
    BY <2>3 DEF Constraints, TypeOK
  <2>5. At(r, "constraints") /\ pc'[r] = IF /\ \A e \in Opposite(Incompatible, On(r)) : Options[e] = Nothing
                    /\ \A e \in Opposite(Linked, On(r)) : Options[e] \in {Nothing, do[r].value}
                 THEN pc[r] + 1 ELSE Refused
    BY <2>3 DEF Constraints, Take, TypeOK
  <2> QED
    BY <1>2, <2>4, <2>5 DEF Refused
<1> QED
  BY <1>1, <1>2

(* The two of a pair whose options a write changed were both as they were *)
(* when the one that was written was checked. *)
LEMMA PairEnds ==
    ASSUME NEW p \in Incompatible \cup Linked
    PROVE  /\ p[1] \in Element /\ p[2] \in Element /\ p[1] \in Id /\ p[2] \in Id
           /\ p[1] \in Opposite(Incompatible \cup Linked, p[2]) /\ p[2] \in Opposite(Incompatible \cup Linked, p[1])
           /\ p \in Linked => p[1] \in Opposite(Linked, p[2]) /\ p[2] \in Opposite(Linked, p[1])
           /\ p \notin Linked => p[1] \in Opposite(Incompatible, p[2]) /\ p[2] \in Opposite(Incompatible, p[1])
BY ConstraintsAssumption DEF Opposite, Id

(* What a write does to the option of the row it writes, and to no other. *)
LEMMA OptionWritten ==
    ASSUME TypeOK, DeletedFirst, NEW r \in Req, Step(r), CopyIsFresh(r), MadeOfNothing(r), Checked(r),
           NEW e \in Element, BlankAtFirst(e), e \notin raced'
    PROVE  \/ Options'[e] = Options[e]
           \/ Options'[e] = Nothing
           \/ /\ Does(r, {"resolve"}) /\ UpsertBody(r) /\ On(r) = e
              /\ Options'[e] = do[r].value
              /\ \A o \in Id \ {e} : Options'[o] = Options[o]
              /\ e \in missed' \/ \A o \in Opposite(Incompatible \cup Linked, e) : Options[o] = others[r][o]
<1>0. e \in Id /\ e # r /\ TypeOK' /\ Contents(e) \in Body
  BY StepTyped, ContentsTyped, NothingAssumption DEF Id
<1>1. \A o \in Id : Options[o] = Contents(o).option /\ Options'[o] = (Contents(o).option)'
  BY DEF Options
<1>2. CASE RowKept(e)
  BY <1>0, <1>1, <1>2 DEF RowKept
<1>3. CASE Erased(r, e)
  BY <1>0, <1>1, <1>3 DEF Erased, Blank
<1>4. CASE Written(r, e)
  <2>1. UpsertBody(r) /\ Target(r) = e /\ Contents(e)' = copy[r]
    BY <1>4 DEF Written
  <2>2. Writes(r) /\ On(r) = e /\ copy[r] = Edited(r, old[r]) /\ old[r] = Contents(e) /\ do[r] \in Call
    <3>1. On(r) = e
      BY <1>0, <2>1 DEF Target
    <3> QED
      BY <1>0, <2>1, <3>1, WriteIsEdit DEF TypeOK
  <2>3. CASE ~Does(r, {"resolve"})
    BY <1>0, <1>1, <2>1, <2>2, <2>3, EditedIs
  <2>4. CASE Does(r, {"resolve"})
    <3>1. Options'[e] = do[r].value
      BY <1>0, <1>1, <2>1, <2>2, <2>4, EditedIs
    <3>2. ASSUME NEW o \in Id \ {e} PROVE Options'[o] = Options[o]
      <4>1. ~Written(r, o) /\ ~Erased(r, o)
        <5>1. Written(r, o) => Target(r) = o
          BY DEF Written
        <5>2. Erased(r, o) => At(r, "erase")
          BY DEF Erased, Erase, Take
        <5> QED
          BY <2>1, <2>2, <2>4, <5>1, <5>2, AtWrite DEF Does
      <4> QED
        BY <1>1, <4>1, StepRows DEF RowKept
    <3>3. e \in missed' \/ \A o \in Opposite(Incompatible \cup Linked, e) : Options[o] = others[r][o]
      BY <2>1, <2>4 DEF UpsertBody
    <3> QED
      BY <2>1, <2>2, <2>4, <3>1, <3>2, <3>3
  <2> QED
    BY <2>3, <2>4
<1> QED
  BY <1>0, <1>2, <1>3, <1>4, StepRows

(* What two choices that a constraint relates may have selected. *)
Agreed(p, x, y) == IF p \in Linked THEN x = y \/ Nothing \in {x, y} ELSE Nothing \in {x, y}

AllAgreed ==
    \A p \in Incompatible \cup Linked :
        (p[1] # p[2] /\ {p[1], p[2]} \cap (missed \cup raced) = {}) => Agreed(p, Options[p[1]], Options[p[2]])

(* The property, pair by pair. *)
LEMMA ChoicesAreAgreed == ChoicesAgreeUnlessMissed <=> AllAgreed
<1>1. ASSUME NEW p, NEW x, NEW y
      PROVE  Agreed(p, x, y) <=>
                LET options == {x, y} \ {Nothing} IN
                  IF p \in Linked THEN \A a, b \in options : a = b ELSE Nothing \in {x, y}
  BY DEF Agreed
<1> QED
  BY <1>1 DEF ChoicesAgreeUnlessMissed, AllAgreed

(* A choice that is written agrees with what its check saw, which nobody has changed since. *)
LEMMA StepChoices ==
    ASSUME TypeOK, DeletedFirst, NEW r \in Req, Step(r), CopyIsFresh(r), MadeOfNothing(r), Checked(r),
           \A e \in Element : BlankAtFirst(e), ChoicesAgreeUnlessMissed
    PROVE  ChoicesAgreeUnlessMissed'
<1> SUFFICES ASSUME NEW p \in Incompatible \cup Linked, p[1] # p[2],
                    {p[1], p[2]} \cap (missed' \cup raced') = {}
             PROVE  Agreed(p, Options'[p[1]], Options'[p[2]])
  <2>1. AllAgreed'
    BY DEF AllAgreed, Agreed
  <2> QED
    BY <2>1, ChoicesAreAgreed, PTL
<1> DEFINE x == p[1]
           y == p[2]
<1>1. /\ x \in Element /\ y \in Element /\ x \in Id \ {y} /\ y \in Id \ {x}
      /\ x \in Opposite(Incompatible \cup Linked, y) /\ y \in Opposite(Incompatible \cup Linked, x)
      /\ p \in Linked => x \in Opposite(Linked, y) /\ y \in Opposite(Linked, x)
      /\ p \notin Linked => x \in Opposite(Incompatible, y) /\ y \in Opposite(Incompatible, x)
  BY PairEnds
<1>2. x \notin missed' /\ x \notin raced' /\ y \notin missed' /\ y \notin raced'
  OBVIOUS
<1>3. Agreed(p, Options[x], Options[y])
  BY <1>2, ChoicesAreAgreed, MarksGrow DEF AllAgreed
<1>4. UpsertBody(r) /\ Does(r, {"resolve"}) => pc[r] = 4
  <2>1. UpsertBody(r) => At(r, "body")
    BY DEF UpsertBody, Take
  <2>2. Does(r, {"resolve"}) => BodyAt[do[r].call] = 4 /\ ~Does(r, {"interaction", "fragment"}) /\ ~Does(r, {"information"})
    BY DEF Does, BodyAt
  <2> QED
    BY <2>1, <2>2, AtWrite DEF TypeOK
<1>5. ASSUME NEW a \in Element, NEW b \in Element, a \in Id \ {b}, b \in Id \ {a}, Does(r, {"resolve"}), UpsertBody(r), On(r) = a,
             Options'[a] = do[r].value, \A o \in Id \ {a} : Options'[o] = Options[o],
             \A o \in Opposite(Incompatible \cup Linked, a) : Options[o] = others[r][o],
             b \in Opposite(Incompatible \cup Linked, a),
             p \in Linked => b \in Opposite(Linked, a),
             p \notin Linked => b \in Opposite(Incompatible, a)
      PROVE  IF p \in Linked THEN Options'[b] \in {Nothing, Options'[a]} ELSE Options'[b] = Nothing
  <2>1. Options'[b] = others[r][b]
    BY <1>5
  <2>2. pc[r] = 4
    BY <1>4, <1>5
  <2> QED
    BY <1>5, <2>1, <2>2 DEF Checked
<1>6. CASE Options'[x] \in {Options[x], Nothing} /\ Options'[y] \in {Options[y], Nothing}
  BY <1>3, <1>6 DEF Agreed
<1>7. CASE Options'[x] \notin {Options[x], Nothing}
  <2>1. /\ Does(r, {"resolve"}) /\ UpsertBody(r) /\ On(r) = x
        /\ Options'[x] = do[r].value
        /\ \A o \in Id \ {x} : Options'[o] = Options[o]
        /\ \A o \in Opposite(Incompatible \cup Linked, x) : Options[o] = others[r][o]
    BY <1>1, <1>2, <1>7, OptionWritten
  <2>2. IF p \in Linked THEN Options'[y] \in {Nothing, Options'[x]} ELSE Options'[y] = Nothing
    BY <1>1, <1>5, <2>1
  <2> QED
    BY <2>2 DEF Agreed
<1>8. CASE Options'[y] \notin {Options[y], Nothing}
  <2>1. /\ Does(r, {"resolve"}) /\ UpsertBody(r) /\ On(r) = y
        /\ Options'[y] = do[r].value
        /\ \A o \in Id \ {y} : Options'[o] = Options[o]
        /\ \A o \in Opposite(Incompatible \cup Linked, y) : Options[o] = others[r][o]
    BY <1>1, <1>2, <1>8, OptionWritten
  <2>2. IF p \in Linked THEN Options'[x] \in {Nothing, Options'[y]} ELSE Options'[x] = Nothing
    BY <1>1, <1>5, <2>1
  <2> QED
    BY <2>2 DEF Agreed
<1> QED
  BY <1>6, <1>7, <1>8

----------------------------------------------------------------------------
(* Elements that are created, and the collections that are frozen. *)

(* What is there, or was found by a traversal, is not created again. *)
LEMMA StepCreatedOnce ==
    ASSUME TypeOK, CreatedOnce, NEW r \in Req, Step(r), Placed(r)
    PROVE  CreatedOnce'
<1>0. do' = do /\ do[r] \in Call /\ pc[r] \in Nat /\ pc'[r] \in Nat
  BY PcMoves, PcTyped DEF TypeOK
<1>1. ASSUME NEW q \in elements' \cap Req PROVE ~Ahead(q)'
  <2>1. CASE q \in elements
    BY <1>1, <2>1, AheadShrinks DEF CreatedOnce
  <2>2. CASE q \notin elements
    <3>1. UpsertElement(r) /\ q = r
      BY <1>1, <2>2, StepElements
    <3>2. At(r, "element") /\ pc'[r] = pc[r] + 1
      BY <3>1 DEF UpsertElement, Take, TypeOK
    <3>3. \A i \in DOMAIN Steps(r) : Steps(r)[i] = "element" => i = pc[r]
      BY <1>0, <3>2, AtWrite, FlowOf DEF Does
    <3>4. Steps(r)' = Steps(r) /\ DOMAIN Steps(r) = 1..Len(Steps(r)) /\ Len(Steps(r)) \in Nat
      BY <1>0, Doing, FlowLength
    <3> QED
      BY <1>0, <3>1, <3>2, <3>3, <3>4 DEF Ahead
  <2> QED
    BY <2>1, <2>2
<1>2. ASSUME NEW q \in Req, NEW m \in members'[q] \cap Req PROVE ~Ahead(m)'
  <2>1. CASE m \in members[q]
    BY <1>2, <2>1, AheadShrinks DEF CreatedOnce
  <2>2. CASE m \notin members[q]
    <3>1. q = r
      BY <1>2, <2>2, OthersWait
    <3>2. Traverse(r)
      BY <1>2, <2>2, <3>1 DEF Step, Check, View, Read, Constraints, ReadPrerequisite, Recall, UpsertElement,
         UpsertBody, CreateEdge, RecordCommit, UpsertPosition, SaveQuery, Remove, Erase, Fail, locals
    <3>3. members'[r] \subseteq elements
      BY <3>2 DEF Traverse, TypeOK
    <3> QED
      BY <1>2, <3>1, <3>3, AheadShrinks DEF CreatedOnce
  <2> QED
    BY <2>1, <2>2
<1> QED
  BY <1>1, <1>2 DEF CreatedOnce

(* The edges of the graph: who takes them away, and who makes them. *)
LEMMA StepEdges ==
    ASSUME TypeOK, NEW r \in Req, Step(r)
    PROVE  /\ Remove(r) \/ edges \subseteq edges'
           /\ \A x \in edges : On(r) \notin {x[2], x[3]} => x \in edges'
<1>1. CASE Reads(r)
  BY <1>1 DEF Reads, Check, Constraints, ReadPrerequisite, Recall, Traverse, Fail, stores
<1>2. CASE View(r) \/ Read(r) \/ UpsertElement(r) \/ UpsertBody(r)
  BY <1>2 DEF View, Read, UpsertElement, UpsertBody, stores
<1>3. CASE CreateEdge(r)
  BY <1>3 DEF CreateEdge
<1>4. CASE RecordCommit(r) \/ UpsertPosition(r) \/ SaveQuery(r) \/ Erase(r)
  BY <1>4 DEF RecordCommit, UpsertPosition, SaveQuery, Erase
<1>5. CASE Remove(r)
  BY <1>5 DEF Remove
<1> QED
  BY <1>1, <1>2, <1>3, <1>4, <1>5 DEF Step, Reads

(* The steps of a request that freezes. *)
LEMMA FreezerSteps ==
    ASSUME TypeOK, NEW r \in Req, Step(r), Placed(r), Does(r, {"freeze"})
    PROVE  \/ pc'[r] = Refused
           \/ pc[r] = 1 /\ pc'[r] = 2
           \/ pc[r] = 2 /\ pc'[r] = 3 /\ Traverse(r)
           \/ pc[r] = 3 /\ pc'[r] = 4 /\ UpsertElement(r)
           \/ pc[r] = 4 /\ pc'[r] = 4 /\ CreateEdge(r)
           \/ pc[r] = 4 /\ pc'[r] = 6 /\ RecordCommit(r) /\ todo[r] = {}
<1>0. /\ do[r] \in Call /\ pc[r] \in Nat /\ pc \in [Req -> Nat]
      /\ ~Edits(r) /\ ~Does(r, {"edit"}) /\ ~Does(r, {"resolve"}) /\ ~Does(r, {"connect"}) /\ ~Does(r, {"drag"})
      /\ ~Does(r, {"save"}) /\ ~Does(r, {"delete"}) /\ ~Does(r, {"interaction", "fragment"})
      /\ ~Does(r, {"information"}) /\ ~Does(r, {"message", "resolve", "connect", "edit"})
      /\ Does(r, {"edit", "freeze", "information", "drag"}) /\ Does(r, {"fragment", "freeze"})
  BY DEF TypeOK, Does, Edits, BodyAt
<1>1. /\ ~Check(r) /\ ~View(r) /\ ~Read(r) /\ ~Constraints(r) /\ ~ReadPrerequisite(r, "source")
      /\ ~ReadPrerequisite(r, "target")
  <2>1. /\ Check(r) => At(r, "check")
        /\ View(r) => At(r, "view")
        /\ Read(r) => At(r, "read")
        /\ Constraints(r) => At(r, "constraints")
        /\ ReadPrerequisite(r, "source") => At(r, "source")
        /\ ReadPrerequisite(r, "target") => At(r, "target")
    BY DEF Check, View, Read, Constraints, ReadPrerequisite, Take
  <2> QED
    BY <1>0, <2>1, AtRead
<1>2. ~UpsertBody(r) /\ ~UpsertPosition(r) /\ ~SaveQuery(r) /\ ~Remove(r) /\ ~Erase(r)
  <2>1. /\ UpsertBody(r) => At(r, "body")
        /\ UpsertPosition(r) => At(r, "position")
        /\ SaveQuery(r) => At(r, "query")
        /\ Remove(r) => At(r, "remove")
        /\ Erase(r) => At(r, "erase")
    BY DEF UpsertBody, UpsertPosition, SaveQuery, Remove, Erase, Take
  <2> QED
    BY <1>0, <2>1, AtWrite
<1>3. CASE Recall(r)
  <2>1. At(r, "recall") /\ pc'[r] \in {Refused, pc[r] + 1}
    BY <1>0, <1>3 DEF Recall, Take
  <2> QED
    BY <1>0, <2>1, AtRead
<1>4. CASE Traverse(r)
  <2>1. At(r, "traverse") /\ pc'[r] = pc[r] + 1
    BY <1>0, <1>4 DEF Traverse, Take
  <2> QED
    BY <1>0, <1>4, <2>1, AtRead
<1>5. CASE UpsertElement(r)
  <2>1. At(r, "element") /\ pc'[r] = pc[r] + 1
    BY <1>0, <1>5 DEF UpsertElement, Take
  <2> QED
    BY <1>0, <1>5, <2>1, AtWrite
<1>6. CASE CreateEdge(r)
  <2>1. At(r, "link") /\ (pc' = pc \/ (\E there \in BOOLEAN : pc' = [pc EXCEPT ![r] = IF there THEN @ ELSE Refused]))
    BY <1>6 DEF CreateEdge
  <2>2. pc'[r] \in {pc[r], Refused}
    BY <1>0, <2>1
  <2> QED
    BY <1>0, <1>6, <2>1, <2>2, AtWrite
<1>7. CASE RecordCommit(r)
  <2>1. ~At(r, "commit")
    <3>1. Len(Steps(r)) = 5 /\ pc[r] # 5
      BY <1>0, FlowEnds DEF Placed
    <3> QED
      BY <1>0, <3>1, AtWrite
  <2>2. At(r, "link") /\ todo[r] = {} /\ pc'[r] = pc[r] + 2
    BY <1>0, <1>7, <2>1 DEF RecordCommit, Take
  <2> QED
    BY <1>0, <1>7, <2>2, AtWrite
<1>8. CASE Fail(r)
  BY <1>0, <1>8 DEF Fail
<1> QED
  BY <1>1, <1>2, <1>3, <1>4, <1>5, <1>6, <1>7, <1>8 DEF Step

(* A member that was linked stays linked while both ends stay. *)
LEMMA LinksStand ==
    ASSUME TypeOK, CreatedOnce, NEW r \in Req, Step(r), NEW q \in Req, q # r, Does(q, {"freeze"}), NEW m \in members[q],
           {q, m} \subseteq elements => Link(q, m) \in edges,
           {q, m} \subseteq elements'
    PROVE  Link(q, m) \in edges'
<1>0. do[r] \in Call /\ pc[r] \in Nat
  BY DEF TypeOK
<1>1. m \in elements
  <2>1. CASE UpsertElement(r)
    <3>1. At(r, "element")
      BY <2>1 DEF UpsertElement, Take
    <3>2. Ahead(r)
      BY <1>0, <3>1, AtWrite, AheadIs
    <3>3. m # r
      BY <3>2 DEF CreatedOnce
    <3> QED
      BY <3>3, StepElements
  <2>2. CASE ~UpsertElement(r)
    BY <2>2, StepElements
  <2> QED
    BY <2>1, <2>2
<1>2. q \in elements
  BY StepElements
<1>3. Link(q, m) \in edges /\ Link(q, m) = <<"Member", q, m>>
  BY <1>1, <1>2 DEF Link, Does
<1>4. CASE Remove(r)
  <2>1. On(r) \notin {q, m}
    BY <1>4 DEF Remove
  <2> QED
    BY <1>3, <2>1, StepEdges
<1>5. CASE ~Remove(r)
  BY <1>3, <1>5, StepEdges
<1> QED
  BY <1>4, <1>5

(* The loop over members links each or leaves it on the list. *)
LEMMA StepLinkedOrTodo ==
    ASSUME TypeOK, CreatedOnce, NEW r \in Req, Step(r), Placed(r), NEW q \in Req, LinkedOrTodo(q)
    PROVE  LinkedOrTodo(q)'
<1> SUFFICES ASSUME Does(q, {"freeze"})
             PROVE  /\ pc'[q] \in {3, 4} => todo'[q] \subseteq members'[q]
                    /\ pc'[q] = 3 => todo'[q] = members'[q]
                    /\ pc'[q] = 6 => todo'[q] = {}
                    /\ pc'[q] \in {4, 6} => \A m \in members'[q] \ todo'[q] :
                                              {q, m} \subseteq elements' => Link(q, m) \in edges'
  <2>1. Does(q, {"freeze"})' = Does(q, {"freeze"}) /\ \A m : Link(q, m)' = Link(q, m)
    BY PcMoves, Doing
  <2> QED
    BY <2>1 DEF LinkedOrTodo
<1>0. /\ pc[q] \in {3, 4} => todo[q] \subseteq members[q]
      /\ pc[q] = 3 => todo[q] = members[q]
      /\ pc[q] = 6 => todo[q] = {}
      /\ pc[q] \in {4, 6} => \A m \in members[q] \ todo[q] : {q, m} \subseteq elements => Link(q, m) \in edges
  BY DEF LinkedOrTodo
<1>1. CASE q # r
  <2>1. pc'[q] = pc[q] /\ todo'[q] = todo[q] /\ members'[q] = members[q]
    BY <1>1, OthersWait
  <2>2. pc[q] \in {4, 6} => \A m \in members[q] \ todo[q] : {q, m} \subseteq elements' => Link(q, m) \in edges'
    BY <1>0, <1>1, LinksStand
  <2> QED
    BY <1>0, <2>1, <2>2
<1>2. CASE q = r
  <2>1. CASE pc'[r] = Refused \/ pc'[r] = 2
    BY <1>2, <2>1 DEF Refused
  <2>2. CASE pc'[r] = 3 /\ Traverse(r)
    <3>1. members'[r] = todo'[r]
      BY <2>2 DEF Traverse, TypeOK
    <3> QED
      BY <1>2, <2>2, <3>1
  <2>3. CASE pc[r] = 3 /\ pc'[r] = 4 /\ UpsertElement(r)
    <3>1. members' = members /\ todo'[r] = todo[r]
      BY <1>2, <2>3 DEF UpsertElement, TypeOK, Does
    <3> QED
      BY <1>0, <1>2, <2>3, <3>1
  <2>4. CASE pc[r] = 4 /\ pc'[r] = 4 /\ CreateEdge(r)
    <3>1. PICK m \in todo[r] :
            /\ edges' = IF {r, m} \subseteq elements THEN edges \cup {Link(r, m)} ELSE edges
            /\ todo' = [todo EXCEPT ![r] = @ \ {m}]
      BY <2>4 DEF CreateEdge
    <3>2. elements' = elements /\ members' = members /\ todo'[r] = todo[r] \ {m}
      BY <2>4, <3>1 DEF CreateEdge, TypeOK
    <3>3. \A n \in members[r] \ (todo[r] \ {m}) : {r, n} \subseteq elements => Link(r, n) \in edges'
      BY <1>0, <1>2, <2>4, <3>1
    <3> QED
      BY <1>0, <1>2, <2>4, <3>2, <3>3
  <2>5. CASE pc[r] = 4 /\ pc'[r] = 6 /\ RecordCommit(r) /\ todo[r] = {}
    <3>1. elements' = elements /\ edges' = edges /\ members' = members /\ todo' = todo
      BY <2>5 DEF RecordCommit, locals
    <3> QED
      BY <1>0, <1>2, <2>5, <3>1
  <2> QED
    BY <1>2, <2>1, <2>2, <2>3, <2>4, <2>5, FreezerSteps
<1> QED
  BY <1>1, <1>2

----------------------------------------------------------------------------
(* The invariant. *)

(* It holds at first. *)
LEMMA InitBInv == Init => BInv
<1> SUFFICES ASSUME Init PROVE BInv
  OBVIOUS
<1>1. /\ \A r \in Req : do[r] \in Call /\ pc[r] = 1 /\ copy[r] = Blank
      /\ DOMAIN do = Req
  BY MixesAssumption DEF Init
<1>2. TypeOK
  <2>1. << >> \in Seq(Req) /\ << >> \in Seq([by : Req, diff : SUBSET Entry])
    OBVIOUS
  <2>2. elements \subseteq Id /\ row \in [Id -> Body \cup {Nothing}]
    BY BlankTyped DEF Init, Id
  <2>3. /\ pc \in [Req -> Nat] /\ old \in [Req -> Body] /\ copy \in [Req -> Body]
        /\ others \in [Req -> [Id -> STRING \cup {Nothing}]]
        /\ members \in [Req -> SUBSET Id] /\ todo \in [Req -> SUBSET Id]
        /\ raced \subseteq Id /\ missed \subseteq Id
    BY BlankTyped DEF Init
  <2> QED
    BY <1>1, <2>1, <2>2, <2>3 DEF Init, TypeOK
<1>3. \A e \in Id : Contents(e) = Blank
  BY DEF Init, Contents
<1>4. \A e \in Element : e \in Id /\ e \notin Req
  BY NothingAssumption DEF Id
<1>5. ASSUME NEW r \in Req PROVE Placed(r) /\ CopyIsFresh(r) /\ MadeOfNothing(r) /\ Checked(r) /\ LinkedOrTodo(r)
  <2>1. pc[r] = 1 /\ do[r] \in Call /\ Len(Steps(r)) \in 1..6
    BY <1>1, FlowLength
  <2>2. (Edits(r) => BodyAt[do[r].call] \in {3, 4, 5}) /\ (Makes(r) => BodyAt[do[r].call] \in {2, 3})
    BY DEF Edits, Makes, BodyAt
  <2>3. base[r] = << >> /\ old[r] = Blank
    BY DEF Init
  <2> QED
    BY <2>1, <2>2, <2>3 DEF Placed, CopyIsFresh, MadeOfNothing, Checked, LinkedOrTodo
<1>6. ASSUME NEW e \in Id PROVE WritersAre(e) /\ Chained(e) /\ Unborn(e) /\ BlankAtFirst(e)
  <2>1. writes[e] = << >>
    BY DEF Init
  <2>2. ASSUME NEW r \in Req PROVE ~(Writes(r) /\ pc[r] > BodyAt[do[r].call])
    <3>1. Writes(r) => BodyAt[do[r].call] \in {2, 3, 4, 5}
      BY DEF Writes, Edits, Makes, BodyAt
    <3> QED
      BY <1>1, <3>1
  <2> QED
    BY <1>1, <1>3, <2>1, <2>2 DEF WritersAre, Chained, Unborn, BlankAtFirst
<1>7. AllNumbered
  BY <1>1, <1>3, BlankTyped DEF AllNumbered
<1>8. DeletedFirst
  BY <1>1 DEF DeletedFirst
<1>9. Committed
  <2>1. commits = << >> /\ DOMAIN commits = {}
    BY DEF Init
  <2>2. ASSUME NEW r \in Req PROVE ~Done(r)
    <3>1. pc[r] = 1 /\ Len(Steps(r)) \in 1..6
      BY <1>1, FlowLength
    <3> QED
      BY <3>1 DEF Done
  <2> QED
    BY <2>1, <2>2 DEF Committed
<1>10. CreatedOnce
  BY <1>4 DEF CreatedOnce, Init
<1>11. ChoicesAgreeUnlessMissed
  <2>1. \A e \in Id : Options[e] = Nothing
    BY <1>3 DEF Options, Blank
  <2> QED
    BY <2>1, PairEnds, ChoicesAreAgreed DEF AllAgreed, Agreed
<1> QED
  BY <1>2, <1>5, <1>6, <1>7, <1>8, <1>9, <1>10, <1>11 DEF BInv

(* Every step keeps it. *)
LEMMA StepBInv == BInv /\ [Next]_vars => BInv'
<1> SUFFICES ASSUME BInv, [Next]_vars PROVE BInv'
  OBVIOUS
<1>1. CASE UNCHANGED vars
  <2>0. /\ elements' = elements /\ edges' = edges /\ row' = row /\ commits' = commits /\ do' = do /\ pc' = pc
        /\ old' = old /\ copy' = copy /\ others' = others /\ members' = members /\ todo' = todo
        /\ writes' = writes /\ base' = base /\ raced' = raced /\ missed' = missed
    BY <1>1 DEF vars, stores, locals, history
  <2>1. /\ TypeOK /\ AllNumbered /\ DeletedFirst /\ Committed /\ CreatedOnce /\ ChoicesAgreeUnlessMissed
        /\ \A q \in Req : Placed(q) /\ CopyIsFresh(q) /\ MadeOfNothing(q) /\ Checked(q) /\ LinkedOrTodo(q)
        /\ \A e \in Id : WritersAre(e) /\ Chained(e) /\ Unborn(e) /\ BlankAtFirst(e)
        /\ \A e \in Element : e \in Id
    BY DEF BInv, Id
  <2>2. TypeOK' /\ AllNumbered' /\ DeletedFirst'
    BY <2>0, <2>1 DEF TypeOK, AllNumbered, DeletedFirst, Numbered, Contents, Does, On
  <2>3. Committed'
    <3>1. \A q \in Req : /\ Done(q)' = Done(q) /\ Entries(q)' = Entries(q)
                         /\ Does(q, {"drag", "save"})' = Does(q, {"drag", "save"})
      BY <2>0, EntriesKept DEF Done, Steps, Does
    <3> QED
      BY <2>0, <2>1, <3>1 DEF Committed
  <2>4. CreatedOnce'
    BY <2>0, <2>1 DEF CreatedOnce, Ahead, Steps
  <2>5. ChoicesAgreeUnlessMissed'
    BY <2>0, <2>1 DEF ChoicesAgreeUnlessMissed, Options, Contents
  <2>6. ASSUME NEW q \in Req PROVE Placed(q)' /\ Checked(q)' /\ LinkedOrTodo(q)'
    BY <2>0, <2>1 DEF Placed, Checked, LinkedOrTodo, Does, On, Steps, Link
  <2>7. ASSUME NEW q \in Req PROVE CopyIsFresh(q)'
    <3>1. CASE Edits(q)
      <4>1. Edited(q, Contents(On(q)))' = Edited(q, Contents(On(q))') /\ Contents(On(q))' = Contents(On(q)) /\ On(q)' = On(q)
        BY <2>0, <3>1, EditedAfter DEF Contents, On
      <4>2. Edits(q)' = Edits(q) /\ Does(q, {"edit"})' = Does(q, {"edit"})
        BY <2>0 DEF Edits, Does
      <4> QED
        BY <2>0, <2>1, <4>1, <4>2 DEF CopyIsFresh
    <3>2. CASE ~Edits(q)
      BY <2>0, <3>2 DEF CopyIsFresh, Edits
    <3> QED
      BY <3>1, <3>2
  <2>8. ASSUME NEW e \in Id PROVE WritersAre(e)' /\ Unborn(e)' /\ BlankAtFirst(e)'
    <3>1. \A q \in Req : /\ Writes(q)' = Writes(q) /\ Target(q)' = Target(q) /\ Edits(q)' = Edits(q)
                         /\ On(q)' = On(q) /\ Does(q, {"delete"})' = Does(q, {"delete"}) /\ Ahead(q)' = Ahead(q)
      BY <2>0, Doing DEF Ahead
    <3>2. WritersAre(e)'
      BY <2>0, <2>1, <3>1 DEF WritersAre
    <3>3. Unborn(e)' /\ BlankAtFirst(e)'
      BY <2>0, <2>1, <3>1 DEF Unborn, BlankAtFirst, Contents
    <3> QED
      BY <3>2, <3>3
  <2>10. ASSUME NEW q \in Req PROVE MadeOfNothing(q)'
    <3>1. Makes(q) => Edited(q, Blank)' = Edited(q, Blank)
      BY <2>0, Doing DEF Writes
    <3>2. Makes(q)' = Makes(q) /\ BodyAt[do'[q].call] = BodyAt[do[q].call]
      BY <2>0 DEF Makes
    <3> QED
      BY <2>0, <2>1, <3>1, <3>2 DEF MadeOfNothing
  <2>9. ASSUME NEW e \in Id PROVE Chained(e)'
    <3>1. \A q \in Req : Edited(q, old[q])' = Edited(q, old[q]) /\ Does(q, {"message"})' = Does(q, {"message"})
      BY <2>0 DEF Edited, Changed, Does, Makes
    <3>2. Contents(e)' = Contents(e)
      BY <2>0 DEF Contents
    <3> QED
      BY <2>0, <2>1, <3>1, <3>2 DEF Chained
  <2> QED
    BY <2>2, <2>3, <2>4, <2>5, <2>6, <2>7, <2>8, <2>9, <2>10 DEF BInv
<1>2. ASSUME NEW r \in Req, Step(r) PROVE BInv'
  <2>1. /\ TypeOK /\ AllNumbered /\ DeletedFirst /\ Committed /\ CreatedOnce /\ ChoicesAgreeUnlessMissed
        /\ \A q \in Req : Placed(q) /\ CopyIsFresh(q) /\ MadeOfNothing(q) /\ Checked(q) /\ LinkedOrTodo(q)
        /\ \A e \in Id : WritersAre(e) /\ Chained(e) /\ Unborn(e) /\ BlankAtFirst(e)
        /\ \A e \in Element : e \in Id
    BY DEF BInv, Id
  <2>2. TypeOK' /\ AllNumbered' /\ DeletedFirst' /\ Committed' /\ CreatedOnce' /\ ChoicesAgreeUnlessMissed'
    BY <1>2, <2>1, StepTyped, StepNumbered, StepDeletedFirst, StepCommitted, StepCreatedOnce, StepChoices
  <2>3. ASSUME NEW q \in Req PROVE Placed(q)'
    <3>1. CASE q = r
      BY <1>2, <2>1, <3>1, StepPlaces
    <3>2. CASE q # r
      <4>1. pc'[q] = pc[q] /\ Steps(q)' = Steps(q) /\ Does(q, {"fragment", "freeze"})' = Does(q, {"fragment", "freeze"})
        BY <1>2, <2>1, <3>2, OthersWait, PcMoves, Doing
      <4> QED
        BY <2>1, <4>1 DEF Placed
    <3> QED
      BY <3>1, <3>2
  <2>4. ASSUME NEW q \in Req PROVE CopyIsFresh(q)' /\ MadeOfNothing(q)' /\ Checked(q)' /\ LinkedOrTodo(q)'
    BY <1>2, <2>1, StepCopyFresh, StepMade, StepChecked, StepLinkedOrTodo
  <2>5. ASSUME NEW e \in Id PROVE WritersAre(e)' /\ Chained(e)' /\ Unborn(e)' /\ BlankAtFirst(e)'
    BY <1>2, <2>1, StepWriters, StepChained, StepUnborn, StepBlankAtFirst
  <2> QED
    BY <2>2, <2>3, <2>4, <2>5 DEF BInv
<1> QED
  BY <1>1, <1>2 DEF Next

(* In every state, whatever the requests and however they interleave: rows,  *)
(* copies and commits have their types, every message stands at its number in *)
(* rows and copies alike, a copy whose base is still the row's history is an *)
(* edit of that row, the writers of a row are the editors past upsert_body, and *)
(* without a raced write each wrote an edit of the last one's body.          *)
THEOREM BodiesInvariant == Spec => []BInv
BY InitBInv, StepBInv, PTL DEF Spec

----------------------------------------------------------------------------
(* What the invariant gives. *)

(* A message that append_message acknowledged stays in its interaction, and  *)
(* messages are numbered in the order they stand there, unless a row was written *)
(* from a copy older than itself (interactions.rs reads and writes whole rows). *)
THEOREM MessagesStand == Spec => []MessagesKept
<1>1. BInv => MessagesKept
  <2> SUFFICES ASSUME BInv, NEW e \in Element, row[e] # Nothing
               PROVE  /\ \A n \in DOMAIN row[e].messages : row[e].messages[n].order = n - 1
                      /\ \A r \in Req : (Does(r, {"message"}) /\ On(r) = e /\ Done(r) /\ e \notin raced) =>
                            \/ \E n \in DOMAIN row[e].messages : row[e].messages[n].by = r
                            \/ e \notin elements
    BY DEF MessagesKept
  <2>1. Contents(e) = row[e] /\ e \in Id
    BY DEF Contents, Id
  <2>2. \A n \in DOMAIN row[e].messages : row[e].messages[n].order = n - 1
    BY <2>1 DEF BInv, AllNumbered, Numbered
  <2>3. ASSUME NEW r \in Req, Does(r, {"message"}), On(r) = e, Done(r), e \notin raced, e \in elements
        PROVE  \E n \in DOMAIN row[e].messages : row[e].messages[n].by = r
    <3>1. Writes(r) /\ BodyAt[do[r].call] = 3 /\ Target(r) = e
      BY <2>3 DEF Writes, Edits, BodyAt, Does, Target
    <3>2. pc[r] = 5
      <4>1. Len(Steps(r)) = 4
        BY <2>3, FlowLength DEF Does, BInv, TypeOK
      <4> QED
        BY <2>3, <4>1 DEF Done
    <3>3. WritersAre(e) /\ Chained(e)
      BY <2>1 DEF BInv
    <3>4. PICK i \in DOMAIN writes[e] : writes[e][i] = r
      BY <2>3, <3>1, <3>2, <3>3 DEF WritersAre
    <3>5. \E n \in DOMAIN Contents(e).messages : Contents(e).messages[n].by = r
      BY <2>3, <3>3, <3>4 DEF Chained
    <3> QED
      BY <2>1, <3>5
  <2> QED
    BY <2>2, <2>3
<1> QED
  BY <1>1, BodiesInvariant, PTL

(* Resolved choices agree with their IncompatibleWith and Linked edges, unless *)
(* an option was selected after the other's check_constraints had looked or a *)
(* row was written from an old copy.                                         *)
THEOREM ChoicesAgree == Spec => []ChoicesAgreeUnlessMissed
<1>1. BInv => ChoicesAgreeUnlessMissed
  BY DEF BInv
<1> QED
  BY <1>1, BodiesInvariant, PTL

(* freeze_collection links every element its traversal found that still is   *)
(* there, and its commit names them all, whatever is deleted meanwhile.      *)
THEOREM FrozenCollectionsAreWhole == Spec => []FrozenIsWhole
<1>1. BInv => FrozenIsWhole
  <2> SUFFICES ASSUME BInv, NEW r \in Req, Does(r, {"freeze"}), Done(r), NEW m \in members[r]
               PROVE  /\ {r, m} \subseteq elements => Link(r, m) \in edges
                      /\ \E n \in DOMAIN commits : Link(r, m) \in commits[n].diff
    BY DEF FrozenIsWhole
  <2>1. pc[r] = 6
    <3>1. Len(Steps(r)) = 5
      BY FlowLength DEF Does, BInv, TypeOK
    <3> QED
      BY <3>1 DEF Done
  <2>2. {r, m} \subseteq elements => Link(r, m) \in edges
    BY <2>1 DEF BInv, LinkedOrTodo
  <2>3. PICK n \in DOMAIN commits : commits[n].by = r
    BY DEF BInv, Committed, Does
  <2>4. commits[n].diff = Entries(r)
    BY <2>3 DEF BInv, Committed
  <2>5. Link(r, m) \in Entries(r)
    BY DEF Entries, Does
  <2> QED
    BY <2>2, <2>4, <2>5
<1> QED
  BY <1>1, BodiesInvariant, PTL

----------------------------------------------------------------------------
(* Replaying the commits. *)

(* A nonempty set of naturals has a least element. *)
LEMMA NatLeast ==
    ASSUME NEW T, T \subseteq Nat, T # {}
    PROVE  \E n \in T : \A m \in T : n <= m
<1> DEFINE R == {p \in Nat \X Nat : p[1] < p[2]}
<1>1. IsWellFoundedOn(R, Nat)
  <2>1. R = OpToRel(<, Nat)
    BY DEF OpToRel
  <2> QED
    BY <2>1, NatLessThanWellFounded
<1>2. \A n, m \in Nat : <<n, m>> \in R <=> n < m
  OBVIOUS
<1> HIDE DEF R
<1>3. \E n \in T : \A m \in T : ~(<<m, n>> \in R)
  BY <1>1, WFMin
<1>4. PICK n \in T : \A m \in T : ~(<<m, n>> \in R)
  BY <1>3
<1>5. ASSUME NEW m \in T PROVE n <= m
  <2>1. n \in Nat /\ m \in Nat
    BY <1>4, <1>5
  <2>2. ~(m < n)
    BY <1>2, <1>4, <1>5, <2>1
  <2> QED
    BY <2>1, <2>2
<1> QED
  BY <1>5

(* A bounded one has a greatest. *)
LEMMA GreatestUpTo ==
    ASSUME NEW c \in Nat, NEW T, T \subseteq 1..c, T # {}
    PROVE  \E n \in T : \A m \in T : m <= n
<1> DEFINE U == {c - n : n \in T}
<1>1. U \subseteq Nat /\ U # {}
  <2>1. \A n \in T : c - n \in Nat
    OBVIOUS
  <2> QED
    BY <2>1
<1>2. PICK u \in U : \A x \in U : u <= x
  BY <1>1, NatLeast
<1>3. PICK n \in T : u = c - n
  BY <1>2
<1>4. \A m \in T : c - n <= c - m
  BY <1>2, <1>3
<1> QED
  BY <1>3, <1>4

(* What does not change from one to the next is the same at the end. *)
LEMMA Unchanging ==
    ASSUME NEW n \in Nat, NEW i \in 0..n, NEW f, \A j \in (i + 1)..n : f[j] = f[j - 1]
    PROVE  f[n] = f[i]
<1> SUFFICES ASSUME f[n] # f[i] PROVE FALSE
  OBVIOUS
<1> DEFINE T == {j \in i..n : f[j] # f[i]}
<1>1. T \subseteq Nat /\ T # {}
  OBVIOUS
<1>2. PICK j \in T : \A m \in T : j <= m
  BY <1>1, NatLeast
<1>3. j \in (i + 1)..n
  BY <1>2
<1>4. j - 1 \notin T
  BY <1>2, <1>3
<1> QED
  BY <1>2, <1>3, <1>4

(* The entries of a commit that set something of an element. *)
LEMMA SetEntries ==
    ASSUME NEW q \in Req, do[q] \in Call, ~Does(q, {"drag", "save"}), NEW e \in Id,
           NEW k \in DOMAIN Blank \ Unnamed(e)
    PROVE  /\ \A x \in Entries(q) : (x[1] = "set" /\ x[2] = e /\ x[3] = k) =>
                 Writes(q) /\ Target(q) = e /\ x = Set(q, e, k)
           /\ (Writes(q) /\ Target(q) = e /\ old[q] \in Body /\ copy[q] = Edited(q, old[q]) /\ copy[q][k] # old[q][k]) =>
                 Set(q, e, k) \in Entries(q)
<1>0. k \in {"messages", "state", "rest"} /\ (e = q /\ Does(q, {"interaction", "fragment"}) => k # "rest")
  BY DEF Blank, Unnamed
<1>1. \A m : Link(q, m)[1] # "set"
  BY DEF Link
<1>2. \A d, l : Set(q, d, l)[1] = "set" /\ Set(q, d, l)[2] = d /\ Set(q, d, l)[3] = l
  BY DEF Set
<1>3. /\ Does(q, {"message"}) => Writes(q) /\ Target(q) = On(q) /\ ~Does(q, {"edit"}) /\ ~Makes(q)
                                 /\ ~Does(q, {"resolve", "connect"})
      /\ Does(q, {"resolve", "connect"}) => Writes(q) /\ Target(q) = On(q) /\ ~Does(q, {"edit"}) /\ ~Makes(q)
                                            /\ ~Does(q, {"message"})
      /\ Does(q, {"edit"}) => Writes(q) /\ Target(q) = On(q)
      /\ Does(q, {"interaction", "fragment"}) \/ Does(q, {"information"}) =>
            Writes(q) /\ Target(q) = q /\ ~Does(q, {"message"}) /\ ~Does(q, {"resolve", "connect"})
      /\ Does(q, {"freeze"}) \/ Does(q, {"delete"}) => ~Writes(q)
  BY DEF Writes, Edits, Makes, Does, Target
<1>4. CASE Does(q, {"interaction"}) \/ Does(q, {"fragment"})
  <2>1. Entries(q) = {<<"created", q>>} \/ Entries(q) = {<<"created", q>>, Link(q, On(q))}
    BY <1>4 DEF Entries, Does
  <2>2. Does(q, {"interaction", "fragment"})
    BY <1>4 DEF Does
  <2>3. (Writes(q) /\ old[q] \in Body /\ copy[q] = Edited(q, old[q])) =>
            copy[q].messages = old[q].messages /\ copy[q].state = old[q].state
    BY <1>3, <2>2, EditedIs
  <2>4. \A x \in Entries(q) : x[1] # "set"
    BY <1>1, <2>1
  <2> QED
    BY <1>0, <1>3, <2>2, <2>3, <2>4
<1>5. CASE Does(q, {"information"})
  <2>1. Entries(q) = {<<"created", q>>, Set(q, q, "rest")}
    BY <1>5 DEF Entries, Does
  <2>2. (Writes(q) /\ old[q] \in Body /\ copy[q] = Edited(q, old[q])) =>
            copy[q].messages = old[q].messages /\ copy[q].state = old[q].state
    BY <1>3, <1>5, EditedIs
  <2>3. Writes(q) /\ Target(q) = q
    BY <1>3, <1>5
  <2>4. ASSUME NEW x \in Entries(q), x[1] = "set", x[2] = e, x[3] = k PROVE Target(q) = e /\ x = Set(q, e, k)
    BY <1>2, <2>1, <2>3, <2>4
  <2>5. ASSUME Target(q) = e, old[q] \in Body, copy[q] = Edited(q, old[q]), copy[q][k] # old[q][k]
        PROVE  Set(q, e, k) \in Entries(q)
    <3>1. k = "rest"
      BY <1>0, <2>2, <2>3, <2>5
    <3> QED
      BY <2>1, <2>3, <2>5, <3>1
  <2> QED
    BY <2>3, <2>4, <2>5
<1>7. CASE Does(q, {"freeze"})
  <2>1. Entries(q) = {<<"created", q>>} \cup {Link(q, m) : m \in members[q]}
    BY <1>7 DEF Entries, Does
  <2>2. \A x \in Entries(q) : x[1] # "set"
    BY <1>1, <2>1
  <2> QED
    BY <1>3, <1>7, <2>2
<1>8. CASE Does(q, {"message"})
  <2>1. Entries(q) = {Set(q, On(q), "messages")}
    BY <1>8 DEF Entries, Does
  <2>2. (Writes(q) /\ old[q] \in Body /\ copy[q] = Edited(q, old[q])) =>
            copy[q].state = old[q].state /\ copy[q].rest = old[q].rest
    BY <1>3, <1>8, EditedIs
  <2> QED
    BY <1>0, <1>2, <1>3, <1>8, <2>1, <2>2
<1>9. CASE Does(q, {"resolve", "connect"})
  <2>1. Entries(q) = {Set(q, On(q), "state")}
    BY <1>9 DEF Entries, Does
  <2>2. (Writes(q) /\ old[q] \in Body /\ copy[q] = Edited(q, old[q])) =>
            copy[q].messages = old[q].messages /\ copy[q].rest = old[q].rest
    BY <1>3, <1>9, EditedIs
  <2> QED
    BY <1>0, <1>2, <1>3, <1>9, <2>1, <2>2
<1>10. CASE Does(q, {"edit"})
  <2>1. Entries(q) = {Set(q, On(q), l) : l \in {l \in DOMAIN Blank : copy[q][l] # old[q][l]}}
    BY <1>10 DEF Entries, Does
  <2> QED
    BY <1>0, <1>2, <1>3, <1>10, <2>1
<1>11. CASE Does(q, {"delete"})
  <2>1. Entries(q) = {<<"deleted", On(q)>>}
    BY <1>11 DEF Entries, Does
  <2> QED
    BY <1>3, <1>11, <2>1
<1> QED
  BY <1>4, <1>5, <1>7, <1>8, <1>9, <1>10, <1>11, FlowOf DEF Does

(* Replaying the commits on an element, one that was created by a request    *)
(* included, gives its live body, when no write was from an old copy and     *)
(* the commits came in the order of the writes; but for a resolved choice's  *)
(* option and what an interaction or a fragment is created with, which no    *)
(* commit names: the last commit to set a part *)
(* holds what its request wrote, and the later writers left that part alone. *)
THEOREM ReplayGivesTheBody == Spec => []BodiesAreReplayable
<1>1. BInv => BodiesAreReplayable
  <2> SUFFICES ASSUME BInv, NEW e \in elements, e \notin raced, CommittedInOrder(e),
                      NEW k \in DOMAIN Blank \ Unnamed(e)
               PROVE  Replayed(e, k) = Contents(e)[k]
    BY DEF BodiesAreReplayable
  <2> DEFINE w == writes[e]
             Sets(x) == x[1] = "set" /\ x[2] = e /\ x[3] = k
             setters == {n \in DOMAIN commits : \E x \in commits[n].diff : Sets(x)}
             last == CHOOSE n \in setters : \A m \in setters : m <= n
             v == [j \in 0..Len(w) |-> IF j = 0 THEN Blank[k] ELSE copy[w[j]][k]]
  <2>0. /\ TypeOK /\ Committed /\ WritersAre(e) /\ Chained(e) /\ e \in Id
        /\ \A q \in Req : Placed(q) /\ do[q] \in Call
    <3>1. e \in Id
      BY DEF BInv, TypeOK
    <3> QED
      BY <3>1 DEF BInv, TypeOK
  <2>1. /\ w \in Seq(Req) /\ Len(w) \in Nat /\ DOMAIN w = 1..Len(w) /\ (w = << >> <=> Len(w) = 0)
        /\ \A j \in 1..Len(w) : w[j] \in Req
    <3>1. w \in Seq(Req)
      BY <2>0 DEF TypeOK
    <3> QED
      BY <3>1
  <2>2. /\ commits \in Seq([by : Req, diff : SUBSET Entry]) /\ Len(commits) \in Nat
        /\ DOMAIN commits = 1..Len(commits)
    BY <2>0 DEF TypeOK
  <2>3. ASSUME NEW n \in DOMAIN commits
        PROVE  /\ commits[n].by \in Req /\ Done(commits[n].by) /\ commits[n].diff = Entries(commits[n].by)
               /\ ~Does(commits[n].by, {"drag", "save"})
    <3>1. commits[n] \in [by : Req, diff : SUBSET Entry]
      BY <2>2, <2>3, ElementOfSeq
    <3>2. commits[n].by \in Req
      BY <3>1
    <3> DEFINE q == commits[n].by
    <3>3. q \in Req /\ commits[n].by = q
      BY <3>2
    <3> HIDE DEF q
    <3>4. Done(q) /\ commits[n].diff = Entries(q) /\ ~Does(q, {"drag", "save"})
      BY <2>0, <3>3 DEF Committed
    <3> QED
      BY <3>3, <3>4
  <2>4. ASSUME NEW n \in DOMAIN commits, NEW x \in commits[n].diff, Sets(x)
        PROVE  /\ x[4] = copy[commits[n].by][k]
               /\ \E i \in 1..Len(w) : w[i] = commits[n].by
    <3> DEFINE q == commits[n].by
    <3>1. q \in Req /\ Done(q) /\ x \in Entries(q) /\ ~Does(q, {"drag", "save"}) /\ do[q] \in Call
      BY <2>0, <2>3, <2>4
    <3> HIDE DEF q
    <3>2. Writes(q) /\ Target(q) = e /\ x = Set(q, e, k)
      BY <2>0, <2>4, <3>1, SetEntries
    <3>3. pc[q] > BodyAt[do[q].call]
      <4>1. pc[q] = Len(Steps(q)) + 1
        BY <3>1 DEF Done
      <4>2. CASE Does(q, {"message"}) \/ Does(q, {"edit"}) \/ Does(q, {"interaction"})
        <5>1. BodyAt[do[q].call] = 3 /\ Does(q, {"interaction", "message", "edit", "delete"})
          BY <4>2 DEF BodyAt, Does
        <5>2. Len(Steps(q)) = 4
          BY <3>1, <5>1, FlowLength
        <5> QED
          BY <4>1, <5>1, <5>2
      <4>3. CASE Does(q, {"resolve"}) \/ Does(q, {"fragment"})
        <5>1. BodyAt[do[q].call] \in {3, 4} /\ Does(q, {"fragment", "resolve", "freeze"})
          BY <4>3 DEF BodyAt, Does
        <5>2. Len(Steps(q)) = 5
          BY <3>1, <5>1, FlowLength
        <5> QED
          BY <4>1, <5>1, <5>2
      <4>4. CASE Does(q, {"connect"})
        <5>1. BodyAt[do[q].call] = 5
          BY <4>4 DEF BodyAt, Does
        <5>2. Len(Steps(q)) = 6
          BY <3>1, <4>4, FlowLength
        <5> QED
          BY <4>1, <5>1, <5>2
      <4>5. CASE Does(q, {"information"})
        <5>1. BodyAt[do[q].call] = 2 /\ Len(Steps(q)) = 3
          BY <3>1, <4>5, FlowLength DEF BodyAt, Does
        <5> QED
          BY <4>1, <5>1
      <4> QED
        BY <3>2, <4>2, <4>3, <4>4, <4>5 DEF Writes, Edits, Makes, Does
    <3>4. PICK i \in DOMAIN w : w[i] = q
      BY <2>0, <3>1, <3>2, <3>3 DEF WritersAre
    <3>5. x[4] = copy[q][k]
      BY <3>2 DEF Set
    <3> QED
      BY <2>1, <3>4, <3>5 DEF q
  <2>5. v[0] = Blank[k] /\ \A j \in 1..Len(w) : v[j] = copy[w[j]][k]
    BY <2>1
  <2>6. Contents(e)[k] = v[Len(w)]
    <3>1. Contents(e) = IF w = << >> THEN Blank ELSE copy[w[Len(w)]]
      BY <2>0 DEF Chained
    <3> QED
      BY <2>1, <2>5, <3>1
  <2> HIDE DEF v
  (* A write that its commit does not mention changes nothing of k. *)
  <2>7. ASSUME NEW j \in 1..Len(w), \A n \in setters : commits[n].by # w[j]
        PROVE  v[j] = v[j - 1]
    <3> DEFINE q == w[j]
    <3>1. q \in Req /\ Writes(q) /\ Target(q) = e
      BY <2>0, <2>1 DEF WritersAre
    <3>2. old[q] = (IF j = 1 THEN Blank ELSE copy[w[j - 1]]) /\ copy[q] = Edited(q, old[q])
      BY <2>0, <2>1, <3>1 DEF Chained
    <3>3. old[q][k] = v[j - 1]
      <4>1. j # 1 => j - 1 \in 1..Len(w)
        BY <2>1
      <4> QED
        BY <2>5, <3>2, <4>1
    <3>4. PICK n \in DOMAIN commits : commits[n].by = q
      BY <2>1 DEF CommittedInOrder
    <3>5. commits[n].diff = Entries(q) /\ ~Does(q, {"drag", "save"}) /\ do[q] \in Call /\ old[q] \in Body
      BY <2>0, <2>3, <3>1, <3>4 DEF TypeOK
    <3>6. Set(q, e, k) \notin Entries(q)
      <4>1. Sets(Set(q, e, k))
        BY DEF Set
      <4>2. n \notin setters
        BY <2>7, <3>4
      <4> QED
        BY <3>4, <3>5, <4>1, <4>2
    <3>7. copy[q][k] = old[q][k]
      BY <2>0, <3>1, <3>2, <3>5, <3>6, SetEntries
    <3> QED
      BY <2>5, <3>3, <3>7
  <2>8. CASE setters = {}
    <3>1. \A j \in (0 + 1)..Len(w) : v[j] = v[j - 1]
      BY <2>1, <2>7, <2>8
    <3>2. v[Len(w)] = v[0]
      BY <2>1, <3>1, Unchanging
    <3> QED
      BY <2>5, <2>6, <2>8, <3>2 DEF Replayed
  <2>9. CASE setters # {}
    <3>1. \E n \in setters : \A m \in setters : m <= n
      <4>1. setters \subseteq 1..Len(commits)
        BY <2>2
      <4> QED
        BY <2>2, <2>9, <4>1, GreatestUpTo
    <3>2. last \in setters /\ \A m \in setters : m <= last
      BY <3>1
    <3> DEFINE x == CHOOSE x \in commits[last].diff : Sets(x)
    <3>3. x \in commits[last].diff /\ Sets(x)
      BY <3>2
    <3>4. Replayed(e, k) = x[4]
      BY <2>9 DEF Replayed
    <3> HIDE DEF x, last
    <3>5. last \in DOMAIN commits
      BY <3>2
    <3>6. PICK i \in 1..Len(w) : w[i] = commits[last].by
      BY <2>4, <3>3, <3>5
    <3>7. x[4] = v[i]
      BY <2>4, <2>5, <3>3, <3>5, <3>6
    <3>8. ASSUME NEW j \in (i + 1)..Len(w) PROVE v[j] = v[j - 1]
      <4>1. j \in 1..Len(w) /\ i < j /\ i \in DOMAIN w /\ j \in DOMAIN w
        BY <2>1, <3>6, <3>8
      <4>2. ASSUME NEW n \in setters, commits[n].by = w[j] PROVE FALSE
        <5>1. n \in DOMAIN commits /\ last < n
          BY <3>5, <3>6, <4>1, <4>2 DEF CommittedInOrder
        <5>2. n <= last /\ n \in Nat /\ last \in Nat
          BY <2>2, <3>2, <3>5, <4>2, <5>1
        <5> QED
          BY <5>1, <5>2
      <4> QED
        BY <2>7, <4>1, <4>2
    <3>9. v[Len(w)] = v[i]
      <4>1. i \in 0..Len(w) /\ \A j \in (i + 1)..Len(w) : v[j] = v[j - 1]
        BY <2>1, <3>6, <3>8
      <4> QED
        BY <2>1, <4>1, Unchanging
    <3> QED
      BY <2>6, <3>4, <3>7, <3>9
  <2> QED
    BY <2>8, <2>9
<1> QED
  BY <1>1, BodiesInvariant, PTL
=============================================================================
