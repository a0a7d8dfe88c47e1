------------------------------ MODULE MCBodies ------------------------------
(* Requests that meet on one interaction, on choices, or on a query.         *)
EXTENDS Bodies, TLC

CONSTANTS ra, rb, rc, rd, talk, nozzle, duct, bleed, route, nothing

MCKind == (talk :> "Interaction") @@ (route :> "ConnectionChoice")
          @@ [e \in {nozzle, duct, bleed} |-> "SelectionChoice"]
MCNear == (talk :> {nozzle, duct}) @@ [e \in Element \ {talk} |-> {}]
MCIncompatible == {<<nozzle, duct>>}
MCLinked == {<<duct, bleed>>}
MCPrerequisite == route :> [source |-> nozzle, target |-> bleed]

Do(call, on, value) == [call |-> call, on |-> on, value |-> value]
Mix(w, x, y, z) == (ra :> w) @@ (rb :> x) @@ (rc :> y) @@ (rd :> z)

Talking ==
    {Mix(Do("message", talk, nothing), Do("message", talk, nothing), x, y) :
        x \in {Do("message", talk, nothing), Do("edit", talk, "note"), Do("fragment", talk, "guard")},
        y \in {Do("delete", talk, nothing), Do("drag", talk, nothing), Do("message", nozzle, nothing),
               Do("edit", talk, "overloaded")}}

(* nozzle and duct are incompatible; duct and bleed are linked.              *)
Choosing ==
    {Mix(Do("resolve", nozzle, "x"), w, x, y) :
        w \in {Do("resolve", duct, "x"), Do("resolve", duct, "none of them")},
        x \in {Do("resolve", bleed, "x"), Do("resolve", bleed, "y")},
        y \in {Do("connect", route, nothing), Do("resolve", nozzle, "y"), Do("resolve", bleed, "x"),
               Do("delete", nozzle, nothing), Do("edit", bleed, "note")}}

Connecting ==
    {Mix(Do("resolve", nozzle, "x"), Do("resolve", bleed, "x"), Do("connect", route, nothing), x) :
        x \in {Do("edit", bleed, "note"), Do("delete", bleed, nothing), Do("edit", route, "note")}}

Freezing ==
    {Mix(Do("save", talk, nothing), Do("freeze", ra, nothing), Do("delete", x, nothing), y) :
        x \in {talk, nozzle},
        y \in {Do("interaction", nozzle, "who"), Do("information", nozzle, "Logical"),
               Do("fragment", talk, "guard"), Do("freeze", ra, nothing), Do("delete", duct, nothing)}}

(* What is created, and edited, dragged or deleted before it is whole.       *)
Creating ==
    {Mix(w, Do("edit", ra, "note"), x, y) :
        w \in {Do("information", nozzle, "Logical"), Do("interaction", nozzle, "who"), Do("fragment", talk, "guard")},
        x \in {Do("edit", ra, "remark"), Do("drag", ra, nothing)},
        y \in {Do("delete", ra, nothing), Do("delete", talk, nothing)}}

MCMixes == Talking \cup Choosing \cup Connecting \cup Freezing \cup Creating
=============================================================================
