------------------------------- MODULE Handles -------------------------------
(***************************************************************************)
(* What the design-space endpoints promise about handles, whatever is      *)
(* restarted: a handle that a client has been given stands for one         *)
(* definition for ever, a request is answered from the definition of the   *)
(* handle it was asked about, and a handle that replaces a stale one       *)
(* stands for the same definition.  Archspace implements it.               *)
(***************************************************************************)
CONSTANTS
    Req,        \* requests
    Handle,     \* handles
    Definition, \* definitions of design spaces
    None        \* not given, or not asked yet

VARIABLES
    meaning,    \* what each handle that was given to a client stands for
    asked,      \* the handle each request is about
    answer      \* the definitions its answer was computed from

vars == <<meaning, asked, answer>>

Init ==
    /\ meaning = [h \in Handle |-> None]
    /\ asked = [r \in Req |-> None]
    /\ answer = [r \in Req |-> {}]

Give(h, d) ==
    /\ meaning[h] = None
    /\ meaning' = [meaning EXCEPT ![h] = d]
    /\ UNCHANGED <<asked, answer>>

Ask(r, h) ==
    /\ asked[r] = None
    /\ meaning[h] # None
    /\ asked' = [asked EXCEPT ![r] = h]
    /\ UNCHANGED <<meaning, answer>>

(* The answer may come with a handle f that is to be used from now on.       *)
Answer(r, f) ==
    /\ asked[r] # None
    /\ answer[r] = {}
    /\ answer' = [answer EXCEPT ![r] = {meaning[asked[r]]}]
    /\ meaning[f] \in {None, meaning[asked[r]]}
    /\ meaning' = [meaning EXCEPT ![f] = meaning[asked[r]]]
    /\ UNCHANGED asked

Next ==
    \/ \E h \in Handle, d \in Definition : Give(h, d)
    \/ \E r \in Req, h \in Handle : Ask(r, h) \/ Answer(r, h)

Spec == Init /\ [][Next]_vars
=============================================================================
