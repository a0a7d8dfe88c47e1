-------------------------- MODULE ArchspaceProofs --------------------------
(***************************************************************************)
(* What holds of Archspace for every number of requests, subsystems,       *)
(* handles and restarts: handles are durable, acceptances materialized,    *)
(* and Archspace implements Handles.  The inductive invariant says what is *)
(* under a handle in its three places, that a handle without a row belongs *)
(* to one request only, and what a request may assume at each of its calls.*)
(* Last, what holds of the answers: of the definition that is kept under a *)
(* handle (DesignSpace), for every model and subsystem; and of every curve *)
(* and parametric model (Parametrics).                                     *)
(***************************************************************************)
EXTENDS Archspace, Answers, FiniteSetTheorems, SequenceTheorems, WellFoundedInduction, TLAPS

Content == Subsystem \X Nat

Types ==
    /\ version \in [Subsystem -> Nat]
    /\ \A s \in Subsystem : version[s] <= MaxVersion[s]
    /\ minted \in 0..MaxHandles
    /\ given \subseteq 1..minted
    /\ rows \in [Handle -> Maybe(Definition)]
    /\ cache \in [Handle -> Maybe(Definition)]
    /\ sidecar \in [Handle -> Maybe(Definition)]
    /\ proposal \in [Req -> Maybe(Row)]
    /\ call \in [Req -> Calls]
    /\ pc \in [Req -> PC]
    /\ target \in [Req -> Maybe(Subsystem \cup Req)]
    /\ sent \in [Req -> Maybe(Handle)]
    /\ handle \in [Req -> Maybe(Handle)]
    /\ found \in [Req -> Maybe(Content)]
    /\ got \in [Req -> SUBSET Maybe(Definition)]

(* Nothing is kept under a handle that the sidecar did not hand out, and     *)
(* what is kept under a handle in several places is the same.                *)
SpaceKnows ==
    /\ \A h \in Handle : h \notin 1..minted =>
          rows[h] = Nothing /\ cache[h] = Nothing /\ sidecar[h] = Nothing
    /\ \A h \in given : rows[h] # Nothing
    /\ \A h \in Handle : rows[h] # Nothing =>
          sidecar[h] \in {Nothing, rows[h]} /\ cache[h] \in {Nothing, rows[h]}

(* A handle that was handed out to r and has no row is nobody else's.        *)
Unshared(r) ==
    /\ handle[r] \in 1..minted
    /\ handle[r] \notin given
    /\ rows[handle[r]] = Nothing /\ cache[handle[r]] = Nothing
    /\ sidecar[handle[r]] \in {Nothing, found[r]}
    /\ found[r] \in Definition
    /\ \A q \in Req \ {r} : handle[q] # handle[r]

(* What a request may assume at each of its calls.                           *)
Asking  == {"probe", "read", "redefine", "keep", "serve", "branch", "file"}
Serving == {"serve", "branch", "file"}
Deciding == {"element", "link", "merge", "record", "setStatus"}

Knows(r) ==
    /\ handle[r] \in Maybe(0..minted)
    /\ sent[r] \in given \cup {0, Nothing}
    /\ pc[r] = "idle" => sent[r] = Nothing /\ got[r] = {}
    /\ pc[r] = "space" => call[r] = "define" /\ found[r] \in Definition
    /\ pc[r] \in {"stats", "persist", "keep"} => Unshared(r)
    /\ pc[r] \in Asking => call[r] \in Uses
    /\ pc[r] \in {"probe", "read"} => handle[r] = sent[r] /\ sent[r] # Nothing /\ got[r] = {}
    /\ pc[r] \in {"redefine", "keep"} =>
          sent[r] \in given /\ found[r] = rows[sent[r]] /\ got[r] = {}
    /\ pc[r] \in Serving =>
          /\ sent[r] \in given
          /\ handle[r] \in Handle
          /\ rows[handle[r]] = rows[sent[r]]
          /\ got[r] \subseteq {rows[sent[r]]}
    /\ pc[r] \in {"branch", "file"} => got[r] # {}
    /\ pc[r] \in {"stats", "persist"} => call[r] = "define"
    /\ pc[r] \in Deciding =>
          call[r] \notin Uses /\ target[r] \in Req /\ proposal[target[r]] # Nothing

ProposalKnows(p) ==
    proposal[p] # Nothing =>
        /\ proposal[p].handle \in given
        /\ proposal[p].of = {rows[proposal[p].handle]}

IInv ==
    /\ Types
    /\ SpaceKnows
    /\ \A r \in Req : Knows(r)
    /\ \A p \in Req : ProposalKnows(p)

(* How far an acceptance has come, that it is not begun twice, and that a    *)
(* proposal is under a subsystem that there was.                             *)
Reached(r) ==
    call[r] = "accept" =>
        /\ pc[r] \in {"link", "merge", "record", "setStatus"} => r \in made
        /\ pc[r] \in {"record", "setStatus"} => Placed(r)
        /\ pc[r] = "setStatus" => r \in recorded

ProposeKnows(r) ==
    /\ pc[r] \in {"branch", "file"} => call[r] = "propose"
    /\ pc[r] \in Asking /\ call[r] = "propose" => target[r] \in Subsystem
    /\ proposal[r] # Nothing => pc[r] = "done" /\ proposal[r].subsystem \in Subsystem

AcceptKnows(r) == (r \in made => pc[r] # "idle") /\ Reached(r) /\ ProposeKnows(r)

AInv ==
    /\ IInv
    /\ made \subseteq Req
    /\ \A r \in Req : AcceptKnows(r)
    /\ AcceptedIsMaterialized

-----------------------------------------------------------------------------
(* The invariant holds initially.                                            *)

LEMMA InitIInv == Init => IInv
<1> SUFFICES ASSUME Init PROVE IInv
  OBVIOUS
<1>1. Types
  BY BoundsAssumption, MayAssumption DEF Init, Types, Maybe, Handle, Content, PC
<1>2. SpaceKnows
  BY DEF Init, SpaceKnows
<1>3. \A r \in Req : Knows(r)
  BY DEF Init, Knows, Maybe, Asking, Serving, Deciding
<1>4. \A p \in Req : ProposalKnows(p)
  BY DEF Init, ProposalKnows
<1> QED
  BY <1>1, <1>2, <1>3, <1>4 DEF IInv

(* Definitions are contents, and no handle or definition is Nothing.         *)
LEMMA DefinitionIsContent == Definition \subseteq Content
BY BoundsAssumption DEF Definition, Content

LEMMA GivenAreHandles == IInv => given \subseteq Handle
<1> SUFFICES ASSUME IInv, NEW h \in given PROVE h \in Handle
  OBVIOUS
<1>1. given \subseteq 1..minted /\ minted \in 0..MaxHandles
  BY DEF IInv, Types
<1> QED
  BY <1>1, BoundsAssumption DEF Handle

(* A step of r leaves to the others what they know, if it changes only what  *)
(* is under its own handle before anyone else knows of it.                   *)
Local(q) == <<call[q], pc[q], target[q], sent[q], handle[q], found[q], got[q]>>

LEMMA OthersKnow ==
    ASSUME IInv, NEW r \in Req, Types',
           \A q \in Req \ {r} : Local(q)' = Local(q),
           \A p \in Req : proposal[p] # Nothing => proposal'[p] # Nothing,
           minted <= minted', given \subseteq given', given' \subseteq given \cup {handle[r]},
           \A h \in Handle : (h <= minted /\ (Unshared(r) => h # handle[r])) =>
              rows'[h] = rows[h] /\ cache'[h] = cache[h] /\ sidecar'[h] = sidecar[h],
           handle'[r] = handle[r] \/ handle'[r] \in given \cup {0} \/ handle'[r] = minted + 1
    PROVE  \A q \in Req \ {r} : Knows(q)'
<1> SUFFICES ASSUME NEW q \in Req \ {r} PROVE Knows(q)'
  OBVIOUS
<1> USE DEF IInv
<1>1. Knows(q) /\ Local(q)' = Local(q)
  OBVIOUS
<1>2. minted \in Nat /\ minted' \in Nat /\ minted <= MaxHandles /\ given \subseteq 1..minted
  BY BoundsAssumption DEF Types
<1>3. \A h \in 1..minted : h \in Handle
  BY <1>2, BoundsAssumption DEF Handle
<1>4. handle[q] \in 0..minted => handle[q] \in Handle
  BY <1>2, BoundsAssumption DEF Handle
<1>5. \A h \in given : h \in Handle /\ rows'[h] = rows[h]
  <2> SUFFICES ASSUME NEW h \in given PROVE h \in Handle /\ rows'[h] = rows[h]
    OBVIOUS
  <2>1. h \in Handle /\ h <= minted /\ rows[h] # Nothing
    BY <1>2, <1>3 DEF SpaceKnows
  <2>2. Unshared(r) => h # handle[r]
    BY DEF Unshared
  <2> QED
    BY <2>1, <2>2
<1>0. Unshared(r) => handle[q] # handle[r]
  BY DEF Unshared
<1>7. handle[q] \in 0..minted =>
         rows'[handle[q]] = rows[handle[q]] /\ cache'[handle[q]] = cache[handle[q]]
         /\ sidecar'[handle[q]] = sidecar[handle[q]]
  BY <1>2, <1>4, <1>0
<1>8. Unshared(q) => Unshared(q)'
  <2> SUFFICES ASSUME Unshared(q) PROVE Unshared(q)'
    OBVIOUS
  <2>1. handle'[q] = handle[q] /\ found'[q] = found[q]
    BY <1>1 DEF Local
  <2>2. handle[q] \in 1..minted /\ handle[q] \in 0..minted
    BY <1>2 DEF Unshared
  <2>3. \A p \in Req \ {q} : handle'[p] # handle[q]
    <3> SUFFICES ASSUME NEW p \in Req \ {q} PROVE handle'[p] # handle[q]
      OBVIOUS
    <3>1. CASE p = r
      BY <1>2, <2>2, <3>1 DEF Unshared
    <3>2. CASE p # r
      BY <3>2 DEF Local, Unshared
    <3> QED
      BY <3>1, <3>2
  <2>4. handle[q] \notin given'
    BY DEF Unshared
  <2> QED
    BY <1>2, <1>7, <2>1, <2>2, <2>3, <2>4 DEF Unshared
<1>9. handle'[q] \in Maybe(0..minted')
  BY <1>1, <1>2 DEF Knows, Local, Maybe
<1>10. handle[q] \in Handle => handle[q] \in 0..minted
  BY <1>1, NothingAssumption DEF Knows, Maybe
<1> QED
  BY <1>1, <1>5, <1>7, <1>8, <1>9, <1>10 DEF Knows, Local, Asking, Serving, Deciding

-----------------------------------------------------------------------------
(* Each action preserves it: the calls that only look, first.                *)

LEMMA FetchIInv ==
    ASSUME IInv, NEW r \in Req, NEW s \in Subsystem, Fetch(r, s)
    PROVE  IInv'
<1>1. Types'
  BY BoundsAssumption DEF IInv, Fetch, Goto, world, space, results, Types, PC, Maybe,
     Content
<1>2. SpaceKnows'
  BY DEF IInv, Fetch, Goto, world, space, results, locals, SpaceKnows
<1>3. Knows(r)'
  <2>1. found'[r] = <<s, version[s]>> /\ pc'[r] \in {"refused", "space"} /\ call'[r] = "define"
    BY DEF IInv, Fetch, Goto, Types
  <2>2. pc'[r] = "space" => version[s] \in 1..MaxVersion[s]
    BY BoundsAssumption DEF IInv, Fetch, Goto, Types
  <2>3. pc'[r] = "space" => found'[r] \in Definition
    BY <2>1, <2>2 DEF Definition
  <2> QED
    BY <2>1, <2>3 DEF IInv, Fetch, Goto, world, space, results, Types, Knows, Asking,
       Serving, Deciding
<1>4. \A q \in Req \ {r} : Knows(q)'
  <2>1. \A q \in Req \ {r} : Local(q)' = Local(q)
    BY DEF IInv, Fetch, Goto, world, space, results, locals, Types, Local
  <2>2. minted <= minted' /\ given \subseteq given' /\ given' \subseteq given \cup {handle[r]}
    BY BoundsAssumption DEF IInv, Fetch, Goto, world, space, results, locals, Types
  <2>3. \A h \in Handle : (h <= minted /\ (Unshared(r) => h # handle[r])) =>
           rows'[h] = rows[h] /\ cache'[h] = cache[h] /\ sidecar'[h] = sidecar[h]
    BY DEF Fetch, Goto, world, space, results, locals
  <2>4. handle'[r] = handle[r] \/ handle'[r] \in given \cup {0} \/ handle'[r] = minted + 1
    BY DEF IInv, Fetch, Goto, world, space, results, locals, Types
  <2>5. \A p \in Req : proposal[p] # Nothing => proposal'[p] # Nothing
    BY DEF Fetch, world, space, results
  <2> QED
    BY <1>1, <2>1, <2>2, <2>3, <2>4, <2>5, OthersKnow
<1>5. \A p \in Req : ProposalKnows(p)'
  BY DEF IInv, Fetch, Goto, world, space, results, locals, ProposalKnows
<1> QED
  BY <1>1, <1>2, <1>3, <1>4, <1>5 DEF IInv

LEMMA StatsIInv ==
    ASSUME IInv, NEW r \in Req, Stats(r)
    PROVE  IInv'
<1>1. Types'
  BY NothingAssumption DEF IInv, Stats, Goto, world, space, results, locals, Types, PC,
     Maybe
<1>2. SpaceKnows'
  BY DEF IInv, Stats, Goto, world, space, results, locals, SpaceKnows
<1>3. Knows(r)'
  BY NothingAssumption DEF IInv, Stats, Goto, world, space, results, locals, Types,
     SpaceKnows, Knows, Unshared, Asking, Serving, Deciding, Maybe, Uses, Script
<1>4. \A q \in Req \ {r} : Knows(q)'
  <2>1. \A q \in Req \ {r} : Local(q)' = Local(q)
    BY DEF IInv, Stats, Goto, world, space, results, locals, Types, Local
  <2>2. minted <= minted' /\ given \subseteq given' /\ given' \subseteq given \cup {handle[r]}
    BY BoundsAssumption DEF IInv, Stats, Goto, world, space, results, locals, Types
  <2>3. \A h \in Handle : (h <= minted /\ (Unshared(r) => h # handle[r])) =>
           rows'[h] = rows[h] /\ cache'[h] = cache[h] /\ sidecar'[h] = sidecar[h]
    BY DEF Stats, Goto, world, space, results, locals
  <2>4. handle'[r] = handle[r] \/ handle'[r] \in given \cup {0} \/ handle'[r] = minted + 1
    BY DEF IInv, Stats, Goto, world, space, results, locals, Types
  <2>5. \A p \in Req : proposal[p] # Nothing => proposal'[p] # Nothing
    BY DEF Stats, world, space, results
  <2> QED
    BY <1>1, <2>1, <2>2, <2>3, <2>4, <2>5, OthersKnow
<1>5. \A p \in Req : ProposalKnows(p)'
  BY DEF IInv, Stats, Goto, world, space, results, locals, ProposalKnows
<1> QED
  BY <1>1, <1>2, <1>3, <1>4, <1>5 DEF IInv

LEMMA AskIInv ==
    ASSUME IInv, NEW r \in Req, NEW h \in Handle, NEW s \in Maybe(Subsystem), Ask(r, h, s)
    PROVE  IInv'
<1>1. Types'
  BY DEF IInv, Ask, Goto, world, space, results, Types, PC, Maybe
<1>2. SpaceKnows'
  BY DEF IInv, Ask, Goto, world, space, results, locals, SpaceKnows
<1>3. Knows(r)'
  <2>1. /\ sent'[r] = h /\ handle'[r] = h /\ got' = got /\ call' = call /\ given' = given
        /\ minted' = minted /\ pc[r] = "idle" /\ pc'[r] \in {"probe", "refused"}
        /\ call[r] \in Uses
    BY DEF IInv, Ask, Goto, world, space, results, Types
  <2>2. h \in given \cup {0} /\ h # Nothing
    BY NothingAssumption DEF Ask
  <2>3. h \in 0..minted
    BY <2>2 DEF IInv, Types
  <2>4. got[r] = {}
    BY <2>1 DEF IInv, Knows
  <2> QED
    BY <2>1, <2>2, <2>3, <2>4 DEF Knows, Asking, Serving, Deciding, Maybe
<1>4. \A q \in Req \ {r} : Knows(q)'
  <2>1. \A q \in Req \ {r} : Local(q)' = Local(q)
    BY DEF IInv, Ask, Goto, world, space, results, locals, Types, Local
  <2>2. minted <= minted' /\ given \subseteq given' /\ given' \subseteq given \cup {handle[r]}
    BY BoundsAssumption DEF IInv, Ask, Goto, world, space, results, locals, Types
  <2>3. \A f \in Handle : (f <= minted /\ (Unshared(r) => f # handle[r])) =>
           rows'[f] = rows[f] /\ cache'[f] = cache[f] /\ sidecar'[f] = sidecar[f]
    BY DEF Ask, Goto, world, space, results, locals
  <2>4. handle'[r] = handle[r] \/ handle'[r] \in given \cup {0} \/ handle'[r] = minted + 1
    BY DEF IInv, Ask, Goto, world, space, results, locals, Types
  <2>5. \A p \in Req : proposal[p] # Nothing => proposal'[p] # Nothing
    BY DEF Ask, world, space, results
  <2> QED
    BY <1>1, <2>1, <2>2, <2>3, <2>4, <2>5, OthersKnow
<1>5. \A p \in Req : ProposalKnows(p)'
  BY DEF IInv, Ask, Goto, world, space, results, locals, ProposalKnows
<1> QED
  BY <1>1, <1>2, <1>3, <1>4, <1>5 DEF IInv

LEMMA ProbeIInv ==
    ASSUME IInv, NEW r \in Req, Probe(r)
    PROVE  IInv'
<1>1. Types'
  BY NothingAssumption DEF IInv, Probe, Goto, world, space, results, locals, Types, PC,
     Maybe
<1>2. SpaceKnows'
  BY DEF IInv, Probe, Goto, world, space, results, locals, SpaceKnows
<1>3. Knows(r)'
  BY NothingAssumption DEF IInv, Probe, Goto, world, space, results, locals, Types,
     SpaceKnows, Knows, Unshared, Asking, Serving, Deciding, Maybe, Uses, Script
<1>4. \A q \in Req \ {r} : Knows(q)'
  <2>1. \A q \in Req \ {r} : Local(q)' = Local(q)
    BY DEF IInv, Probe, Goto, world, space, results, locals, Types, Local
  <2>2. minted <= minted' /\ given \subseteq given' /\ given' \subseteq given \cup {handle[r]}
    BY BoundsAssumption DEF IInv, Probe, Goto, world, space, results, locals, Types
  <2>3. \A h \in Handle : (h <= minted /\ (Unshared(r) => h # handle[r])) =>
           rows'[h] = rows[h] /\ cache'[h] = cache[h] /\ sidecar'[h] = sidecar[h]
    BY DEF Probe, Goto, world, space, results, locals
  <2>4. handle'[r] = handle[r] \/ handle'[r] \in given \cup {0} \/ handle'[r] = minted + 1
    BY DEF IInv, Probe, Goto, world, space, results, locals, Types
  <2>5. \A p \in Req : proposal[p] # Nothing => proposal'[p] # Nothing
    BY DEF Probe, world, space, results
  <2> QED
    BY <1>1, <2>1, <2>2, <2>3, <2>4, <2>5, OthersKnow
<1>5. \A p \in Req : ProposalKnows(p)'
  BY DEF IInv, Probe, Goto, world, space, results, locals, ProposalKnows
<1> QED
  BY <1>1, <1>2, <1>3, <1>4, <1>5 DEF IInv

LEMMA ReadRowIInv ==
    ASSUME IInv, NEW r \in Req, ReadRow(r)
    PROVE  IInv'
<1>1. Types'
  <2>1. handle[r] \in Handle => rows[handle[r]] \in Maybe(Content)
    BY DefinitionIsContent DEF IInv, Types, Maybe
  <2>2. handle[r] \in 0..minted
    BY DEF IInv, ReadRow, Goto, Knows, Maybe
  <2>3. handle[r] \in Handle
    BY <2>2, BoundsAssumption DEF IInv, Types, Handle
  <2> QED
    BY <2>1, <2>3 DEF IInv, ReadRow, Goto, world, space, results, Types, PC
<1>2. SpaceKnows'
  BY DEF IInv, ReadRow, Goto, world, space, results, locals, SpaceKnows
<1>3. Knows(r)'
  BY NothingAssumption DEF IInv, ReadRow, Goto, world, space, results, locals, Types,
     SpaceKnows, Knows, Unshared, Asking, Serving, Deciding, Maybe, Uses, Script
<1>4. \A q \in Req \ {r} : Knows(q)'
  <2>1. \A q \in Req \ {r} : Local(q)' = Local(q)
    BY DEF IInv, ReadRow, Goto, world, space, results, locals, Types, Local
  <2>2. minted <= minted' /\ given \subseteq given' /\ given' \subseteq given \cup {handle[r]}
    BY BoundsAssumption DEF IInv, ReadRow, Goto, world, space, results, locals, Types
  <2>3. \A h \in Handle : (h <= minted /\ (Unshared(r) => h # handle[r])) =>
           rows'[h] = rows[h] /\ cache'[h] = cache[h] /\ sidecar'[h] = sidecar[h]
    BY DEF ReadRow, Goto, world, space, results, locals
  <2>4. handle'[r] = handle[r] \/ handle'[r] \in given \cup {0} \/ handle'[r] = minted + 1
    BY DEF IInv, ReadRow, Goto, world, space, results, locals, Types
  <2>5. \A p \in Req : proposal[p] # Nothing => proposal'[p] # Nothing
    BY DEF ReadRow, world, space, results
  <2> QED
    BY <1>1, <2>1, <2>2, <2>3, <2>4, <2>5, OthersKnow
<1>5. \A p \in Req : ProposalKnows(p)'
  BY DEF IInv, ReadRow, Goto, world, space, results, locals, ProposalKnows
<1> QED
  BY <1>1, <1>2, <1>3, <1>4, <1>5 DEF IInv

LEMMA CreateBranchIInv ==
    ASSUME IInv, NEW r \in Req, CreateBranch(r)
    PROVE  IInv'
<1>1. Types'
  BY NothingAssumption DEF IInv, CreateBranch, Goto, world, space, results, locals,
     Types, PC, Maybe
<1>2. SpaceKnows'
  BY DEF IInv, CreateBranch, Goto, world, space, results, locals, SpaceKnows
<1>3. Knows(r)'
  BY NothingAssumption DEF IInv, CreateBranch, Goto, world, space, results, locals,
     Types, SpaceKnows, Knows, Unshared, Asking, Serving, Deciding, Maybe, Uses, Script
<1>4. \A q \in Req \ {r} : Knows(q)'
  <2>1. \A q \in Req \ {r} : Local(q)' = Local(q)
    BY DEF IInv, CreateBranch, Goto, world, space, results, locals, Types, Local
  <2>2. minted <= minted' /\ given \subseteq given' /\ given' \subseteq given \cup {handle[r]}
    BY BoundsAssumption DEF IInv, CreateBranch, Goto, world, space, results, locals, Types
  <2>3. \A h \in Handle : (h <= minted /\ (Unshared(r) => h # handle[r])) =>
           rows'[h] = rows[h] /\ cache'[h] = cache[h] /\ sidecar'[h] = sidecar[h]
    BY DEF CreateBranch, Goto, world, space, results, locals
  <2>4. handle'[r] = handle[r] \/ handle'[r] \in given \cup {0} \/ handle'[r] = minted + 1
    BY DEF IInv, CreateBranch, Goto, world, space, results, locals, Types
  <2>5. \A p \in Req : proposal[p] # Nothing => proposal'[p] # Nothing
    BY DEF CreateBranch, world, space, results
  <2> QED
    BY <1>1, <2>1, <2>2, <2>3, <2>4, <2>5, OthersKnow
<1>5. \A p \in Req : ProposalKnows(p)'
  BY DEF IInv, CreateBranch, Goto, world, space, results, locals, ProposalKnows
<1> QED
  BY <1>1, <1>2, <1>3, <1>4, <1>5 DEF IInv

LEMMA GetProposalIInv ==
    ASSUME IInv, NEW r \in Req, NEW p \in Req, GetProposal(r, p)
    PROVE  IInv'
<1>1. Types'
  BY NothingAssumption DEF IInv, GetProposal, Goto, world, space, results, locals, Types,
     PC, Maybe
<1>2. SpaceKnows'
  BY DEF IInv, GetProposal, Goto, world, space, results, locals, SpaceKnows
<1>3. Knows(r)'
  BY NothingAssumption DEF IInv, GetProposal, Goto, world, space, results, locals, Types,
     SpaceKnows, Knows, Unshared, Asking, Serving, Deciding, Maybe, Uses, Script
<1>4. \A q \in Req \ {r} : Knows(q)'
  <2>1. \A q \in Req \ {r} : Local(q)' = Local(q)
    BY DEF IInv, GetProposal, Goto, world, space, results, locals, Types, Local
  <2>2. minted <= minted' /\ given \subseteq given' /\ given' \subseteq given \cup {handle[r]}
    BY BoundsAssumption DEF IInv, GetProposal, Goto, world, space, results, locals, Types
  <2>3. \A h \in Handle : (h <= minted /\ (Unshared(r) => h # handle[r])) =>
           rows'[h] = rows[h] /\ cache'[h] = cache[h] /\ sidecar'[h] = sidecar[h]
    BY DEF GetProposal, Goto, world, space, results, locals
  <2>4. handle'[r] = handle[r] \/ handle'[r] \in given \cup {0} \/ handle'[r] = minted + 1
    BY DEF IInv, GetProposal, Goto, world, space, results, locals, Types
  <2>5. \A q \in Req : proposal[q] # Nothing => proposal'[q] # Nothing
    BY DEF GetProposal, world, space, results
  <2> QED
    BY <1>1, <2>1, <2>2, <2>3, <2>4, <2>5, OthersKnow
<1>5. \A q \in Req : ProposalKnows(q)'
  BY DEF IInv, GetProposal, Goto, world, space, results, locals, ProposalKnows
<1> QED
  BY <1>1, <1>2, <1>3, <1>4, <1>5 DEF IInv

LEMMA UpsertElementIInv ==
    ASSUME IInv, NEW r \in Req, UpsertElement(r)
    PROVE  IInv'
<1>1. Types'
  BY NothingAssumption DEF IInv, UpsertElement, Goto, world, space, results, locals,
     Types, PC, Maybe
<1>2. SpaceKnows'
  BY DEF IInv, UpsertElement, Goto, world, space, results, locals, SpaceKnows
<1>3. Knows(r)'
  BY NothingAssumption DEF IInv, UpsertElement, Goto, world, space, results, locals,
     Types, SpaceKnows, Knows, Unshared, Asking, Serving, Deciding, Maybe, Uses, Script
<1>4. \A q \in Req \ {r} : Knows(q)'
  <2>1. \A q \in Req \ {r} : Local(q)' = Local(q)
    BY DEF IInv, UpsertElement, Goto, world, space, results, locals, Types, Local
  <2>2. minted <= minted' /\ given \subseteq given' /\ given' \subseteq given \cup {handle[r]}
    BY BoundsAssumption DEF IInv, UpsertElement, Goto, world, space, results, locals, Types
  <2>3. \A h \in Handle : (h <= minted /\ (Unshared(r) => h # handle[r])) =>
           rows'[h] = rows[h] /\ cache'[h] = cache[h] /\ sidecar'[h] = sidecar[h]
    BY DEF UpsertElement, Goto, world, space, results, locals
  <2>4. handle'[r] = handle[r] \/ handle'[r] \in given \cup {0} \/ handle'[r] = minted + 1
    BY DEF IInv, UpsertElement, Goto, world, space, results, locals, Types
  <2>5. \A p \in Req : proposal[p] # Nothing => proposal'[p] # Nothing
    BY DEF UpsertElement, world, space, results
  <2> QED
    BY <1>1, <2>1, <2>2, <2>3, <2>4, <2>5, OthersKnow
<1>5. \A p \in Req : ProposalKnows(p)'
  BY DEF IInv, UpsertElement, Goto, world, space, results, locals, ProposalKnows
<1> QED
  BY <1>1, <1>2, <1>3, <1>4, <1>5 DEF IInv

LEMMA CheckLinkIInv ==
    ASSUME IInv, NEW r \in Req, CheckLink(r)
    PROVE  IInv'
<1>1. Types'
  BY NothingAssumption DEF IInv, CheckLink, Goto, world, space, results, locals, Types, PC, Maybe
<1>2. SpaceKnows'
  BY DEF IInv, CheckLink, Goto, world, space, results, locals, SpaceKnows
<1>3. Knows(r)'
  BY NothingAssumption DEF IInv, CheckLink, Goto, world, space, results, locals, Types,
     SpaceKnows, Knows, Unshared, Asking, Serving, Deciding, Maybe, Uses, Script
<1>4. \A q \in Req \ {r} : Knows(q)'
  <2>1. \A q \in Req \ {r} : Local(q)' = Local(q)
    BY DEF IInv, CheckLink, Goto, world, space, results, locals, Types, Local
  <2>2. minted <= minted' /\ given \subseteq given' /\ given' \subseteq given \cup {handle[r]}
    BY BoundsAssumption DEF IInv, CheckLink, Goto, world, space, results, locals, Types
  <2>3. \A h \in Handle : (h <= minted /\ (Unshared(r) => h # handle[r])) =>
           rows'[h] = rows[h] /\ cache'[h] = cache[h] /\ sidecar'[h] = sidecar[h]
    BY DEF CheckLink, Goto, world, space, results, locals
  <2>4. handle'[r] = handle[r] \/ handle'[r] \in given \cup {0} \/ handle'[r] = minted + 1
    BY DEF IInv, CheckLink, Goto, world, space, results, locals, Types
  <2>5. \A p \in Req : proposal[p] # Nothing => proposal'[p] # Nothing
    BY DEF CheckLink, world, space, results
  <2> QED
    BY <1>1, <2>1, <2>2, <2>3, <2>4, <2>5, OthersKnow
<1>5. \A p \in Req : ProposalKnows(p)'
  BY DEF IInv, CheckLink, Goto, world, space, results, locals, ProposalKnows
<1> QED
  BY <1>1, <1>2, <1>3, <1>4, <1>5 DEF IInv

LEMMA LinkIInv ==
    ASSUME IInv, NEW r \in Req, Link(r)
    PROVE  IInv'
<1>1. Types'
  BY NothingAssumption DEF IInv, Link, Goto, world, space, results, locals, Types, PC, Maybe
<1>2. SpaceKnows'
  BY DEF IInv, Link, Goto, world, space, results, locals, SpaceKnows
<1>3. Knows(r)'
  BY NothingAssumption DEF IInv, Link, Goto, world, space, results, locals, Types,
     SpaceKnows, Knows, Unshared, Asking, Serving, Deciding, Maybe, Uses, Script
<1>4. \A q \in Req \ {r} : Knows(q)'
  <2>1. \A q \in Req \ {r} : Local(q)' = Local(q)
    BY DEF IInv, Link, Goto, world, space, results, locals, Types, Local
  <2>2. minted <= minted' /\ given \subseteq given' /\ given' \subseteq given \cup {handle[r]}
    BY BoundsAssumption DEF IInv, Link, Goto, world, space, results, locals, Types
  <2>3. \A h \in Handle : (h <= minted /\ (Unshared(r) => h # handle[r])) =>
           rows'[h] = rows[h] /\ cache'[h] = cache[h] /\ sidecar'[h] = sidecar[h]
    BY DEF Link, Goto, world, space, results, locals
  <2>4. handle'[r] = handle[r] \/ handle'[r] \in given \cup {0} \/ handle'[r] = minted + 1
    BY DEF IInv, Link, Goto, world, space, results, locals, Types
  <2>5. \A p \in Req : proposal[p] # Nothing => proposal'[p] # Nothing
    BY DEF Link, world, space, results
  <2> QED
    BY <1>1, <2>1, <2>2, <2>3, <2>4, <2>5, OthersKnow
<1>5. \A p \in Req : ProposalKnows(p)'
  BY DEF IInv, Link, Goto, world, space, results, locals, ProposalKnows
<1> QED
  BY <1>1, <1>2, <1>3, <1>4, <1>5 DEF IInv

LEMMA RecordIInv ==
    ASSUME IInv, NEW r \in Req, Record(r)
    PROVE  IInv'
<1>1. Types'
  BY NothingAssumption DEF IInv, Record, Goto, world, space, results, locals, Types, PC,
     Maybe
<1>2. SpaceKnows'
  BY DEF IInv, Record, Goto, world, space, results, locals, SpaceKnows
<1>3. Knows(r)'
  BY NothingAssumption DEF IInv, Record, Goto, world, space, results, locals, Types,
     SpaceKnows, Knows, Unshared, Asking, Serving, Deciding, Maybe, Uses, Script
<1>4. \A q \in Req \ {r} : Knows(q)'
  <2>1. \A q \in Req \ {r} : Local(q)' = Local(q)
    BY DEF IInv, Record, Goto, world, space, results, locals, Types, Local
  <2>2. minted <= minted' /\ given \subseteq given' /\ given' \subseteq given \cup {handle[r]}
    BY BoundsAssumption DEF IInv, Record, Goto, world, space, results, locals, Types
  <2>3. \A h \in Handle : (h <= minted /\ (Unshared(r) => h # handle[r])) =>
           rows'[h] = rows[h] /\ cache'[h] = cache[h] /\ sidecar'[h] = sidecar[h]
    BY DEF Record, Goto, world, space, results, locals
  <2>4. handle'[r] = handle[r] \/ handle'[r] \in given \cup {0} \/ handle'[r] = minted + 1
    BY DEF IInv, Record, Goto, world, space, results, locals, Types
  <2>5. \A p \in Req : proposal[p] # Nothing => proposal'[p] # Nothing
    BY DEF Record, world, space, results
  <2> QED
    BY <1>1, <2>1, <2>2, <2>3, <2>4, <2>5, OthersKnow
<1>5. \A p \in Req : ProposalKnows(p)'
  BY DEF IInv, Record, Goto, world, space, results, locals, ProposalKnows
<1> QED
  BY <1>1, <1>2, <1>3, <1>4, <1>5 DEF IInv

LEMMA FailIInv ==
    ASSUME IInv, NEW r \in Req, Fail(r)
    PROVE  IInv'
<1>1. Types'
  BY NothingAssumption DEF IInv, Fail, Active, Over, Goto, world, space, results, locals,
     Types, PC, Maybe
<1>2. SpaceKnows'
  BY DEF IInv, Fail, Active, Over, Goto, world, space, results, locals, SpaceKnows
<1>3. Knows(r)'
  BY NothingAssumption DEF IInv, Fail, Active, Over, Goto, world, space, results, locals,
     Types, SpaceKnows, Knows, Unshared, Asking, Serving, Deciding, Maybe, Uses, Script
<1>4. \A q \in Req \ {r} : Knows(q)'
  <2>1. \A q \in Req \ {r} : Local(q)' = Local(q)
    BY DEF IInv, Fail, Active, Over, Goto, world, space, results, locals, Types, Local
  <2>2. minted <= minted' /\ given \subseteq given' /\ given' \subseteq given \cup {handle[r]}
    BY BoundsAssumption DEF IInv, Fail, Active, Over, Goto, world, space, results,
       locals, Types
  <2>3. \A h \in Handle : (h <= minted /\ (Unshared(r) => h # handle[r])) =>
           rows'[h] = rows[h] /\ cache'[h] = cache[h] /\ sidecar'[h] = sidecar[h]
    BY DEF Fail, Active, Over, Goto, world, space, results, locals
  <2>4. handle'[r] = handle[r] \/ handle'[r] \in given \cup {0} \/ handle'[r] = minted + 1
    BY DEF IInv, Fail, Active, Over, Goto, world, space, results, locals, Types
  <2>5. \A p \in Req : proposal[p] # Nothing => proposal'[p] # Nothing
    BY DEF Fail, world, space, results
  <2> QED
    BY <1>1, <2>1, <2>2, <2>3, <2>4, <2>5, OthersKnow
<1>5. \A p \in Req : ProposalKnows(p)'
  BY DEF IInv, Fail, Active, Over, Goto, world, space, results, locals, ProposalKnows
<1> QED
  BY <1>1, <1>2, <1>3, <1>4, <1>5 DEF IInv

LEMMA FileIInv ==
    ASSUME IInv, NEW r \in Req, File(r)
    PROVE  IInv'
<1>0. handle[r] \in 1..minted /\ handle[r] \in Handle
      /\ [handle |-> handle[r], subsystem |-> target[r], of |-> got[r], status |-> "pending"] \in Row
  <2>1. handle[r] \in Handle /\ rows[handle[r]] = rows[sent[r]] /\ sent[r] \in given
    BY DEF IInv, File, Goto, Knows, Serving
  <2>2. rows[handle[r]] # Nothing
    BY <2>1 DEF IInv, SpaceKnows
  <2>3. handle[r] \in 1..minted
    BY <2>1, <2>2 DEF IInv, SpaceKnows
  <2> QED
    BY <2>1, <2>3 DEF IInv, Types, Row
<1>1. Types'
  <2>1. /\ given' = given \cup {handle[r]}
        /\ UNCHANGED <<version, minted, rows, cache, sidecar, call, target, sent, handle, found, got>>
        /\ pc[r] = "file"
    BY DEF IInv, File, Goto, world, locals, Types
  <2>2. proposal' \in [Req -> Maybe(Row)]
    BY <1>0 DEF IInv, File, Types, Maybe
  <2>3. pc' \in [Req -> PC]
    BY DEF IInv, File, Goto, Types, PC
  <2> QED
    BY <1>0, <2>1, <2>2, <2>3 DEF IInv, Types
<1>2. SpaceKnows'
  <2>1. rows[handle[r]] # Nothing
    BY DEF IInv, File, Goto, SpaceKnows, Knows, Serving
  <2> QED
    BY <2>1 DEF IInv, File, SpaceKnows
<1>3. Knows(r)'
  <2>1. /\ pc'[r] = "done"
        /\ UNCHANGED <<handle, sent, got, call, minted, found, rows, sidecar, cache>>
        /\ given \subseteq given'
    BY DEF IInv, File, Goto, world, locals, Types
  <2> QED
    BY <2>1 DEF IInv, Knows, Asking, Serving, Deciding, Maybe
<1>4. \A q \in Req \ {r} : Knows(q)'
  <2>1. \A q \in Req \ {r} : Local(q)' = Local(q)
    BY DEF IInv, File, Goto, world, space, results, locals, Types, Local
  <2>2. minted <= minted' /\ given \subseteq given' /\ given' \subseteq given \cup {handle[r]}
    BY BoundsAssumption DEF IInv, File, Goto, world, space, results, locals, Types
  <2>3. \A h \in Handle : (h <= minted /\ (Unshared(r) => h # handle[r])) =>
           rows'[h] = rows[h] /\ cache'[h] = cache[h] /\ sidecar'[h] = sidecar[h]
    BY DEF File, Goto, world, space, results, locals
  <2>4. handle'[r] = handle[r] \/ handle'[r] \in given \cup {0} \/ handle'[r] = minted + 1
    BY DEF IInv, File, Goto, world, space, results, locals, Types
  <2>5. \A p \in Req : proposal[p] # Nothing => proposal'[p] # Nothing
    <3>1. proposal'[r] \in Row /\ \A p \in Req \ {r} : proposal'[p] = proposal[p]
      BY <1>0 DEF IInv, File, Types
    <3> QED
      BY <3>1, NothingAssumption
  <2> QED
    BY <1>1, <2>1, <2>2, <2>3, <2>4, <2>5, OthersKnow
<1>5. \A p \in Req : ProposalKnows(p)'
  <2>1. handle[r] \in given' /\ got[r] = {rows[handle[r]]} /\ rows' = rows
        /\ given \subseteq given'
    BY DEF IInv, File, Goto, Knows, Serving
  <2> QED
    BY <2>1 DEF IInv, Types, File, ProposalKnows
<1> QED
  BY <1>1, <1>2, <1>3, <1>4, <1>5 DEF IInv

LEMMA SetStatusIInv ==
    ASSUME IInv, NEW r \in Req, SetStatus(r)
    PROVE  IInv'
<1>0. \E x \in Row :
         /\ x.handle = proposal[target[r]].handle /\ x.of = proposal[target[r]].of
         /\ target[r] \in Req /\ proposal[target[r]] # Nothing
         /\ proposal' = [proposal EXCEPT ![target[r]] = x]
  <2>1. target[r] \in Req /\ proposal[target[r]] # Nothing
    BY DEF IInv, SetStatus, Goto, Knows, Deciding
  <2>2. proposal[target[r]] \in Row
    BY <2>1 DEF IInv, Types, Maybe
  <2> DEFINE x == [proposal[target[r]] EXCEPT !.status = IF call[r] = "accept" THEN "accepted" ELSE "rejected"]
  <2>3. x \in Row /\ x.handle = proposal[target[r]].handle /\ x.of = proposal[target[r]].of
    BY <2>2 DEF Row
  <2>4. proposal' = [proposal EXCEPT ![target[r]] = x]
    BY DEF SetStatus
  <2> HIDE DEF x
  <2> QED
    BY <2>1, <2>3, <2>4
<1>1. Types'
  <2>1. proposal' \in [Req -> Maybe(Row)]
    BY <1>0 DEF IInv, Types, Maybe
  <2>2. pc' \in [Req -> PC]
    BY DEF IInv, SetStatus, Goto, Types, PC
  <2> QED
    BY <2>1, <2>2 DEF IInv, SetStatus, world, space, locals, Types
<1>2. SpaceKnows'
  BY DEF IInv, SetStatus, Goto, world, space, results, locals, SpaceKnows
<1>3. Knows(r)'
  BY NothingAssumption DEF IInv, SetStatus, Goto, world, space, results, locals, Types,
     SpaceKnows, Knows, Unshared, Asking, Serving, Deciding, Maybe, Uses, Script
<1>4. \A q \in Req \ {r} : Knows(q)'
  <2>1. \A q \in Req \ {r} : Local(q)' = Local(q)
    BY DEF IInv, SetStatus, Goto, world, space, results, locals, Types, Local
  <2>2. minted <= minted' /\ given \subseteq given' /\ given' \subseteq given \cup {handle[r]}
    BY BoundsAssumption DEF IInv, SetStatus, Goto, world, space, results, locals, Types
  <2>3. \A h \in Handle : (h <= minted /\ (Unshared(r) => h # handle[r])) =>
           rows'[h] = rows[h] /\ cache'[h] = cache[h] /\ sidecar'[h] = sidecar[h]
    BY DEF SetStatus, Goto, world, space, results, locals
  <2>4. handle'[r] = handle[r] \/ handle'[r] \in given \cup {0} \/ handle'[r] = minted + 1
    BY DEF IInv, SetStatus, Goto, world, space, results, locals, Types
  <2>5. \A p \in Req : proposal[p] # Nothing => proposal'[p] # Nothing
    BY <1>0, NothingAssumption DEF IInv, Types
  <2> QED
    BY <1>1, <2>1, <2>2, <2>3, <2>4, <2>5, OthersKnow
<1>5. \A p \in Req : ProposalKnows(p)'
  BY <1>0 DEF IInv, SetStatus, space, Types, ProposalKnows
<1> QED
  BY <1>1, <1>2, <1>3, <1>4, <1>5 DEF IInv

-----------------------------------------------------------------------------
(* A minted handle is its request's own; what is kept under it becomes the   *)
(* row, and stays the same for everybody.                                    *)

LEMMA MintedIsUnshared ==
    ASSUME IInv, NEW r \in Req, Mint(r), found[r] \in Definition
    PROVE  /\ handle'[r] = minted + 1 /\ minted' = minted + 1 /\ minted + 1 \in Handle
           /\ rows[minted + 1] = Nothing /\ cache[minted + 1] = Nothing
           /\ sidecar' = [sidecar EXCEPT ![minted + 1] = found[r]]
           /\ Unshared(r)'
<1>1. minted \in Nat /\ minted + 1 \in Handle /\ minted + 1 \in 1..minted'
      /\ minted + 1 \notin 1..minted
      /\ minted' = minted + 1 /\ handle'[r] = minted + 1
  BY BoundsAssumption DEF IInv, Types, Mint, Handle
<1>2. rows[minted + 1] = Nothing /\ cache[minted + 1] = Nothing
  BY <1>1 DEF IInv, SpaceKnows
<1>3. sidecar' = [sidecar EXCEPT ![minted + 1] = found[r]] /\ sidecar'[minted + 1] = found[r]
  BY <1>1 DEF IInv, Types, Mint
<1>4. minted + 1 \notin given /\ given' = given
  BY <1>1 DEF IInv, Types, Mint
<1>5. \A q \in Req \ {r} : handle'[q] # minted + 1
  <2> SUFFICES ASSUME NEW q \in Req \ {r} PROVE handle'[q] # minted + 1
    OBVIOUS
  <2>1. handle'[q] = handle[q] /\ handle[q] \in Maybe(0..minted)
    BY DEF IInv, Types, Mint, Knows
  <2> QED
    BY <1>1, <2>1, NothingAssumption DEF Maybe
<1>6. rows' = rows /\ cache' = cache /\ found' = found
  BY DEF Mint
<1> QED
  BY <1>1, <1>2, <1>3, <1>4, <1>5, <1>6 DEF Unshared

LEMMA MintKeeps ==
    ASSUME IInv, NEW r \in Req, Mint(r), found[r] \in Definition, pc' \in [Req -> PC]
    PROVE  Types' /\ SpaceKnows' /\ \A p \in Req : ProposalKnows(p)'
<1>1. /\ handle'[r] = minted + 1 /\ minted' = minted + 1 /\ minted + 1 \in Handle
      /\ rows[minted + 1] = Nothing /\ cache[minted + 1] = Nothing
      /\ sidecar' = [sidecar EXCEPT ![minted + 1] = found[r]]
  BY MintedIsUnshared
<1>2. Types'
  <2>1. minted' \in 0..MaxHandles /\ given' \subseteq 1..minted'
    BY <1>1, BoundsAssumption DEF IInv, Types, Mint
  <2>2. sidecar' \in [Handle -> Maybe(Definition)]
    BY <1>1 DEF IInv, Types, Maybe
  <2>3. handle' \in [Req -> Maybe(Handle)]
    BY <1>1 DEF IInv, Types, Maybe, Mint
  <2> QED
    BY <2>1, <2>2, <2>3 DEF IInv, Types, Mint, world, results
<1>3. SpaceKnows'
  <2>1. \A h \in Handle : h \notin 1..minted' => h \notin 1..minted /\ h # minted + 1
    BY <1>1, BoundsAssumption DEF IInv, Types, Handle
  <2>2. \A h \in Handle : h # minted + 1 => sidecar'[h] = sidecar[h]
    BY <1>1 DEF IInv, Types
  <2>3. rows' = rows /\ cache' = cache /\ given' = given
    BY DEF Mint
  <2> QED
    BY <1>1, <2>1, <2>2, <2>3 DEF IInv, SpaceKnows
<1>4. \A p \in Req : ProposalKnows(p)'
  BY DEF IInv, Mint, results, ProposalKnows
<1> QED
  BY <1>2, <1>3, <1>4

LEMMA MintLeavesOthers ==
    ASSUME IInv, NEW r \in Req, Mint(r), found[r] \in Definition, Types',
           \A q \in Req \ {r} : pc'[q] = pc[q]
    PROVE  \A q \in Req \ {r} : Knows(q)'
<1>1. handle'[r] = minted + 1 /\ minted' = minted + 1 /\ minted + 1 \in Handle
      /\ sidecar' = [sidecar EXCEPT ![minted + 1] = found[r]]
  BY MintedIsUnshared
<1>2. \A q \in Req \ {r} : Local(q)' = Local(q)
  BY DEF IInv, Mint, Types, Local
<1>3. minted <= minted' /\ given \subseteq given' /\ given' \subseteq given \cup {handle[r]}
  BY <1>1, BoundsAssumption DEF IInv, Mint, Types
<1>4. \A h \in Handle : (h <= minted /\ (Unshared(r) => h # handle[r])) =>
         rows'[h] = rows[h] /\ cache'[h] = cache[h] /\ sidecar'[h] = sidecar[h]
  BY <1>1, BoundsAssumption DEF IInv, Mint, Types, Handle
<1>5. \A p \in Req : proposal[p] # Nothing => proposal'[p] # Nothing
  BY DEF Mint, results
<1> QED
  BY <1>1, <1>2, <1>3, <1>4, <1>5, OthersKnow

LEMMA DefineIInv ==
    ASSUME IInv, NEW r \in Req, Define(r)
    PROVE  IInv'
<1>1. found[r] \in Definition /\ call[r] = "define" /\ Mint(r)
  BY DEF IInv, Define, Goto, Knows
<1>2. pc' = [pc EXCEPT ![r] = "stats"] /\ pc' \in [Req -> PC] /\ pc'[r] = "stats"
      /\ \A q \in Req \ {r} : pc'[q] = pc[q]
  BY DEF IInv, Define, Goto, Types, PC
<1>3. Types' /\ SpaceKnows' /\ \A p \in Req : ProposalKnows(p)'
  BY <1>1, <1>2, MintKeeps
<1>4. \A q \in Req \ {r} : Knows(q)'
  BY <1>1, <1>2, <1>3, MintLeavesOthers
<1>5. Knows(r)'
  <2>1. Unshared(r)'
    BY <1>1, MintedIsUnshared
  <2>2. handle'[r] \in 1..minted'
    BY <2>1 DEF Unshared
  <2>3. sent' = sent /\ given' = given /\ call' = call
    BY <1>1 DEF Mint
  <2> QED
    BY <1>1, <1>2, <2>1, <2>2, <2>3 DEF IInv, Knows, Asking, Serving, Deciding, Maybe
<1> QED
  BY <1>3, <1>4, <1>5 DEF IInv

LEMMA RedefineIInv ==
    ASSUME IInv, NEW r \in Req, Redefine(r)
    PROVE  IInv'
<1>1. Mint(r) /\ pc[r] = "redefine" /\ sent[r] \in given /\ found[r] = rows[sent[r]]
      /\ got[r] = {}
      /\ call[r] \in Uses
  BY DEF IInv, Redefine, Goto, Knows, Asking
<1>2. found[r] \in Definition
  <2>1. sent[r] \in Handle
    BY <1>1, GivenAreHandles
  <2>2. rows[sent[r]] # Nothing
    BY <1>1 DEF IInv, SpaceKnows
  <2> QED
    BY <1>1, <2>1, <2>2 DEF IInv, Types, Maybe
<1>3. pc' = [pc EXCEPT ![r] = "keep"] /\ pc' \in [Req -> PC] /\ pc'[r] = "keep"
      /\ \A q \in Req \ {r} : pc'[q] = pc[q]
  BY DEF IInv, Redefine, Goto, Types, PC
<1>4. Types' /\ SpaceKnows' /\ \A p \in Req : ProposalKnows(p)'
  BY <1>1, <1>2, <1>3, MintKeeps
<1>5. \A q \in Req \ {r} : Knows(q)'
  BY <1>1, <1>2, <1>3, <1>4, MintLeavesOthers
<1>6. Knows(r)'
  <2>1. Unshared(r)'
    BY <1>1, <1>2, MintedIsUnshared
  <2>2. handle'[r] \in 1..minted'
    BY <2>1 DEF Unshared
  <2>3. UNCHANGED <<sent, given, call, found, rows, got>>
    BY <1>1 DEF Mint
  <2> QED
    BY <1>1, <1>3, <2>1, <2>2, <2>3 DEF IInv, Knows, Asking, Serving, Deciding, Maybe
<1> QED
  BY <1>4, <1>5, <1>6 DEF IInv

LEMMA KeepKeeps ==
    ASSUME IInv, NEW r \in Req, Keep(r), Unshared(r), given' \in {given, given \cup {handle[r]}},
           pc' \in [Req -> PC], \A q \in Req \ {r} : pc'[q] = pc[q]
    PROVE  /\ Types' /\ SpaceKnows' /\ \A p \in Req : ProposalKnows(p)'
           /\ \A q \in Req \ {r} : Knows(q)'
           /\ handle[r] \in Handle /\ \A h \in given : rows'[h] = rows[h]
           /\ rows'[handle[r]] = found[r]
<1>1. handle[r] \in 1..minted /\ handle[r] \in Handle /\ handle[r] \notin given
      /\ found[r] \in Definition
      /\ sidecar[handle[r]] \in {Nothing, found[r]}
  BY BoundsAssumption DEF IInv, Types, Unshared, Handle
<1>2. rows'[handle[r]] = found[r] /\ cache'[handle[r]] = found[r] /\ sidecar' = sidecar
      /\ found[r] # Nothing
  BY <1>1, NothingAssumption DEF IInv, Types, Keep
<1>3. \A h \in Handle : h # handle[r] => rows'[h] = rows[h] /\ cache'[h] = cache[h]
  BY DEF IInv, Types, Keep
<1>4. given \subseteq Handle /\ \A h \in given : rows'[h] = rows[h] /\ h # handle[r]
  BY <1>1, <1>3, BoundsAssumption DEF IInv, Types, Handle
<1>5. Types'
  <2>1. rows' \in [Handle -> Maybe(Definition)] /\ cache' \in [Handle -> Maybe(Definition)]
    BY <1>1 DEF IInv, Types, Keep, Maybe
  <2>2. given' \subseteq 1..minted'
    BY <1>1 DEF IInv, Types, Keep
  <2> QED
    BY <2>1, <2>2 DEF IInv, Types, Keep, world, results, locals
<1>6. SpaceKnows'
  <2>1. minted' = minted
    BY DEF Keep
  <2> QED
    BY <1>1, <1>2, <1>3, <1>4, <2>1 DEF IInv, SpaceKnows
<1>7. \A p \in Req : ProposalKnows(p)'
  BY <1>4 DEF IInv, ProposalKnows, Keep, results
<1>8. \A q \in Req \ {r} : Knows(q)'
  <2>1. \A q \in Req \ {r} : Local(q)' = Local(q)
    BY DEF Keep, locals, Local
  <2>2. minted <= minted' /\ given \subseteq given' /\ given' \subseteq given \cup {handle[r]}
    BY BoundsAssumption DEF IInv, Types, Keep
  <2>3. \A h \in Handle : (h <= minted /\ (Unshared(r) => h # handle[r])) =>
           rows'[h] = rows[h] /\ cache'[h] = cache[h] /\ sidecar'[h] = sidecar[h]
    BY <1>2, <1>3
  <2>4. handle'[r] = handle[r]
    BY DEF Keep, locals
  <2>5. \A p \in Req : proposal[p] # Nothing => proposal'[p] # Nothing
    BY DEF Keep, results
  <2> QED
    BY <1>5, <2>1, <2>2, <2>3, <2>4, <2>5, OthersKnow
<1> QED
  BY <1>1, <1>2, <1>4, <1>5, <1>6, <1>7, <1>8

LEMMA PersistIInv ==
    ASSUME IInv, NEW r \in Req, Persist(r)
    PROVE  IInv'
<1>1. Keep(r) /\ Unshared(r) /\ given' = given \cup {handle[r]}
  BY DEF IInv, Persist, Goto, Knows
<1>2. pc' \in [Req -> PC] /\ pc'[r] = "done" /\ \A q \in Req \ {r} : pc'[q] = pc[q]
  BY DEF IInv, Persist, Goto, Types, PC
<1>3. Types' /\ SpaceKnows' /\ (\A p \in Req : ProposalKnows(p)')
      /\ (\A q \in Req \ {r} : Knows(q)')
  BY <1>1, <1>2, KeepKeeps
<1>4. Knows(r)'
  <2>1. UNCHANGED <<minted, handle, sent, got, call>>
    BY <1>1 DEF Keep, locals
  <2> QED
    BY <1>1, <1>2, <2>1 DEF IInv, Knows, Asking, Serving, Deciding, Maybe
<1> QED
  BY <1>3, <1>4 DEF IInv

LEMMA KeepFreshIInv ==
    ASSUME IInv, NEW r \in Req, KeepFresh(r)
    PROVE  IInv'
<1>1. Keep(r) /\ Unshared(r) /\ given' = given /\ sent[r] \in given /\ found[r] = rows[sent[r]]
      /\ got[r] = {} /\ call[r] \in Uses
  BY DEF IInv, KeepFresh, Goto, Knows, Asking
<1>2. pc' \in [Req -> PC] /\ pc'[r] = "serve" /\ \A q \in Req \ {r} : pc'[q] = pc[q]
  BY DEF IInv, KeepFresh, Goto, Types, PC
<1>3. /\ Types' /\ SpaceKnows' /\ (\A p \in Req : ProposalKnows(p)')
      /\ (\A q \in Req \ {r} : Knows(q)')
      /\ handle[r] \in Handle /\ (\A h \in given : rows'[h] = rows[h])
      /\ rows'[handle[r]] = found[r]
  BY <1>1, <1>2, KeepKeeps
<1>4. Knows(r)'
  <2>1. UNCHANGED <<minted, handle, sent, got, call>>
    BY <1>1 DEF Keep, locals
  <2>2. handle[r] \in Maybe(0..minted)
    BY DEF IInv, Knows
  <2> QED
    BY <1>1, <1>2, <1>3, <2>1, <2>2 DEF Knows, Asking, Serving, Deciding, Maybe
<1> QED
  BY <1>3, <1>4 DEF IInv

-----------------------------------------------------------------------------
(* While a request is served, what the sidecar, the cache and the row have   *)
(* under its handle is the row of the handle its client sent.                *)

LEMMA ServedFromTheRow ==
    ASSUME IInv, NEW r \in Req, pc[r] \in Serving
    PROVE  /\ sent[r] \in given /\ handle[r] \in Handle /\ handle[r] \in 1..minted
           /\ rows[sent[r]] # Nothing /\ rows[handle[r]] = rows[sent[r]]
           /\ sidecar[handle[r]] \in {Nothing, rows[sent[r]]}
           /\ cache[handle[r]] \in {Nothing, rows[sent[r]]}
<1>1. sent[r] \in given /\ handle[r] \in Handle /\ rows[handle[r]] = rows[sent[r]]
  BY DEF IInv, Knows
<1>2. rows[sent[r]] # Nothing
  BY <1>1 DEF IInv, SpaceKnows
<1> QED
  BY <1>1, <1>2 DEF IInv, SpaceKnows

LEMMA UsedIInv ==
    ASSUME IInv, NEW r \in Req, Used(r, rows[sent[r]]),
           UNCHANGED <<world, sidecar, rows, cache, minted, results, call, target, sent, handle,
                       found, restarts>>
    PROVE  IInv'
<1>1. pc[r] = "serve" /\ call[r] \in Uses /\ got[r] \subseteq {rows[sent[r]]}
  BY DEF IInv, Used, Goto, Knows, Serving, Asking
<1>2. /\ sent[r] \in given /\ handle[r] \in Handle /\ handle[r] \in 1..minted
      /\ rows[sent[r]] # Nothing /\ rows[handle[r]] = rows[sent[r]]
  BY <1>1, ServedFromTheRow DEF Serving
<1>3. rows[sent[r]] \in Maybe(Definition)
  BY <1>2, GivenAreHandles DEF IInv, Types
<1>4. pc' \in [Req -> PC] /\ pc'[r] \in {"done", "branch", "serve"}
      /\ \A q \in Req \ {r} : pc'[q] = pc[q]
  BY DEF IInv, Used, Goto, Types, PC
<1>5. got' \in [Req -> SUBSET Maybe(Definition)] /\ got'[r] = {rows[sent[r]]}
      /\ \A q \in Req \ {r} : got'[q] = got[q]
  BY <1>1, <1>3 DEF IInv, Used, Types
<1>6. given' \in {given, given \cup {handle[r]}}
  BY DEF Used
<1>7. Types'
  BY <1>2, <1>4, <1>5, <1>6 DEF IInv, Types, world, results
<1>8. SpaceKnows'
  BY <1>2, <1>6 DEF IInv, SpaceKnows
<1>9. \A p \in Req : ProposalKnows(p)'
  BY <1>6 DEF IInv, ProposalKnows, results
<1>10. Knows(r)'
  <2>1. handle[r] \in Maybe(0..minted)
    BY DEF IInv, Knows
  <2> QED
    BY <1>1, <1>2, <1>4, <1>5, <1>6, <2>1 DEF Knows, Asking, Serving, Deciding
<1>11. \A q \in Req \ {r} : Knows(q)'
  <2>1. \A q \in Req \ {r} : Local(q)' = Local(q)
    BY <1>4, <1>5 DEF Local
  <2>2. minted <= minted' /\ given \subseteq given' /\ given' \subseteq given \cup {handle[r]}
    BY <1>6, BoundsAssumption DEF IInv, Types
  <2>3. \A h \in Handle : rows'[h] = rows[h] /\ cache'[h] = cache[h]
        /\ sidecar'[h] = sidecar[h]
    OBVIOUS
  <2>4. handle'[r] = handle[r]
    OBVIOUS
  <2>5. \A p \in Req : proposal[p] # Nothing => proposal'[p] # Nothing
    BY DEF results
  <2> QED
    BY <1>7, <2>1, <2>2, <2>3, <2>4, <2>5, OthersKnow
<1> QED
  BY <1>7, <1>8, <1>9, <1>10, <1>11 DEF IInv

LEMMA ReadDefinitionUses ==
    ASSUME IInv, NEW r \in Req, ReadDefinition(r)
    PROVE  Used(r, rows[sent[r]])
<1>1. pc[r] \in Serving
  BY DEF ReadDefinition, Serving
<1>2. (IF cache[handle[r]] # Nothing THEN cache[handle[r]] ELSE rows[handle[r]]) = rows[sent[r]]
  BY <1>1, ServedFromTheRow
<1> QED
  BY <1>2 DEF ReadDefinition

LEMMA AskSidecarUses ==
    ASSUME IInv, NEW r \in Req, AskSidecar(r), sidecar[handle[r]] # Nothing
    PROVE  Used(r, rows[sent[r]])
<1>1. pc[r] \in Serving
  BY DEF AskSidecar, Serving
<1>2. sidecar[handle[r]] = rows[sent[r]]
  BY <1>1, ServedFromTheRow
<1> QED
  BY <1>2 DEF AskSidecar

LEMMA ReadDefinitionIInv ==
    ASSUME IInv, NEW r \in Req, ReadDefinition(r)
    PROVE  IInv'
BY ReadDefinitionUses, UsedIInv DEF ReadDefinition

(* The sidecar was restarted again: the request fails.                       *)
Unserved(r) ==
    /\ Goto(r, "serve", "failed")
    /\ UNCHANGED <<world, space, results, call, locals, restarts>>

LEMMA UnservedIInv ==
    ASSUME IInv, NEW r \in Req, Unserved(r)
    PROVE  IInv'
<1>1. Types'
  BY NothingAssumption DEF IInv, Unserved, Goto, world, space, results, locals, Types,
     PC, Maybe
<1>2. SpaceKnows'
  BY DEF IInv, Unserved, Goto, world, space, results, locals, SpaceKnows
<1>3. Knows(r)'
  BY NothingAssumption DEF IInv, Unserved, Goto, world, space, results, locals, Types,
     SpaceKnows, Knows, Unshared, Asking, Serving, Deciding, Maybe, Uses, Script
<1>4. \A q \in Req \ {r} : Knows(q)'
  <2>1. \A q \in Req \ {r} : Local(q)' = Local(q)
    BY DEF IInv, Unserved, Goto, world, space, results, locals, Types, Local
  <2>2. minted <= minted' /\ given \subseteq given' /\ given' \subseteq given \cup {handle[r]}
    BY BoundsAssumption DEF IInv, Unserved, Goto, world, space, results, locals, Types
  <2>3. \A h \in Handle : (h <= minted /\ (Unshared(r) => h # handle[r])) =>
           rows'[h] = rows[h] /\ cache'[h] = cache[h] /\ sidecar'[h] = sidecar[h]
    BY DEF Unserved, Goto, world, space, results, locals
  <2>4. handle'[r] = handle[r] \/ handle'[r] \in given \cup {0} \/ handle'[r] = minted + 1
    BY DEF IInv, Unserved, Goto, world, space, results, locals, Types
  <2>5. \A p \in Req : proposal[p] # Nothing => proposal'[p] # Nothing
    BY DEF Unserved, world, space, results
  <2> QED
    BY <1>1, <2>1, <2>2, <2>3, <2>4, <2>5, OthersKnow
<1>5. \A p \in Req : ProposalKnows(p)'
  BY DEF IInv, Unserved, Goto, world, space, results, locals, ProposalKnows
<1> QED
  BY <1>1, <1>2, <1>3, <1>4, <1>5 DEF IInv

LEMMA AskSidecarIInv ==
    ASSUME IInv, NEW r \in Req, AskSidecar(r)
    PROVE  IInv'
<1>1. CASE sidecar[handle[r]] # Nothing
  BY <1>1, AskSidecarUses, UsedIInv DEF AskSidecar
<1>2. CASE sidecar[handle[r]] = Nothing
  <2>1. Unserved(r)
    BY <1>2 DEF AskSidecar, Unserved, space, locals
  <2> QED
    BY <2>1, UnservedIInv
<1> QED
  BY <1>1, <1>2

-----------------------------------------------------------------------------
(* Steps that are no request's: edits and restarts.                          *)

LEMMA WorldIInv ==
    ASSUME IInv, (\E s \in Subsystem : Edit(s)) \/ (\E e \in Elements : Delete(e))
    PROVE  IInv'
<1>1. Types'
  <2>1. version' \in [Subsystem -> Nat] /\ \A t \in Subsystem : version'[t] <= MaxVersion[t]
    BY BoundsAssumption DEF IInv, Types, Edit, Delete
  <2> QED
    BY <2>1 DEF IInv, Types, Edit, Delete, space, results, locals
<1>2. SpaceKnows'
  BY DEF IInv, SpaceKnows, Edit, Delete, space
<1>3. \A r \in Req : Knows(r)'
  BY DEF IInv, Knows, Unshared, Edit, Delete, space, results, locals
<1>4. \A p \in Req : ProposalKnows(p)'
  BY DEF IInv, ProposalKnows, Edit, Delete, space, results
<1> QED
  BY <1>1, <1>2, <1>3, <1>4 DEF IInv

LEMMA RestartSidecarIInv ==
    ASSUME IInv, RestartSidecar
    PROVE  IInv'
<1>1. \A h \in Handle : sidecar'[h] = Nothing
  BY DEF RestartSidecar
<1>2. UNCHANGED <<world, rows, cache, minted, given, results, call, pc, locals>>
  BY DEF RestartSidecar, Restart
<1>3. Types'
  BY <1>2 DEF IInv, Types, RestartSidecar, world, results, locals, Maybe
<1>4. SpaceKnows'
  BY <1>1, <1>2 DEF IInv, SpaceKnows
<1>5. \A r \in Req : Knows(r)'
  <2> SUFFICES ASSUME NEW r \in Req PROVE Knows(r)'
    OBVIOUS
  <2>1. Unshared(r) => Unshared(r)'
    <3>1. handle[r] \in 1..minted => handle[r] \in Handle
      BY BoundsAssumption DEF IInv, Types, Handle
    <3> QED
      BY <1>1, <1>2, <3>1 DEF Unshared, locals
  <2> QED
    BY <1>2, <2>1 DEF IInv, Knows, results, locals
<1>6. \A p \in Req : ProposalKnows(p)'
  BY <1>2 DEF IInv, ProposalKnows, results
<1> QED
  BY <1>3, <1>4, <1>5, <1>6 DEF IInv

LEMMA RestartApiIInv ==
    ASSUME IInv, RestartApi
    PROVE  IInv'
<1>1. \A h \in Handle : cache'[h] = Nothing
  BY DEF RestartApi
<1>2. UNCHANGED <<world, rows, sidecar, minted, given, results, call, locals>>
  BY DEF RestartApi, Restart
<1>3. pc' \in [Req -> PC]
      /\ \A r \in Req : pc'[r] = "failed" \/ (pc'[r] = pc[r] /\ pc[r] \in Over \cup {"idle"})
  BY DEF IInv, Types, RestartApi, Active, PC
<1>4. Types'
  BY <1>2, <1>3 DEF IInv, Types, RestartApi, world, results, locals, Maybe
<1>5. SpaceKnows'
  BY <1>1, <1>2 DEF IInv, SpaceKnows
<1>6. \A r \in Req : Knows(r)'
  BY <1>2, <1>3 DEF IInv, Knows, results, locals, Over, Asking, Serving, Deciding
<1>7. \A p \in Req : ProposalKnows(p)'
  BY <1>2 DEF IInv, ProposalKnows, results
<1> QED
  BY <1>4, <1>5, <1>6, <1>7 DEF IInv

LEMMA StutterIInv ==
    ASSUME IInv, UNCHANGED vars
    PROVE  IInv'
<1>1. UNCHANGED <<world, space, results, call, pc, locals>>
  BY DEF vars
<1>2. Types'
  BY <1>1 DEF IInv, Types, world, space, results, locals
<1>3. SpaceKnows'
  BY <1>1 DEF IInv, SpaceKnows, space
<1>4. \A r \in Req : Knows(r)'
  BY <1>1 DEF IInv, Knows, Unshared, space, results, locals
<1>5. \A p \in Req : ProposalKnows(p)'
  BY <1>1 DEF IInv, ProposalKnows, space, results
<1> QED
  BY <1>2, <1>3, <1>4, <1>5 DEF IInv

LEMMA StepIInv ==
    ASSUME IInv, NEW r \in Req, Step(r)
    PROVE  IInv'
<1>1. CASE \E s \in Subsystem : Fetch(r, s)
  BY <1>1, FetchIInv
<1>2. CASE Define(r)
  BY <1>2, DefineIInv
<1>3. CASE Stats(r)
  BY <1>3, StatsIInv
<1>4. CASE Persist(r)
  BY <1>4, PersistIInv
<1>5. CASE \E h \in Handle, s \in Subsystem \cup {Nothing} : Ask(r, h, s)
  BY <1>5, AskIInv DEF Maybe
<1>6. CASE Probe(r)
  BY <1>6, ProbeIInv
<1>7. CASE ReadRow(r)
  BY <1>7, ReadRowIInv
<1>8. CASE Redefine(r)
  BY <1>8, RedefineIInv
<1>9. CASE KeepFresh(r)
  BY <1>9, KeepFreshIInv
<1>10. CASE AskSidecar(r)
  BY <1>10, AskSidecarIInv
<1>11. CASE ReadDefinition(r)
  BY <1>11, ReadDefinitionIInv
<1>12. CASE CreateBranch(r)
  BY <1>12, CreateBranchIInv
<1>13. CASE File(r)
  BY <1>13, FileIInv
<1>14. CASE \E p \in Req : GetProposal(r, p)
  BY <1>14, GetProposalIInv
<1>15. CASE UpsertElement(r)
  BY <1>15, UpsertElementIInv
<1>16. CASE CheckLink(r) \/ Link(r)
  BY <1>16, CheckLinkIInv, LinkIInv
<1>17. CASE Record(r)
  BY <1>17, RecordIInv
<1>18. CASE SetStatus(r)
  BY <1>18, SetStatusIInv
<1>19. CASE Fail(r)
  BY <1>19, FailIInv
<1> QED
  BY <1>1, <1>2, <1>3, <1>4, <1>5, <1>6, <1>7, <1>8, <1>9, <1>10, <1>11, <1>12, <1>13,
     <1>14,
     <1>15, <1>16, <1>17, <1>18, <1>19 DEF Step

LEMMA NextIInv == IInv /\ [Next]_vars => IInv'
<1> SUFFICES ASSUME IInv, [Next]_vars PROVE IInv'
  OBVIOUS
<1>1. CASE \E r \in Req : Step(r)
  BY <1>1, StepIInv
<1>2. CASE (\E s \in Subsystem : Edit(s)) \/ (\E e \in Elements : Delete(e))
  BY <1>2, WorldIInv
<1>3. CASE RestartSidecar
  BY <1>3, RestartSidecarIInv
<1>4. CASE RestartApi
  BY <1>4, RestartApiIInv
<1>5. CASE UNCHANGED vars
  BY <1>5, StutterIInv
<1> QED
  BY <1>1, <1>2, <1>3, <1>4, <1>5 DEF Next

LEMMA AlwaysIInv == Spec => []IInv
BY InitIInv, NextIInv, PTL DEF Spec

(* A handle that a client has or a proposal names keeps its row through      *)
(* restarts of the sidecar and of the API, and whatever is kept in memory    *)
(* under it is what the row says (archspace.rs:413-470).                     *)
THEOREM HandlesStayDurable == Spec => []HandlesAreDurable
<1>1. IInv => HandlesAreDurable
  BY DEF IInv, SpaceKnows, ProposalKnows, HandlesAreDurable
<1> QED
  BY <1>1, AlwaysIInv, PTL

-----------------------------------------------------------------------------
(* An acceptance goes through its calls once, and the request that made an   *)
(* element never names another proposal.                                     *)

LEMMA InitAInv == Init => AInv
<1> SUFFICES ASSUME Init PROVE AInv
  OBVIOUS
<1>1. IInv
  BY InitIInv
<1>2. \A r \in Req : AcceptKnows(r)
  BY DEF Init, AcceptKnows, Reached, ProposeKnows, Asking
<1>3. AcceptedIsMaterialized /\ made \subseteq Req
  BY DEF Init, AcceptedIsMaterialized
<1> QED
  BY <1>1, <1>2, <1>3 DEF AInv

(* What a step of r that is not its last leaves alone.                       *)
Onward(r) ==
    /\ call' = call
    /\ \A q \in Req \ {r} : pc'[q] = pc[q] /\ target'[q] = target[q]
    /\ pc'[r] # "idle" /\ (pc[r] # "idle" => target'[r] = target[r])
    /\ made \subseteq made' /\ made' \subseteq made \cup {r}
    /\ linked \subseteq linked' /\ recorded \subseteq recorded' /\ deleted' = deleted
    /\ \A p \in Req : proposal[p] # Nothing =>
          proposal'[p] # Nothing /\ proposal'[p].subsystem = proposal[p].subsystem
    /\ \A p \in Req \ {r} : proposal'[p] # Nothing => proposal[p] # Nothing
    /\ \A p \in Req : proposal'[p] # Nothing /\ proposal'[p].status = "accepted" =>
          proposal[p] # Nothing /\ proposal[p].status = "accepted"

LEMMA OnwardAInv ==
    ASSUME AInv, NEW r \in Req, Onward(r), IInv', Reached(r)', ProposeKnows(r)'
    PROVE  AInv'
<1>1. \A q \in Req : q \in made => q \in made' /\ target'[q] = target[q]
  BY DEF AInv, AcceptKnows, Onward
<1>2. ASSUME NEW q \in Req, target'[q] = target[q], target[q] \in Req, proposal[target[q]] # Nothing,
             Placed(q)
      PROVE  Placed(q)'
  BY <1>2 DEF Onward, Placed, Ends
<1>3. ASSUME NEW q \in Req \ {r} PROVE AcceptKnows(q)'
  <2>1. Reached(q)'
    <3> SUFFICES ASSUME call[q] = "accept", pc[q] \in {"record", "setStatus"}, Placed(q)
                 PROVE  Placed(q)'
      BY DEF AInv, AcceptKnows, Reached, Onward
    <3> QED
      BY <1>2 DEF AInv, IInv, Knows, Deciding, Onward
  <2>2. ProposeKnows(q)'
    BY DEF AInv, AcceptKnows, ProposeKnows, Onward
  <2> QED
    BY <2>1, <2>2 DEF AInv, AcceptKnows, Onward
<1>4. AcceptKnows(r)'
  BY DEF AcceptKnows, Onward
<1>5. AcceptedIsMaterialized'
  <2> SUFFICES ASSUME NEW p \in Req, proposal'[p] # Nothing, proposal'[p].status = "accepted"
               PROVE  \E q \in made' \cap recorded' : target'[q] = p /\ Placed(q)'
    BY DEF AcceptedIsMaterialized
  <2>1. proposal[p] # Nothing /\ proposal[p].status = "accepted"
    BY DEF Onward
  <2>2. PICK q \in made \cap recorded : target[q] = p /\ Placed(q)
    BY <2>1 DEF AInv, AcceptedIsMaterialized
  <2> QED
    BY <1>1, <1>2, <2>1, <2>2 DEF AInv, Onward
<1> QED
  BY <1>3, <1>4, <1>5 DEF AInv, Onward

LEMMA SetStatusAInv ==
    ASSUME AInv, NEW r \in Req, SetStatus(r), IInv'
    PROVE  AInv'
<1>1. /\ pc[r] = "setStatus" /\ UNCHANGED <<call, target, made, linked, recorded, deleted>>
      /\ pc'[r] = "done" /\ \A q \in Req \ {r} : pc'[q] = pc[q]
  BY DEF AInv, IInv, Types, SetStatus, Goto, locals, world
<1>2. target[r] \in Req /\ proposal[target[r]] # Nothing
  BY <1>1 DEF AInv, IInv, Knows, Deciding
<1>3. proposal[target[r]] \in Row
  BY <1>2 DEF AInv, IInv, Types, Maybe
<1>4. /\ proposal'[target[r]].status = IF call[r] = "accept" THEN "accepted" ELSE "rejected"
      /\ proposal'[target[r]].subsystem = proposal[target[r]].subsystem
  BY <1>2, <1>3 DEF AInv, IInv, Types, SetStatus, Row
<1>5. \A p \in Req \ {target[r]} : proposal'[p] = proposal[p]
  BY <1>2 DEF AInv, IInv, Types, SetStatus
<1>6. \A q \in Req : target[q] \in Req /\ Placed(q) => Placed(q)'
  BY <1>1, <1>4, <1>5 DEF Placed, Ends
<1>7. ASSUME NEW q \in Req PROVE AcceptKnows(q)'
  <2>1. Reached(q)'
    <3> SUFFICES ASSUME call[q] = "accept", pc[q] \in {"record", "setStatus"}, Placed(q)
                 PROVE  Placed(q)'
      BY <1>1 DEF AInv, AcceptKnows, Reached
    <3> QED
      BY <1>6 DEF AInv, IInv, Knows, Deciding
  <2>2. ProposeKnows(q)'
    BY <1>1, <1>2, <1>4, <1>5 DEF AInv, AcceptKnows, ProposeKnows, Asking
  <2> QED
    BY <1>1, <2>1, <2>2 DEF AInv, AcceptKnows
<1>8. call[r] = "accept" => r \in made \cap recorded /\ Placed(r)
  BY <1>1 DEF AInv, AcceptKnows, Reached
<1>9. AcceptedIsMaterialized'
  <2> SUFFICES ASSUME NEW p \in Req, proposal'[p] # Nothing, proposal'[p].status = "accepted"
               PROVE  \E q \in made \cap recorded : target[q] = p /\ Placed(q)'
    BY <1>1 DEF AcceptedIsMaterialized
  <2>1. CASE p = target[r]
    BY <1>2, <1>4, <1>6, <1>8, <2>1
  <2>2. CASE p # target[r]
    <3>1. PICK q \in made \cap recorded : target[q] = p /\ Placed(q)
      BY <1>5, <2>2 DEF AInv, AcceptedIsMaterialized
    <3> QED
      BY <1>6, <3>1 DEF AInv
  <2> QED
    BY <2>1, <2>2
<1> QED
  BY <1>1, <1>7, <1>9 DEF AInv

LEMMA StepAInv ==
    ASSUME AInv, NEW r \in Req, Step(r), IInv'
    PROVE  AInv'
<1>0. IInv /\ AcceptKnows(r) /\ Types
  BY DEF AInv, IInv
<1>1. CASE \E s \in Subsystem : Fetch(r, s)
  <2>1. Onward(r)
    BY <1>0, <1>1 DEF Fetch, Goto, Types, Onward, world, space, results, locals
  <2>2. Reached(r)'
    BY <1>0, <1>1 DEF Fetch, Goto, Types, AcceptKnows, Reached, Uses, Script, world, space,
       results, locals
  <2>3. ProposeKnows(r)'
    BY <1>0, <1>1 DEF Fetch, Goto, Types, AcceptKnows, ProposeKnows, Asking, Uses, Script,
       world, space, results, locals
  <2> QED
    BY <2>1, <2>2, <2>3, OnwardAInv
<1>2. CASE Define(r)
  <2>1. Onward(r)
    BY <1>0, <1>2 DEF Define, Mint, Goto, Types, Onward, world, space, results, locals
  <2>2. Reached(r)'
    BY <1>0, <1>2 DEF Define, Mint, Goto, Types, AcceptKnows, Reached, Uses, Script, world,
       space, results, locals
  <2>3. ProposeKnows(r)'
    BY <1>0, <1>2 DEF Define, Mint, Goto, Types, AcceptKnows, ProposeKnows, Asking, Uses,
       Script, world, space, results, locals
  <2> QED
    BY <2>1, <2>2, <2>3, OnwardAInv
<1>3. CASE Stats(r)
  <2>1. Onward(r)
    BY <1>0, <1>3 DEF Stats, Goto, Types, Onward, world, space, results, locals
  <2>2. Reached(r)'
    BY <1>0, <1>3 DEF Stats, Goto, Types, AcceptKnows, Reached, Uses, Script, world, space,
       results, locals
  <2>3. ProposeKnows(r)'
    BY <1>0, <1>3 DEF Stats, Goto, Types, AcceptKnows, ProposeKnows, Asking, Uses, Script,
       world, space, results, locals
  <2> QED
    BY <2>1, <2>2, <2>3, OnwardAInv
<1>4. CASE Persist(r)
  <2>1. Onward(r)
    BY <1>0, <1>4 DEF Persist, Keep, Goto, Types, Onward, world, space, results, locals
  <2>2. Reached(r)'
    BY <1>0, <1>4 DEF Persist, Keep, Goto, Types, AcceptKnows, Reached, Uses, Script, world,
       space, results, locals
  <2>3. ProposeKnows(r)'
    BY <1>0, <1>4 DEF Persist, Keep, Goto, Types, AcceptKnows, ProposeKnows, Asking, Uses,
       Script, world, space, results, locals
  <2> QED
    BY <2>1, <2>2, <2>3, OnwardAInv
<1>5. CASE \E h \in Handle, s \in Subsystem \cup {Nothing} : Ask(r, h, s)
  <2>1. Onward(r)
    BY <1>0, <1>5 DEF Ask, Goto, Types, Onward, world, space, results, locals
  <2>2. Reached(r)'
    BY <1>0, <1>5 DEF Ask, Goto, Types, AcceptKnows, Reached, Uses, Script, world, space,
       results, locals
  <2>3. ProposeKnows(r)'
    BY <1>0, <1>5 DEF Ask, Goto, Types, AcceptKnows, ProposeKnows, Asking, Uses, Script, world,
       space, results, locals
  <2> QED
    BY <2>1, <2>2, <2>3, OnwardAInv
<1>6. CASE Probe(r)
  <2>1. Onward(r)
    BY <1>0, <1>6 DEF Probe, Goto, Types, Onward, world, space, results, locals
  <2>2. Reached(r)'
    BY <1>0, <1>6 DEF Probe, Goto, Types, AcceptKnows, Reached, Uses, Script, world, space,
       results, locals
  <2>3. ProposeKnows(r)'
    BY <1>0, <1>6 DEF Probe, Goto, Types, AcceptKnows, ProposeKnows, Asking, Uses, Script,
       world, space, results, locals
  <2> QED
    BY <2>1, <2>2, <2>3, OnwardAInv
<1>7. CASE ReadRow(r)
  <2>1. Onward(r)
    BY <1>0, <1>7 DEF ReadRow, Goto, Types, Onward, world, space, results, locals
  <2>2. Reached(r)'
    BY <1>0, <1>7 DEF ReadRow, Goto, Types, AcceptKnows, Reached, Uses, Script, world, space,
       results, locals
  <2>3. ProposeKnows(r)'
    BY <1>0, <1>7 DEF ReadRow, Goto, Types, AcceptKnows, ProposeKnows, Asking, Uses, Script,
       world, space, results, locals
  <2> QED
    BY <2>1, <2>2, <2>3, OnwardAInv
<1>8. CASE Redefine(r)
  <2>1. Onward(r)
    BY <1>0, <1>8 DEF Redefine, Mint, Goto, Types, Onward, world, space, results, locals
  <2>2. Reached(r)'
    BY <1>0, <1>8 DEF Redefine, Mint, Goto, Types, AcceptKnows, Reached, Uses, Script, world,
       space, results, locals
  <2>3. ProposeKnows(r)'
    BY <1>0, <1>8 DEF Redefine, Mint, Goto, Types, AcceptKnows, ProposeKnows, Asking, Uses,
       Script, world, space, results, locals
  <2> QED
    BY <2>1, <2>2, <2>3, OnwardAInv
<1>9. CASE KeepFresh(r)
  <2>1. Onward(r)
    BY <1>0, <1>9 DEF KeepFresh, Keep, Goto, Types, Onward, world, space, results, locals
  <2>2. Reached(r)'
    BY <1>0, <1>9 DEF KeepFresh, Keep, Goto, Types, AcceptKnows, Reached, Uses, Script, world,
       space, results, locals
  <2>3. ProposeKnows(r)'
    BY <1>0, <1>9 DEF KeepFresh, Keep, Goto, Types, AcceptKnows, ProposeKnows, Asking, Uses,
       Script, world, space, results, locals
  <2> QED
    BY <2>1, <2>2, <2>3, OnwardAInv
<1>10. CASE AskSidecar(r)
  <2>1. Onward(r)
    BY <1>0, <1>10 DEF AskSidecar, Used, Goto, Types, Onward, world, space, results, locals
  <2>2. Reached(r)'
    BY <1>0, <1>10 DEF AskSidecar, Used, Goto, Types, AcceptKnows, Reached, Uses, Script,
       world, space, results, locals
  <2>3. ProposeKnows(r)'
    BY <1>0, <1>10 DEF AskSidecar, Used, Goto, Types, AcceptKnows, ProposeKnows, Asking, Uses,
       Script, world, space, results, locals
  <2> QED
    BY <2>1, <2>2, <2>3, OnwardAInv
<1>11. CASE ReadDefinition(r)
  <2>1. Onward(r)
    BY <1>0, <1>11 DEF ReadDefinition, Used, Goto, Types, Onward, world, space, results,
       locals
  <2>2. Reached(r)'
    BY <1>0, <1>11 DEF ReadDefinition, Used, Goto, Types, AcceptKnows, Reached, Uses, Script,
       world, space, results, locals
  <2>3. ProposeKnows(r)'
    BY <1>0, <1>11 DEF ReadDefinition, Used, Goto, Types, AcceptKnows, ProposeKnows, Asking,
       Uses, Script, world, space, results, locals
  <2> QED
    BY <2>1, <2>2, <2>3, OnwardAInv
<1>12. CASE CreateBranch(r)
  <2>1. Onward(r)
    BY <1>0, <1>12 DEF CreateBranch, Goto, Types, Onward, world, space, results, locals
  <2>2. Reached(r)'
    BY <1>0, <1>12 DEF CreateBranch, Goto, Types, AcceptKnows, Reached, Uses, Script, world,
       space, results, locals
  <2>3. ProposeKnows(r)'
    BY <1>0, <1>12 DEF CreateBranch, Goto, Types, AcceptKnows, ProposeKnows, Asking, Uses,
       Script, world, space, results, locals
  <2> QED
    BY <2>1, <2>2, <2>3, OnwardAInv
<1>13. CASE File(r)
  <2>1. Onward(r)
    BY <1>0, <1>13 DEF File, Goto, Types, AcceptKnows, ProposeKnows, Onward, world, space, results,
       locals
  <2>2. Reached(r)'
    BY <1>0, <1>13 DEF File, Goto, Types, AcceptKnows, Reached, Uses, Script, world, space,
       results, locals
  <2>3. ProposeKnows(r)'
    BY <1>0, <1>13 DEF File, Goto, Types, AcceptKnows, ProposeKnows, Asking, Uses, Script,
       world, space, results, locals
  <2> QED
    BY <2>1, <2>2, <2>3, OnwardAInv
<1>14. CASE \E p \in Req : GetProposal(r, p)
  <2>1. Onward(r)
    BY <1>0, <1>14 DEF GetProposal, Goto, Types, Onward, world, space, results, locals
  <2>2. Reached(r)'
    BY <1>0, <1>14 DEF GetProposal, Goto, Types, AcceptKnows, Reached, Uses, Script, world,
       space, results, locals
  <2>3. ProposeKnows(r)'
    BY <1>0, <1>14 DEF GetProposal, Goto, Types, AcceptKnows, ProposeKnows, Asking, Uses,
       Script, world, space, results, locals
  <2> QED
    BY <2>1, <2>2, <2>3, OnwardAInv
<1>15. CASE UpsertElement(r)
  <2>1. Onward(r)
    BY <1>0, <1>15 DEF UpsertElement, Goto, Types, Onward, world, space, results, locals
  <2>2. Reached(r)'
    BY <1>0, <1>15 DEF UpsertElement, Goto, Types, AcceptKnows, Reached, Uses, Script, world,
       space, results, locals
  <2>3. ProposeKnows(r)'
    BY <1>0, <1>15 DEF UpsertElement, Goto, Types, AcceptKnows, ProposeKnows, Asking, Uses,
       Script, world, space, results, locals
  <2> QED
    BY <2>1, <2>2, <2>3, OnwardAInv
<1>16. CASE CheckLink(r)
  <2>1. Onward(r)
    BY <1>0, <1>16 DEF CheckLink, Goto, Types, Onward, world, space, results, locals
  <2>2. Reached(r)'
    BY <1>0, <1>16 DEF CheckLink, Goto, Types, AcceptKnows, Reached, world, space, results, locals
  <2>3. ProposeKnows(r)'
    BY <1>0, <1>16 DEF CheckLink, Goto, Types, AcceptKnows, ProposeKnows, Asking, world, space,
       results, locals
  <2> QED
    BY <2>1, <2>2, <2>3, OnwardAInv
<1>20. CASE Link(r)
  <2>1. Onward(r)
    BY <1>0, <1>20 DEF Link, Goto, Types, Onward, world, space, locals
  <2>2. Reached(r)'
    <3> SUFFICES ASSUME call[r] = "accept" PROVE r \in made' /\ Placed(r)' /\ pc'[r] = "record"
      BY <1>0, <1>20 DEF Link, Goto, Types, Reached
    <3>1. pc[r] = "merge" /\ pc'[r] = "record" /\ r \in made /\ UNCHANGED <<made, proposal, target, deleted>>
      BY <1>0, <1>20 DEF Link, Goto, Types, AcceptKnows, Reached, locals, world
    <3>2. target[r] \in Req /\ proposal[target[r]] # Nothing
      BY <1>0, <3>1 DEF IInv, Knows, Deciding
    <3>3. Ends(r) \subseteq Subsystem \cup made
      BY <3>1, <3>2 DEF AInv, AcceptKnows, ProposeKnows, Ends
    <3>4. CASE Ends(r) \subseteq Elements
      BY <1>20, <3>1, <3>4 DEF Link, Placed
    <3>5. CASE ~(Ends(r) \subseteq Elements)
      <4>1. deleted \cap Ends(r) # {}
        BY <3>3, <3>5 DEF Elements
      <4> QED
        BY <3>1, <4>1 DEF Placed, Ends
    <3> QED
      BY <3>1, <3>4, <3>5
  <2>3. ProposeKnows(r)'
    BY <1>0, <1>20 DEF Link, Goto, Types, AcceptKnows, ProposeKnows, Asking, world, space, locals
  <2> QED
    BY <2>1, <2>2, <2>3, OnwardAInv
<1>17. CASE Record(r)
  <2>1. Onward(r)
    BY <1>0, <1>17 DEF Record, Goto, Types, Onward, world, space, results, locals
  <2>2. Reached(r)'
    BY <1>0, <1>17 DEF Record, Goto, Types, AcceptKnows, Reached, Placed, Ends, world, space, locals
  <2>3. ProposeKnows(r)'
    BY <1>0, <1>17 DEF Record, Goto, Types, AcceptKnows, ProposeKnows, Asking, Uses, Script,
       world, space, results, locals
  <2> QED
    BY <2>1, <2>2, <2>3, OnwardAInv
<1>18. CASE SetStatus(r)
  BY <1>18, SetStatusAInv
<1>19. CASE Fail(r)
  <2>1. Onward(r)
    BY <1>0, <1>19 DEF Fail, Active, Goto, Types, Onward, world, space, results, locals
  <2>2. Reached(r)'
    BY <1>0, <1>19 DEF Fail, Active, Goto, Types, AcceptKnows, Reached, Uses, Script, world,
       space, results, locals
  <2>3. ProposeKnows(r)'
    <3>1. pc[r] # "done" /\ pc'[r] = "failed" /\ UNCHANGED proposal
      BY <1>0, <1>19 DEF Fail, Active, Over, Types, results
    <3> QED
      BY <1>0, <3>1 DEF AcceptKnows, ProposeKnows, Asking
  <2> QED
    BY <2>1, <2>2, <2>3, OnwardAInv
<1> QED
  BY <1>1, <1>2, <1>3, <1>4, <1>5, <1>6, <1>7, <1>8, <1>9, <1>10, <1>11, <1>12, <1>13,
     <1>14, <1>15, <1>16, <1>17, <1>18, <1>19, <1>20 DEF Step

(* A deletion takes the edges of an element with it, and says so. *)
LEMMA DeleteAInv ==
    ASSUME AInv, IInv', NEW e \in Elements, Delete(e)
    PROVE  AInv'
<1>1. /\ UNCHANGED <<proposal, made, recorded, call, pc, target>>
      /\ deleted' = deleted \cup {e} /\ linked' = {r \in linked : e \notin Ends(r)}
  BY DEF Delete, locals
<1>2. \A q \in Req : Placed(q) => Placed(q)'
  BY <1>1 DEF Placed, Ends
<1>3. \A q \in Req : AcceptKnows(q)'
  BY <1>1, <1>2 DEF AInv, AcceptKnows, Reached, ProposeKnows
<1>4. AcceptedIsMaterialized'
  BY <1>1, <1>2 DEF AInv, AcceptedIsMaterialized
<1> QED
  BY <1>1, <1>3, <1>4 DEF AInv

LEMMA NextAInv == AInv /\ [Next]_vars => AInv'
<1> SUFFICES ASSUME AInv, [Next]_vars PROVE AInv'
  OBVIOUS
<1>1. IInv'
  BY NextIInv DEF AInv
<1>2. CASE \E r \in Req : Step(r)
  BY <1>1, <1>2, StepAInv
<1>3. CASE (\E s \in Subsystem : Edit(s)) \/ RestartSidecar \/ UNCHANGED vars
  <2>1. UNCHANGED <<call, pc, target, results, deleted>>
    BY <1>3 DEF Edit, RestartSidecar, Restart, vars, locals, world
  <2>2. \A q \in Req : AcceptKnows(q)'
    BY <2>1 DEF AInv, AcceptKnows, Reached, ProposeKnows, Placed, Ends, results
  <2>3. AcceptedIsMaterialized'
    BY <2>1 DEF AInv, AcceptedIsMaterialized, Placed, Ends, results
  <2> QED
    BY <1>1, <2>1, <2>2, <2>3 DEF AInv, results
<1>4. CASE RestartApi
  <2>1. UNCHANGED <<call, target, results, deleted>>
    BY <1>4 DEF RestartApi, Restart, locals, world
  <2>2. \A r \in Req : pc'[r] = "failed" \/ (pc'[r] = pc[r] /\ pc[r] \in Over \cup {"idle"})
    BY <1>4 DEF RestartApi, Active
  <2>3. \A r \in Req : pc[r] = "done" => pc'[r] = "done"
    BY <1>4 DEF RestartApi, Active, Over
  <2>4. \A q \in Req : AcceptKnows(q)'
    BY <2>1, <2>2, <2>3 DEF AInv, AcceptKnows, Reached, ProposeKnows, Asking, results, Over
  <2>5. AcceptedIsMaterialized'
    BY <2>1 DEF AInv, AcceptedIsMaterialized, Placed, Ends, results
  <2> QED
    BY <1>1, <2>1, <2>4, <2>5 DEF AInv, results
<1>5. CASE \E e \in Elements : Delete(e)
  BY <1>1, <1>5, DeleteAInv
<1> QED
  BY <1>2, <1>3, <1>4, <1>5 DEF Next

(* A proposal is only ever marked accepted once one request got through all  *)
(* of materialize_proposal: its element was upserted and recorded, and put   *)
(* under the subsystem, unless one of the two was deleted                    *)
(* (archspace.rs:1202-1283).                                                 *)
THEOREM AcceptanceIsMaterialized == Spec => []AcceptedIsMaterialized
<1>1. AInv => AcceptedIsMaterialized
  BY DEF AInv
<1> QED
  BY <1>1, InitAInv, NextAInv, PTL DEF Spec

-----------------------------------------------------------------------------
(* Archspace implements Handles.  What a client observes, by name:           *)

Meaning == [h \in Handle |-> IF h \in given THEN rows[h] ELSE Nothing]
Asked   == [r \in Req |-> IF sent[r] \in given THEN sent[r] ELSE Nothing]
Answers == [r \in Req |-> IF call[r] \in Uses /\ pc[r] = "done" THEN got[r] ELSE {}]

(* A step of r that no client observes.                                      *)
Quiet(r) ==
    /\ given' = given /\ \A h \in given : rows'[h] = rows[h]
    /\ call' = call
    /\ \A q \in Req \ {r} : sent'[q] = sent[q] /\ pc'[q] = pc[q] /\ got'[q] = got[q]
    /\ sent'[r] = sent[r] \/ (sent[r] \notin given /\ sent'[r] \notin given)
    /\ pc[r] # "done" /\ (pc'[r] = "done" => call[r] \notin Uses)

LEMMA QuietStutters ==
    ASSUME NEW r \in Req, Quiet(r)
    PROVE  UNCHANGED <<Meaning, Asked, Answers>>
<1>1. Meaning' = Meaning
  BY DEF Quiet, Meaning
<1>2. Asked' = Asked
  BY DEF Quiet, Asked
<1>3. Answers' = Answers
  BY DEF Quiet, Answers
<1> QED
  BY <1>1, <1>2, <1>3

(* No request asks about a handle before it was given.                       *)
LEMMA AskedOnlyGiven ==
    ASSUME IInv, NEW h \in Handle, h # 0, given' = given \cup {h}, sent' = sent
    PROVE  Asked' = Asked
<1>1. \A q \in Req : sent[q] \in given' <=> sent[q] \in given
  BY NothingAssumption DEF IInv, Knows
<1> QED
  BY <1>1 DEF Asked

LEMMA PersistGives ==
    ASSUME IInv, NEW r \in Req, Persist(r)
    PROVE  \E h \in Handle, d \in Definition : Observed!Give(h, d)
<1>1. Keep(r) /\ Unshared(r) /\ given' = given \cup {handle[r]} /\ call[r] \notin Uses
      /\ pc[r] = "persist"
  BY DEF IInv, Persist, Goto, Knows, Uses, Script
<1>2. pc' \in [Req -> PC] /\ \A q \in Req \ {r} : pc'[q] = pc[q]
  BY DEF IInv, Persist, Goto, Types, PC
<1>3. handle[r] \in Handle /\ (\A h \in given : rows'[h] = rows[h])
      /\ rows'[handle[r]] = found[r]
  BY <1>1, <1>2, KeepKeeps
<1>4. handle[r] # 0 /\ handle[r] \notin given /\ found[r] \in Definition
  BY <1>1 DEF Unshared
<1>5. Meaning[handle[r]] = Nothing /\ Meaning' = [Meaning EXCEPT ![handle[r]] = found[r]]
  BY <1>1, <1>3, <1>4 DEF Meaning
<1>6. Asked' = Asked
  BY <1>1, <1>3, <1>4, AskedOnlyGiven DEF Keep, locals
<1>7. Answers' = Answers
  BY <1>1, <1>2 DEF Answers, Keep, locals
<1> QED
  BY <1>3, <1>4, <1>5, <1>6, <1>7 DEF Observed!Give, Meaning, Asked, Answers

LEMMA AskAsks ==
    ASSUME IInv, NEW r \in Req, NEW h \in Handle, NEW s \in Maybe(Subsystem), Ask(r, h, s)
    PROVE  Observed!Ask(r, h) \/ UNCHANGED <<Meaning, Asked, Answers>>
<1>1. /\ pc[r] = "idle" /\ pc'[r] # "done" /\ sent' = [sent EXCEPT ![r] = h]
      /\ \A q \in Req \ {r} : pc'[q] = pc[q] /\ sent'[q] = sent[q]
      /\ sent'[r] = h /\ UNCHANGED <<call, given, rows, got>> /\ h \in given \cup {0}
  BY DEF IInv, Types, Ask, Goto, space
<1>2. Meaning' = Meaning /\ Answers' = Answers
  BY <1>1 DEF Meaning, Answers
<1>3. sent[r] = Nothing /\ Nothing \notin given /\ 0 \notin given
  <2>1. sent[r] = Nothing
    BY <1>1 DEF IInv, Knows
  <2>2. 0 \notin given
    <3>1. given \subseteq 1..minted /\ minted \in Nat
      BY BoundsAssumption DEF IInv, Types
    <3> QED
      BY <3>1
  <2>3. Nothing \notin given
    BY GivenAreHandles, NothingAssumption
  <2> QED
    BY <2>1, <2>2, <2>3
<1>4. CASE h \in given
  <2>1. Asked[r] = Nothing /\ Asked' = [Asked EXCEPT ![r] = h]
    <3>1. Asked[r] = Nothing
      BY <1>3 DEF Asked
    <3>2. \A q \in Req : sent'[q] = IF q = r THEN h ELSE sent[q]
      BY <1>1
    <3>3. given' = given
      BY <1>1
    <3> QED
      BY <1>4, <3>1, <3>2, <3>3 DEF Asked
  <2>2. Meaning[h] # Nothing
    BY <1>4 DEF Meaning, IInv, SpaceKnows
  <2> QED
    BY <1>2, <2>1, <2>2 DEF Observed!Ask, Meaning, Asked, Answers
<1>5. CASE h \notin given
  BY <1>1, <1>2, <1>3, <1>5 DEF Asked
<1> QED
  BY <1>4, <1>5

LEMMA LastStepAnswers ==
    ASSUME IInv, NEW r \in Req, pc[r] \in Serving, pc'[r] = "done",
           \A q \in Req \ {r} : pc'[q] = pc[q] /\ got'[q] = got[q],
           got'[r] = {rows[sent[r]]}, given' = given \cup {handle[r]},
           UNCHANGED <<call, sent, rows, handle>>
    PROVE  \E h \in Handle : Observed!Answer(r, h)
<1>1. /\ sent[r] \in given /\ handle[r] \in Handle /\ handle[r] \in 1..minted
      /\ rows[sent[r]] # Nothing /\ rows[handle[r]] = rows[sent[r]]
  BY ServedFromTheRow
<1>2. handle[r] # 0 /\ sent[r] # Nothing /\ sent[r] \in Handle
  BY <1>1, GivenAreHandles, NothingAssumption
<1>3. Asked' = Asked /\ Asked[r] = sent[r]
  BY <1>1, <1>2, AskedOnlyGiven DEF Asked
<1>4. Meaning[sent[r]] = rows[sent[r]] /\ Meaning[handle[r]] \in {Nothing, rows[sent[r]]}
      /\ Meaning' = [Meaning EXCEPT ![handle[r]] = rows[sent[r]]]
  BY <1>1, <1>2 DEF Meaning
<1>5. call[r] \in Uses
  BY DEF IInv, Knows, Serving, Asking
<1>6. Answers[r] = {} /\ Answers' = [Answers EXCEPT ![r] = {rows[sent[r]]}]
  BY <1>5 DEF Answers, Serving
<1>7. \E h \in Handle : Observed!Answer(r, h)
  <2>1. Asked[r] # Nothing /\ Meaning[Asked[r]] = rows[sent[r]]
    BY <1>2, <1>3, <1>4
  <2>2. Answers' = [Answers EXCEPT ![r] = {Meaning[Asked[r]]}]
        /\ Meaning[handle[r]] \in {Nothing, Meaning[Asked[r]]}
        /\ Meaning' = [Meaning EXCEPT ![handle[r]] = Meaning[Asked[r]]]
    BY <1>4, <1>6, <2>1
  <2> QED
    BY <1>1, <1>3, <1>6, <2>1, <2>2 DEF Observed!Answer, Meaning, Asked, Answers
<1> QED
  BY <1>7

LEMMA UsedAnswers ==
    ASSUME IInv, NEW r \in Req, Used(r, rows[sent[r]]), UNCHANGED <<call, sent, rows, handle>>
    PROVE  (\E h \in Handle : Observed!Answer(r, h))
           \/ UNCHANGED <<Meaning, Asked, Answers>>
<1>1. pc[r] = "serve" /\ got[r] \subseteq {rows[sent[r]]}
  BY DEF IInv, Used, Goto, Knows, Serving
<1>2. /\ got'[r] = {rows[sent[r]]}
      /\ \A q \in Req \ {r} : pc'[q] = pc[q] /\ got'[q] = got[q]
  BY <1>1 DEF IInv, Types, Used, Goto
<1>3. \/ pc'[r] = "done" /\ given' = given \cup {handle[r]}
      \/ pc'[r] # "done" /\ given' = given
  BY DEF IInv, Types, Used, Goto
<1>4. CASE pc'[r] = "done" /\ given' = given \cup {handle[r]}
  BY <1>1, <1>2, <1>4, LastStepAnswers DEF Serving
<1>5. CASE pc'[r] # "done" /\ given' = given
  <2>1. Quiet(r)
    BY <1>1, <1>2, <1>5 DEF Quiet
  <2> QED
    BY <2>1, QuietStutters
<1> QED
  BY <1>3, <1>4, <1>5

LEMMA FileAnswers ==
    ASSUME IInv, NEW r \in Req, File(r)
    PROVE  \E h \in Handle : Observed!Answer(r, h)
<1>1. pc[r] \in Serving /\ pc'[r] = "done" /\ given' = given \cup {handle[r]}
      /\ UNCHANGED <<call, sent, rows, handle, got>>
      /\ \A q \in Req \ {r} : pc'[q] = pc[q]
  BY DEF IInv, Types, File, Goto, Serving, locals
<1>2. got[r] = {rows[sent[r]]}
  BY DEF IInv, File, Goto, Knows, Serving
<1> QED
  BY <1>1, <1>2, LastStepAnswers

LEMMA StepImplements ==
    ASSUME IInv, NEW r \in Req, Step(r)
    PROVE  Observed!Next \/ UNCHANGED <<Meaning, Asked, Answers>>
<1>0. Types /\ Knows(r)
  BY DEF IInv
<1>1. CASE \E s \in Subsystem : Fetch(r, s)
  <2>1. Quiet(r)
    BY <1>0, <1>1 DEF Fetch, Goto, Types, Knows, Deciding, Quiet, space, results, locals
  <2> QED
    BY <2>1, QuietStutters
<1>2. CASE Define(r)
  <2>1. Quiet(r)
    BY <1>0, <1>2 DEF Define, Mint, Goto, Types, Knows, Deciding, Quiet, space, results,
       locals
  <2> QED
    BY <2>1, QuietStutters
<1>3. CASE Stats(r)
  <2>1. Quiet(r)
    BY <1>0, <1>3 DEF Stats, Goto, Types, Knows, Deciding, Quiet, space, results, locals
  <2> QED
    BY <2>1, QuietStutters
<1>4. CASE Probe(r)
  <2>1. Quiet(r)
    BY <1>0, <1>4 DEF Probe, Goto, Types, Knows, Deciding, Quiet, space, results, locals
  <2> QED
    BY <2>1, QuietStutters
<1>5. CASE ReadRow(r)
  <2>1. Quiet(r)
    BY <1>0, <1>5 DEF ReadRow, Goto, Types, Knows, Deciding, Quiet, space, results, locals
  <2> QED
    BY <2>1, QuietStutters
<1>6. CASE Redefine(r)
  <2>1. Quiet(r)
    BY <1>0, <1>6 DEF Redefine, Mint, Goto, Types, Knows, Deciding, Quiet, space,
       results, locals
  <2> QED
    BY <2>1, QuietStutters
<1>7. CASE CreateBranch(r)
  <2>1. Quiet(r)
    BY <1>0, <1>7 DEF CreateBranch, Goto, Types, Knows, Deciding, Quiet, space, results,
       locals
  <2> QED
    BY <2>1, QuietStutters
<1>8. CASE \E p \in Req : GetProposal(r, p)
  <2>1. Quiet(r)
    BY <1>0, <1>8 DEF GetProposal, Goto, Types, Knows, Deciding, Quiet, space, results,
       locals
  <2> QED
    BY <2>1, QuietStutters
<1>9. CASE UpsertElement(r)
  <2>1. Quiet(r)
    BY <1>0, <1>9 DEF UpsertElement, Goto, Types, Knows, Deciding, Quiet, space, results,
       locals
  <2> QED
    BY <2>1, QuietStutters
<1>10. CASE CheckLink(r) \/ Link(r)
  <2>1. Quiet(r)
    BY <1>0, <1>10 DEF CheckLink, Link, Goto, Types, Knows, Deciding, Quiet, space, results, locals
  <2> QED
    BY <2>1, QuietStutters
<1>11. CASE Record(r)
  <2>1. Quiet(r)
    BY <1>0, <1>11 DEF Record, Goto, Types, Knows, Deciding, Quiet, space, results, locals
  <2> QED
    BY <2>1, QuietStutters
<1>12. CASE SetStatus(r)
  <2>1. Quiet(r)
    BY <1>0, <1>12 DEF SetStatus, Goto, Types, Knows, Deciding, Quiet, space, results,
       locals
  <2> QED
    BY <2>1, QuietStutters
<1>13. CASE Fail(r)
  <2>1. Quiet(r)
    BY <1>0, <1>13 DEF Fail, Active, Over, Goto, Types, Knows, Deciding, Quiet, space,
       results, locals
  <2> QED
    BY <2>1, QuietStutters
<1>14. CASE KeepFresh(r)
  <2>1. Keep(r) /\ Unshared(r) /\ given' = given /\ pc[r] = "keep" /\ pc' \in [Req -> PC]
        /\ pc'[r] = "serve" /\ \A q \in Req \ {r} : pc'[q] = pc[q]
    BY <1>0, <1>14 DEF KeepFresh, Goto, Types, PC, Knows
  <2>2. \A h \in given : rows'[h] = rows[h]
    BY <2>1, KeepKeeps
  <2>3. Quiet(r)
    BY <2>1, <2>2 DEF Quiet, Keep, locals
  <2> QED
    BY <2>3, QuietStutters
<1>15. CASE Persist(r)
  <2>1. \E h \in Handle, d \in Definition : Observed!Give(h, d)
    BY <1>15, PersistGives
  <2> QED
    BY <2>1 DEF Observed!Next
<1>16. CASE \E h \in Handle, s \in Subsystem \cup {Nothing} : Ask(r, h, s)
  BY <1>16, AskAsks DEF Maybe, Observed!Next
<1>17. CASE File(r)
  <2>1. \E h \in Handle : Observed!Answer(r, h)
    BY <1>17, FileAnswers
  <2> QED
    BY <2>1 DEF Observed!Next
<1>18. CASE ReadDefinition(r)
  <2>1. Used(r, rows[sent[r]]) /\ UNCHANGED <<call, sent, rows, handle>>
    BY <1>18, ReadDefinitionUses DEF ReadDefinition
  <2>2. (\E h \in Handle : Observed!Answer(r, h))
        \/ UNCHANGED <<Meaning, Asked, Answers>>
    BY <2>1, UsedAnswers
  <2> QED
    BY <2>2 DEF Observed!Next
<1>19. CASE AskSidecar(r)
  <2>1. CASE sidecar[handle[r]] = Nothing
    <3>1. Quiet(r)
      BY <1>0, <1>19, <2>1 DEF AskSidecar, Goto, Types, Quiet
    <3> QED
      BY <3>1, QuietStutters
  <2>2. CASE sidecar[handle[r]] # Nothing
    <3>1. Used(r, rows[sent[r]]) /\ UNCHANGED <<call, sent, rows, handle>>
      BY <1>19, <2>2, AskSidecarUses DEF AskSidecar
    <3>2. (\E h \in Handle : Observed!Answer(r, h))
          \/ UNCHANGED <<Meaning, Asked, Answers>>
      BY <3>1, UsedAnswers
    <3> QED
      BY <3>2 DEF Observed!Next
  <2> QED
    BY <2>1, <2>2
<1> QED
  BY <1>1, <1>2, <1>3, <1>4, <1>5, <1>6, <1>7, <1>8, <1>9, <1>10, <1>11, <1>12, <1>13,
     <1>14, <1>15, <1>16, <1>17, <1>18, <1>19 DEF Step

LEMMA NextImplements ==
    IInv /\ [Next]_vars => [Observed!Next]_(Observed!vars)
<1> SUFFICES ASSUME IInv, [Next]_vars
             PROVE  Observed!Next \/ UNCHANGED <<Meaning, Asked, Answers>>
  BY DEF Observed!vars, Meaning, Asked, Answers
<1>1. CASE \E r \in Req : Step(r)
  BY <1>1, StepImplements
<1>2. CASE \/ \E s \in Subsystem : Edit(s)
           \/ \E e \in Elements : Delete(e)
           \/ RestartSidecar \/ UNCHANGED vars
  <2>1. UNCHANGED <<call, pc, sent, got, rows, given>>
    BY <1>2 DEF Edit, Delete, RestartSidecar, Restart, vars, space, locals
  <2> QED
    BY <2>1 DEF Meaning, Asked, Answers
<1>3. CASE RestartApi
  <2>1. UNCHANGED <<call, sent, got, rows, given>>
        /\ \A r \in Req : pc'[r] = "done" <=> pc[r] = "done"
    BY <1>3 DEF RestartApi, Restart, Active, Over, locals
  <2> QED
    BY <2>1 DEF Meaning, Asked, Answers
<1> QED
  BY <1>1, <1>2, <1>3 DEF Next

LEMMA InitImplements == Init => Observed!Init
<1> SUFFICES ASSUME Init PROVE Observed!Init
  OBVIOUS
<1>1. given = {} /\ \A r \in Req : pc[r] = "idle"
  BY DEF Init
<1> QED
  BY <1>1 DEF Observed!Init

(* A handle that a client was given means one definition for ever, and every *)
(* answer is from the definition of the handle asked about, though sidecar   *)
(* and API restart, contents are edited and fresh handles replace stale ones *)
(* (ensure_live_handle, archspace.rs:413-470): Archspace implements Handles. *)
THEOREM HandlesSurviveRestarts == Spec => HandlesSurvive
BY AlwaysIInv, InitImplements, NextImplements, PTL DEF Spec, HandlesSurvive, Observed!Spec

-----------------------------------------------------------------------------
(* What a definition is made of.                                             *)

(* The parameters and choices of a subsystem are in the scope it is encoded  *)
(* from, and so is what a constraint on one of them names.                   *)
LEMMA ScopeReaches ==
    ASSUME NEW g, NEW s
    PROVE  /\ Design!Direct(g, s) \subseteq Design!Scope(g, s)
           /\ Design!Direct(g, s) \subseteq Design!OfKind(g, "Parameter") \cup Design!OfKind(g, "SelectionChoice")
           /\ \A e \in g.constraints :
                 /\ Design!Ends(e) \cap Design!Direct(g, s) # {}
                 /\ Design!Ends(e) \subseteq Design!OfKind(g, "Parameter")
                 => Design!Ends(e) \subseteq Design!Scope(g, s)
<1>1. Design!Direct(g, s) \subseteq Design!Scope(g, s)
  BY DEF Design!Scope
<1>2. Design!Direct(g, s) \subseteq Design!OfKind(g, "Parameter") \cup Design!OfKind(g, "SelectionChoice")
  BY DEF Design!Direct
<1>3. ASSUME NEW e \in g.constraints, Design!Ends(e) \cap Design!Direct(g, s) # {},
             Design!Ends(e) \subseteq Design!OfKind(g, "Parameter")
      PROVE  Design!Ends(e) \subseteq Design!Scope(g, s)
  <2>1. Design!Ends(e) = {e.source, e.target}
    BY DEF Design!Ends
  <2>2. \A i \in Design!OtherEnd(e, Design!Direct(g, s)) :
            i \in Design!OfKind(g, "Parameter") => i \in Design!Scope(g, s)
    BY DEF Design!Scope
  <2>3. CASE e.source \in Design!Direct(g, s)
    <3>1. Design!OtherEnd(e, Design!Direct(g, s)) = {e.target}
      BY <2>3 DEF Design!OtherEnd
    <3> QED
      BY <1>1, <1>3, <2>1, <2>2, <2>3, <3>1
  <2>4. CASE e.source \notin Design!Direct(g, s)
    <3>1. e.target \in Design!Direct(g, s)
      BY <1>3, <2>1, <2>4
    <3>2. Design!OtherEnd(e, Design!Direct(g, s)) = {e.source}
      BY <2>4, <3>1 DEF Design!OtherEnd
    <3> QED
      BY <1>1, <1>3, <2>1, <2>2, <3>1, <3>2
  <2> QED
    BY <2>3, <2>4
<1> QED
  BY <1>1, <1>2, <1>3

(* The parts of an encoded design space.                                     *)
LEMMA Encoded ==
    ASSUME NEW g, NEW s
    PROVE  LET c == Design!Content(g, s)
               d == Design!Encode(g, s)
           IN  /\ d.variables = {p \in c.parameters : Design!Bounded(g, p)}
               /\ DOMAIN d.choices = {i \in c.choices : Design!Selectable(g, i)}
               /\ \A i \in DOMAIN d.choices : d.choices[i] = Design!OptionsOf(g, i)
               /\ DOMAIN d.connections = {i \in c.connections : Design!Connectable(g, i)}
               /\ \A i \in DOMAIN d.connections : /\ d.connections[i].from = Design!NamesOf(g, i, "from")
                                                  /\ d.connections[i].to = Design!NamesOf(g, i, "to")
               /\ d.connectors = Design!Connectors(g)
               /\ d.constraints = {e \in c.constraints : Design!Encodable(g, c, e)}
               /\ c.parameters \ d.variables \subseteq d.skipped
               /\ c.choices \ DOMAIN d.choices \subseteq d.skipped
               /\ d.unencoded = c.constraints \ d.constraints
<1> DEFINE c == Design!Content(g, s)
           d == Design!Encode(g, s)
<1>1. /\ d.variables = {p \in c.parameters : Design!Bounded(g, p)}
      /\ d.choices = [i \in {i \in c.choices : Design!Selectable(g, i)} |-> Design!OptionsOf(g, i)]
      /\ d.connections = [i \in {i \in c.connections : Design!Connectable(g, i)} |->
                             [from |-> Design!NamesOf(g, i, "from"), to |-> Design!NamesOf(g, i, "to")]]
      /\ d.connectors = Design!Connectors(g)
  BY DEF Design!Encode
<1>2. /\ d.constraints = {e \in c.constraints : Design!Encodable(g, c, e)}
      /\ d.unencoded = c.constraints \ {e \in c.constraints : Design!Encodable(g, c, e)}
  BY DEF Design!Encode
<1>3. d.skipped = (c.parameters \ {p \in c.parameters : Design!Bounded(g, p)})
                  \cup (c.choices \ {i \in c.choices : Design!Selectable(g, i)})
                  \cup (c.connections \ {i \in c.connections : Design!Connectable(g, i)})
  BY DEF Design!Encode
<1> HIDE DEF c, d
<1>4. /\ DOMAIN d.choices = {i \in c.choices : Design!Selectable(g, i)}
      /\ \A i \in DOMAIN d.choices : d.choices[i] = Design!OptionsOf(g, i)
  BY <1>1
<1>5. /\ DOMAIN d.connections = {i \in c.connections : Design!Connectable(g, i)}
      /\ \A i \in DOMAIN d.connections : /\ d.connections[i].from = Design!NamesOf(g, i, "from")
                                         /\ d.connections[i].to = Design!NamesOf(g, i, "to")
  BY <1>1
<1>6. c.parameters \ d.variables \subseteq d.skipped /\ c.choices \ DOMAIN d.choices \subseteq d.skipped
  BY <1>1, <1>3, <1>4
<1>7. d.unencoded = c.constraints \ d.constraints
  BY <1>2
<1> QED
  BY <1>1, <1>2, <1>4, <1>5, <1>6, <1>7 DEF c, d

(* A constraint of the subsystem's content between bounded parameters of a   *)
(* legal type is encoded.                                                    *)
LEMMA BoundedAreKnown ==
    ASSUME NEW g, NEW s, NEW e \in g.constraints, Design!Ends(e) \subseteq Design!Scope(g, s),
           Design!Ends(e) \subseteq {p \in Design!OfKind(g, "Parameter") : Design!Bounded(g, p)},
           e.kind = "ChoiceConstraint" => e.type \in Design!ConstraintTypes
    PROVE  e \in Design!Encode(g, s).constraints
<1> DEFINE c == Design!Content(g, s)
<1>1. Design!Encode(g, s).constraints = {d \in c.constraints : Design!Encodable(g, c, d)}
  BY Encoded
<1>2. /\ c.parameters = Design!Scope(g, s) \cap Design!OfKind(g, "Parameter")
      /\ c.constraints = {d \in g.constraints : Design!Ends(d) \cap Design!Scope(g, s) # {}}
  BY DEF Design!Content
<1>3. e.source \in Design!Ends(e)
  BY DEF Design!Ends
<1> HIDE DEF c
<1>4. e \in c.constraints
  BY <1>2, <1>3
<1>5. Design!Ends(e) \subseteq {p \in c.parameters : Design!Bounded(g, p)}
  BY <1>2
<1>6. Design!Ends(e) \subseteq Design!Known(g, c)
  BY <1>5 DEF Design!Known
<1>7. Design!Encodable(g, c, e)
  BY <1>6 DEF Design!Encodable
<1> QED
  BY <1>1, <1>4, <1>7

(* ReachesBothSides: fetch_subsystem_content takes one hop over the          *)
(* constraints in both directions, so whichever subsystem is encoded, a      *)
(* constraint between a parameter of its own and one of another is encoded.  *)
THEOREM BothSidesReached ==
    ASSUME NEW g, NEW s
    PROVE  Design!ReachesBothSides(g, s)
<1> SUFFICES ASSUME NEW e \in g.constraints,
                    Design!Ends(e) \subseteq {p \in Design!OfKind(g, "Parameter") : Design!Bounded(g, p)},
                    Design!Ends(e) \cap Design!Into(g.bound, s) # {},
                    e.kind = "ChoiceConstraint" => e.type \in Design!ConstraintTypes
             PROVE  e \in Design!Encode(g, s).constraints
  BY DEF Design!ReachesBothSides
<1>1. Design!Ends(e) \subseteq Design!OfKind(g, "Parameter")
  OBVIOUS
<1>2. Design!Ends(e) \cap Design!Direct(g, s) # {}
  BY <1>1 DEF Design!Direct
<1>3. Design!Ends(e) \subseteq Design!Scope(g, s)
  BY <1>1, <1>2, ScopeReaches
<1> QED
  BY <1>3, BoundedAreKnown

(* NamesWhatItDeclares: encode_design_space names no variable, option or     *)
(* connector that it does not declare, and what fetch_subsystem_content      *)
(* gives it is encoded or reported as skipped.                               *)
THEOREM NamesDeclared ==
    ASSUME NEW g, NEW s
    PROVE  Design!NamesWhatItDeclares(g, s)
<1> DEFINE c == Design!Content(g, s)
           d == Design!Encode(g, s)
           declared == d.variables \cup UNION {Design!ToSet(d.choices[i]) : i \in DOMAIN d.choices}
<1>1. /\ d.variables = {p \in c.parameters : Design!Bounded(g, p)}
      /\ DOMAIN d.choices = {i \in c.choices : Design!Selectable(g, i)}
      /\ \A i \in DOMAIN d.choices : d.choices[i] = Design!OptionsOf(g, i)
  BY Encoded
<1>2. /\ DOMAIN d.connections = {i \in c.connections : Design!Connectable(g, i)}
      /\ \A i \in DOMAIN d.connections : /\ d.connections[i].from = Design!NamesOf(g, i, "from")
                                         /\ d.connections[i].to = Design!NamesOf(g, i, "to")
      /\ d.connectors = Design!Connectors(g)
  BY Encoded
<1>3. /\ d.constraints = {e \in c.constraints : Design!Encodable(g, c, e)}
      /\ c.parameters \ d.variables \subseteq d.skipped
      /\ c.choices \ DOMAIN d.choices \subseteq d.skipped
      /\ d.unencoded = c.constraints \ d.constraints
  BY Encoded
<1>4. /\ c.parameters = Design!Scope(g, s) \cap Design!OfKind(g, "Parameter")
      /\ c.choices = Design!Scope(g, s) \cap Design!OfKind(g, "SelectionChoice")
      /\ c.constraints = {e \in g.constraints : Design!Ends(e) \cap Design!Scope(g, s) # {}}
  BY DEF Design!Content
<1> HIDE DEF c, d
<1>5. \A e \in d.constraints : Design!Ends(e) \subseteq declared
  <2>1. {Design!ToSet(d.choices[i]) : i \in DOMAIN d.choices}
        = {Design!ToSet(Design!OptionsOf(g, i)) : i \in {i \in c.choices : Design!Selectable(g, i)}}
    BY <1>1
  <2>2. Design!Known(g, c) = declared
    BY <1>1, <2>1 DEF Design!Known
  <2> HIDE DEF declared
  <2> QED
    BY <1>3, <2>2 DEF Design!Encodable
<1>6. \A i \in DOMAIN d.connections :
          Design!ToSet(d.connections[i].from) \cup Design!ToSet(d.connections[i].to) \subseteq d.connectors
  <2>1. ASSUME NEW i \in DOMAIN d.connections
        PROVE  /\ Design!ToSet(Design!NamesOf(g, i, "from")) \subseteq Design!Connectors(g)
               /\ Design!ToSet(Design!NamesOf(g, i, "to")) \subseteq Design!Connectors(g)
    BY <1>2 DEF Design!Connectable
  <2> QED
    BY <1>2, <2>1
<1>7. Design!Direct(g, s) \subseteq d.variables \cup DOMAIN d.choices \cup d.skipped
  BY <1>3, <1>4, ScopeReaches
<1>8. \A e \in g.constraints :
          Design!Ends(e) \cap Design!Direct(g, s) # {} => e \in d.constraints \cup d.unencoded
  BY <1>3, <1>4, ScopeReaches
<1> QED
  BY <1>5, <1>6, <1>7, <1>8 DEF Design!NamesWhatItDeclares, d

(* SpacesAreWhole of every question: the two theorems above for a design     *)
(* space, and for an instance that summarize_instance puts a node among the  *)
(* others just when no choice is decoded to it.                              *)
THEOREM SpacesComeWhole == AskSpec => []SpacesAreWhole
<1>1. ASSUME NEW g, NEW s
      PROVE  Design!ReachesBothSides(g, s) /\ Design!NamesWhatItDeclares(g, s)
  BY BothSidesReached, NamesDeclared
<1>2. ASSUME NEW d, NEW present
      PROVE  Design!LosesNoNode(d, present)
  <2> DEFINE r == Design!Summarize(d, present)
  <2>1. /\ DOMAIN r.choices = DOMAIN d.choices
        /\ \A c \in DOMAIN d.choices : r.choices[c] = Design!PresentOption(d.choices[c], present)
        /\ r.other = Design!ToSet(present) \ Design!Accounted(d, present)
    BY DEF Design!Summarize
  <2> HIDE DEF r
  <2>2. \A name : name \in Design!Accounted(d, present) <=> \E c \in DOMAIN r.choices : r.choices[c] = name
    BY <2>1 DEF Design!Accounted
  <2>3. \A name \in Design!ToSet(present) :
            name \in r.other <=> ~\E c \in DOMAIN r.choices : r.choices[c] = name
    BY <2>1, <2>2
  <2> QED
    BY <2>3 DEF Design!LosesNoNode, r
<1>3. SpacesAreWhole
  BY <1>1, <1>2 DEF SpacesAreWhole
<1> QED
  BY <1>3, PTL

-----------------------------------------------------------------------------
(* A curve.  NatLeast: a set of numbers has a least; Places: as a strict     *)
(* total order, Before gives each point a place of its own.                  *)

LEMMA NatLeast ==
    ASSUME NEW T, T \subseteq Nat, T # {}
    PROVE  \E n \in T : \A m \in T : n <= m
<1> DEFINE R == {p \in Nat \X Nat : p[1] < p[2]}
<1>1. IsWellFoundedOn(R, Nat)
  <2>1. R = OpToRel(<, Nat)
    BY DEF OpToRel
  <2> QED
    BY <2>1, NatLessThanWellFounded
<1>2. \A n, m \in Nat : <<n, m>> \in R <=> n < m
  OBVIOUS
<1> HIDE DEF R
<1>3. \E n \in T : \A m \in T : ~(<<m, n>> \in R)
  BY <1>1, WFMin
<1>4. PICK n \in T : \A m \in T : ~(<<m, n>> \in R)
  BY <1>3
<1>5. ASSUME NEW m \in T PROVE n <= m
  <2>1. n \in Nat /\ m \in Nat
    BY <1>4, <1>5
  <2>2. ~(m < n)
    BY <1>2, <1>4, <1>5, <2>1
  <2> QED
    BY <2>1, <2>2
<1> QED
  BY <1>5
(* A module instance has a Cardinality of its own. *)
LEMMA SameCardinality == \A S : Physics!Cardinality(S) = Cardinality(S)
  BY DEF Physics!Cardinality, Cardinality

(* A curve of n points, and how many of them come before one.                *)
Curve(n) == [1..n -> Int \X Int]
Earlier(points, k) == {m \in DOMAIN points : Physics!Before(points, m, k)}
Place(points, k)   == Cardinality(Earlier(points, k))

(* The points of a curve are in a strict total order.                        *)
LEMMA PointsOrdered ==
    ASSUME NEW n \in Nat, NEW points \in Curve(n)
    PROVE  /\ DOMAIN points = 1..n
           /\ \A k \in 1..n : points[k][1] \in Int /\ points[k][2] \in Int
           /\ \A k \in 1..n : ~Physics!Before(points, k, k)
           /\ \A j, k \in 1..n : j = k \/ Physics!Before(points, j, k) \/ Physics!Before(points, k, j)
           /\ \A i, j, k \in 1..n :
                 Physics!Before(points, i, j) /\ Physics!Before(points, j, k) => Physics!Before(points, i, k)
<1>1. DOMAIN points = 1..n /\ \A k \in 1..n : points[k] \in Int \X Int
  BY DEF Curve
<1>2. \A k \in 1..n : points[k][1] \in Int /\ points[k][2] \in Int
  BY <1>1
<1>3. \A k \in 1..n : ~Physics!Before(points, k, k)
  BY <1>2 DEF Physics!Before
<1>4. \A j, k \in 1..n : j = k \/ Physics!Before(points, j, k) \/ Physics!Before(points, k, j)
  BY <1>2 DEF Physics!Before
<1>5. ASSUME NEW i \in 1..n, NEW j \in 1..n, NEW k \in 1..n,
             Physics!Before(points, i, j), Physics!Before(points, j, k)
      PROVE  Physics!Before(points, i, k)
  BY <1>2, <1>5 DEF Physics!Before
<1> QED
  BY <1>1, <1>2, <1>3, <1>4, <1>5

(* The n points of a curve have the places 0, ..., n - 1, each one.          *)
LEMMA Places ==
    ASSUME NEW n \in Nat, NEW points \in Curve(n)
    PROVE  /\ \A k \in 1..n : Place(points, k) \in 0..(n - 1)
           /\ \A j, k \in 1..n : Physics!Before(points, j, k) <=> Place(points, j) < Place(points, k)
           /\ \A p \in 0..(n - 1) : \E k \in 1..n : Place(points, k) = p
<1> DEFINE D == 1..n
           B(j, k) == Physics!Before(points, j, k)
<1>1. /\ DOMAIN points = D
      /\ \A k \in D : ~B(k, k)
      /\ \A j, k \in D : j = k \/ B(j, k) \/ B(k, j)
      /\ \A i, j, k \in D : B(i, j) /\ B(j, k) => B(i, k)
  BY PointsOrdered
<1>2. IsFiniteSet(D) /\ Cardinality(D) = n
  BY FS_Interval
<1>3. \A k : Earlier(points, k) = {m \in D : B(m, k)}
  BY <1>1 DEF Earlier
<1> HIDE DEF D, B
<1>4. \A k \in D : Place(points, k) \in Nat /\ Place(points, k) <= n - 1
  <2> SUFFICES ASSUME NEW k \in D PROVE Place(points, k) \in Nat /\ Place(points, k) <= n - 1
    OBVIOUS
  <2>1. Earlier(points, k) \in SUBSET D /\ k \notin Earlier(points, k) /\ Earlier(points, k) # D
    BY <1>1, <1>3
  <2>2. /\ IsFiniteSet(Earlier(points, k)) /\ Cardinality(Earlier(points, k)) <= n
        /\ Cardinality(Earlier(points, k)) # n
    BY <1>2, <2>1, FS_Subset
  <2>3. Cardinality(Earlier(points, k)) \in Nat
    BY <2>2, FS_CardinalityType
  <2> QED
    BY <2>2, <2>3 DEF Place
<1>5. ASSUME NEW j \in D, NEW k \in D, B(j, k) PROVE Place(points, j) < Place(points, k)
  <2>1. Earlier(points, j) \in SUBSET Earlier(points, k)
    BY <1>1, <1>3, <1>5
  <2>2. j \in Earlier(points, k) /\ j \notin Earlier(points, j) /\ Earlier(points, k) \in SUBSET D
    BY <1>1, <1>3, <1>5
  <2>3. IsFiniteSet(Earlier(points, k))
    BY <1>2, <2>2, FS_Subset
  <2>4. /\ Cardinality(Earlier(points, j)) <= Cardinality(Earlier(points, k))
        /\ Cardinality(Earlier(points, j)) # Cardinality(Earlier(points, k))
    BY <2>1, <2>2, <2>3, FS_Subset
  <2> QED
    BY <1>4, <2>4 DEF Place
<1>6. \A j, k \in D : B(j, k) <=> Place(points, j) < Place(points, k)
  <2> SUFFICES ASSUME NEW j \in D, NEW k \in D, ~B(j, k) PROVE ~(Place(points, j) < Place(points, k))
    BY <1>5
  <2>1. j = k \/ B(k, j)
    BY <1>1
  <2>2. Place(points, j) \in Nat /\ Place(points, k) \in Nat
    BY <1>4
  <2> QED
    BY <1>5, <2>1, <2>2
<1>7. \A p \in 0..(n - 1) : \E k \in D : Place(points, k) = p
  <2> DEFINE f == [k \in D |-> Place(points, k)]
             T == 0..(n - 1)
  <2>1. f \in [D -> T]
    BY <1>4
  <2>2. \A j, k \in D : f[j] = f[k] => j = k
    <3> SUFFICES ASSUME NEW j \in D, NEW k \in D, j # k PROVE f[j] # f[k]
      OBVIOUS
    <3>1. B(j, k) \/ B(k, j)
      BY <1>1
    <3>2. Place(points, j) \in Nat /\ Place(points, k) \in Nat
      BY <1>4
    <3> QED
      BY <1>5, <3>1, <3>2
  <2>3. f \in Injection(D, T)
    BY <2>1, <2>2 DEF Injection, IsInjective
  <2>4. IsFiniteSet(T) /\ Cardinality(T) = n
    BY FS_Interval
  <2>5. f \in Surjection(D, T)
    BY <1>2, <2>3, <2>4, FS_Injection
  <2>6. \A p \in T : \E k \in D : f[k] = p
    BY <2>5 DEF Surjection
  <2> QED
    BY <2>6
<1> QED
  BY <1>4, <1>6, <1>7 DEF D, B

(* The places of a curve's points when they are sorted.                      *)
Sorting(P, points, n) ==
    /\ P \in [1..n -> 1..n]
    /\ Physics!Samples(points) = [k \in 1..n |-> points[P[k]]]
    /\ \A m \in 1..n : \E k \in 1..n : P[k] = m
    /\ \A j, k \in 1..n : j < k => /\ points[P[j]][1] <= points[P[k]][1]
                                   /\ points[P[j]][1] = points[P[k]][1] => P[j] < P[k]

(* Samples sorts, and is stable. *)
LEMMA SamplesSort ==
    ASSUME NEW n \in Nat, NEW points \in Curve(n)
    PROVE  \E P : Sorting(P, points, n)
<1> DEFINE At(k) == CHOOSE m \in DOMAIN points :
                        Cardinality({j \in DOMAIN points : Physics!Before(points, j, m)}) = k - 1
           P == [k \in 1..n |-> At(k)]
<1>1. DOMAIN points = 1..n
  BY PointsOrdered
<1>2. \A k \in 1..n : At(k) = CHOOSE m \in 1..n : Place(points, m) = k - 1
  BY <1>1 DEF Place, Earlier
<1>3. ASSUME NEW k \in 1..n PROVE P[k] \in 1..n /\ Place(points, P[k]) = k - 1
  <2>1. k - 1 \in 0..(n - 1)
    OBVIOUS
  <2>2. \E m \in 1..n : Place(points, m) = k - 1
    BY <2>1, Places
  <2>3. P[k] = CHOOSE m \in 1..n : Place(points, m) = k - 1
    BY <1>2
  <2> HIDE DEF P
  <2> QED
    BY <2>2, <2>3
<1>4. Physics!Samples(points) = [k \in 1..n |-> points[P[k]]]
  <2>1. Physics!Samples(points) = [k \in DOMAIN points |-> points[At(k)]]
    <3> DEFINE Own(k) == CHOOSE m \in DOMAIN points :
                            Physics!Cardinality({j \in DOMAIN points : Physics!Before(points, j, m)}) = k - 1
    <3>1. Physics!Samples(points) = [k \in DOMAIN points |-> points[Own(k)]]
      BY DEF Physics!Samples
    <3>2. \A k : Own(k) = At(k)
      BY SameCardinality
    <3> HIDE DEF At, Own
    <3> QED
      BY <3>1, <3>2
  <2>2. \A k \in 1..n : P[k] = At(k)
    OBVIOUS
  <2>3. Physics!Samples(points) = [k \in 1..n |-> points[At(k)]]
    BY <1>1, <2>1
  <2>4. \A k \in 1..n : points[P[k]] = points[At(k)]
    BY <2>2
  <2> HIDE DEF P, At
  <2> QED
    BY <2>3, <2>4
<1>5. P \in [1..n -> 1..n]
  <2>1. \A k \in 1..n : P[k] \in 1..n
    BY <1>3
  <2>2. \A k \in 1..n : At(k) \in 1..n
    BY <2>1
  <2> HIDE DEF At
  <2> QED
    BY <2>2
<1> HIDE DEF P
<1>6. \A m \in 1..n : \E k \in 1..n : P[k] = m
  <2> SUFFICES ASSUME NEW m \in 1..n PROVE \E k \in 1..n : P[k] = m
    OBVIOUS
  <2> DEFINE k == Place(points, m) + 1
  <2>1. Place(points, m) \in 0..(n - 1)
    BY Places
  <2>2. k \in 1..n /\ k - 1 = Place(points, m)
    BY <2>1
  <2> HIDE DEF k
  <2>3. P[k] \in 1..n /\ Place(points, P[k]) = Place(points, m)
    BY <1>3, <2>2
  <2>4. ~(Place(points, P[k]) < Place(points, m)) /\ ~(Place(points, m) < Place(points, P[k]))
    BY <2>1, <2>3
  <2>5. ~Physics!Before(points, P[k], m) /\ ~Physics!Before(points, m, P[k])
    BY <2>3, <2>4, Places
  <2>6. P[k] = m
    BY <2>3, <2>5, PointsOrdered
  <2> QED
    BY <2>2, <2>6
<1>7. ASSUME NEW j \in 1..n, NEW k \in 1..n, j < k
      PROVE  /\ points[P[j]][1] <= points[P[k]][1]
             /\ points[P[j]][1] = points[P[k]][1] => P[j] < P[k]
  <2>1. Place(points, P[j]) < Place(points, P[k]) /\ P[j] \in 1..n /\ P[k] \in 1..n
    BY <1>3, <1>7
  <2>2. Physics!Before(points, P[j], P[k])
    BY <2>1, Places
  <2>3. points[P[j]][1] \in Int /\ points[P[k]][1] \in Int
    BY <2>1, PointsOrdered
  <2>4. points[P[j]][1] < points[P[k]][1] \/ (points[P[j]][1] = points[P[k]][1] /\ P[j] < P[k])
    BY <2>2 DEF Physics!Before
  <2> QED
    BY <2>3, <2>4
<1> QED
  BY <1>4, <1>5, <1>6, <1>7 DEF Sorting

(* What Interpolate finds, by the sorted points: at the least place of x the *)
(* value there; or the segment that x is within; or that x is outside.       *)
LEMMA SegmentOf ==
    ASSUME NEW n \in Nat, n >= 2, NEW points \in Curve(n), NEW x \in Int, NEW P, Sorting(P, points, n)
    PROVE  LET X(k) == points[P[k]][1]
               v    == Physics!Interpolate(points, x)
           IN  /\ (x < X(1) \/ x > X(n)) => v = Physics!NotEvaluable
               /\ ~(x < X(1) \/ x > X(n)) =>
                     \E f \in 1..(n - 1) :
                        /\ v = Physics!Between(points[P[f]], points[P[f + 1]], x)
                        /\ X(f) <= x /\ x <= X(f + 1)
                        /\ \A j \in 1..(f - 1) : X(j + 1) < x
<1> DEFINE X(k) == points[P[k]][1]
           v == Physics!Interpolate(points, x)
           s == Physics!Samples(points)
           W == {k \in 1..(n - 1) : X(k) <= x /\ x <= X(k + 1)}
           first == CHOOSE k \in W : \A j \in W : k <= j
<1>1. /\ s = [k \in 1..n |-> points[P[k]]]
      /\ \A k \in 1..n : P[k] \in 1..n
      /\ \A j, k \in 1..n : j < k => X(j) <= X(k)
  BY DEF Sorting
<1>2. \A k \in 1..n : X(k) \in Int
  BY <1>1, PointsOrdered
<1>3. Len(s) = n /\ s \in Seq(Int \X Int)
  <2>1. \A k \in 1..n : points[P[k]] \in Int \X Int
    BY <1>1 DEF Curve
  <2>2. s \in [1..n -> Int \X Int]
    BY <1>1, <2>1
  <2> HIDE DEF s
  <2> QED
    BY <2>2, SeqDef
<1>4. \A k \in 1..n : s[k] = points[P[k]]
  BY <1>1
<1>5. {k \in 1..(Len(s) - 1) : s[k][1] <= x /\ x <= s[k + 1][1]} = W
  <2>1. \A k \in 1..(n - 1) : k \in 1..n /\ k + 1 \in 1..n
    OBVIOUS
  <2>2. \A k \in 1..(n - 1) : s[k][1] = X(k) /\ s[k + 1][1] = X(k + 1)
    BY <1>4, <2>1
  <2> HIDE DEF s, X
  <2> QED
    BY <1>3, <2>2
<1>6. v = IF x < X(1) \/ x > X(n) THEN Physics!NotEvaluable ELSE Physics!Between(s[first], s[first + 1], x)
  <2>1. v = IF Len(s) < 2 THEN Physics!NotEvaluable
            ELSE IF x < s[1][1] \/ x > s[Len(s)][1] THEN Physics!NotEvaluable
            ELSE Physics!Between(s[first], s[first + 1], x)
    <3> DEFINE windows == {k \in 1..(Len(s) - 1) : s[k][1] <= x /\ x <= s[k + 1][1]}
               own == CHOOSE k \in windows : \A j \in windows : k <= j
    <3>1. v = IF Len(s) < 2 THEN Physics!NotEvaluable
              ELSE IF x < s[1][1] \/ x > s[Len(s)][1] THEN Physics!NotEvaluable
              ELSE Physics!Between(s[own], s[own + 1], x)
      BY DEF Physics!Interpolate
    <3>2. windows = W
      BY <1>5
    <3> HIDE DEF windows, W
    <3>3. own = first
      BY <3>2
    <3> HIDE DEF own, first, s, v
    <3> QED
      BY <3>1, <3>3
  <2>2. s[1][1] = X(1) /\ s[n][1] = X(n)
    BY <1>4
  <2> HIDE DEF s, X, W, first, v
  <2> QED
    BY <1>3, <2>1, <2>2
<1>7. ASSUME ~(x < X(1) \/ x > X(n))
      PROVE  /\ first \in W /\ \A j \in W : first <= j
             /\ \A j \in 1..(first - 1) : X(j + 1) < x
  <2> DEFINE U == {k \in 1..(n - 1) : x <= X(k + 1)}
  <2> HIDE DEF X, s, v
  <2>1. n - 1 \in U
    BY <1>2, <1>7
  <2>2. PICK k \in U : \A j \in U : k <= j
    <3>1. U \subseteq Nat
      OBVIOUS
    <3> HIDE DEF U
    <3> QED
      BY <2>1, <3>1, NatLeast
  <2>3. X(k) <= x
    <3>1. CASE k = 1
      BY <1>2, <1>7, <3>1
    <3>2. CASE k # 1
      <4>1. k - 1 \in 1..(n - 1) /\ ~(k <= k - 1) /\ (k - 1) + 1 = k /\ k \in 1..n
        BY <3>2
      <4>2. ~(x <= X(k))
        BY <2>2, <4>1
      <4> QED
        BY <1>2, <4>1, <4>2
    <3> QED
      BY <3>1, <3>2
  <2>4. k \in W /\ \A j \in W : k <= j
    BY <2>2, <2>3
  <2>5. first \in W /\ \A j \in W : first <= j
    BY <2>4
  <2>6. first = k
    <3>1. first \in Nat /\ k \in Nat /\ first <= k /\ k <= first
      BY <2>4, <2>5
    <3> QED
      BY <3>1
  <2> HIDE DEF W, first
  <2>7. ASSUME NEW j \in 1..(k - 1) PROVE X(j + 1) < x
    <3>1. j \in 1..(n - 1) /\ ~(k <= j) /\ j + 1 \in 1..n
      BY <2>2
    <3>2. j \notin U
      BY <2>2, <3>1
    <3>3. ~(x <= X(j + 1))
      BY <3>1, <3>2
    <3> QED
      BY <1>2, <3>1, <3>3
  <2> QED
    BY <2>5, <2>6, <2>7
<1>8. ASSUME ~(x < X(1) \/ x > X(n))
      PROVE  \E f \in 1..(n - 1) :
                /\ v = Physics!Between(points[P[f]], points[P[f + 1]], x)
                /\ X(f) <= x /\ x <= X(f + 1)
                /\ \A j \in 1..(f - 1) : X(j + 1) < x
  <2> HIDE DEF s, v, first, X
  <2>1. first \in 1..(n - 1) /\ X(first) <= x /\ x <= X(first + 1)
    BY <1>7, <1>8
  <2>2. s[first] = points[P[first]] /\ s[first + 1] = points[P[first + 1]]
    BY <1>4, <2>1
  <2>3. v = Physics!Between(points[P[first]], points[P[first + 1]], x)
    BY <1>6, <1>8, <2>2
  <2> QED
    BY <1>7, <1>8, <2>1, <2>3
<1> QED
  BY <1>6, <1>8

(* At either end of a segment Between gives the value there, and elsewhere   *)
(* one on the line.                                                          *)
LEMMA BetweenIs ==
    ASSUME NEW p \in Int \X Int, NEW q \in Int \X Int, NEW x \in Int
    PROVE  LET v == Physics!Between(p, q, x)
           IN  /\ v # Physics!NotEvaluable
               /\ x = p[1] => v[1] = p[2] * v[2]
               /\ x = q[1] /\ p[1] # q[1] => v[1] = q[2] * v[2]
               /\ p[1] # q[1] => (v[1] - p[2] * v[2]) * (q[1] - p[1]) = (q[2] - p[2]) * (x - p[1]) * v[2]
<1> DEFINE v == Physics!Between(p, q, x)
<1>1. p[1] \in Int /\ p[2] \in Int /\ q[1] \in Int /\ q[2] \in Int
  OBVIOUS
<1>2. CASE p[1] = q[1]
  <2>1. v = <<p[2], 1>>
    BY <1>2 DEF Physics!Between
  <2>2. v # Physics!NotEvaluable /\ v[1] = p[2] * v[2]
    BY <1>1, <2>1 DEF Physics!NotEvaluable
  <2> HIDE DEF v
  <2> QED
    BY <1>2, <2>2 DEF v
<1>3. CASE p[1] # q[1]
  <2> DEFINE d == q[1] - p[1]
             e == q[2] - p[2]
             y == x - p[1]
  <2>1. v = <<p[2] * d + y * e, d>>
    BY <1>3 DEF Physics!Between
  <2>2. v[1] = p[2] * d + y * e /\ v[2] = d /\ v # Physics!NotEvaluable
    BY <2>1 DEF Physics!NotEvaluable
  <2>3. d \in Int /\ e \in Int /\ y \in Int
    BY <1>1
  <2>4. x = p[1] => y = 0
    BY <1>1
  <2>5. x = q[1] => y = d
    OBVIOUS
  <2>6. q[2] = p[2] + e
    BY <1>1
  <2> HIDE DEF v, d, e, y
  <2>7. x = p[1] => v[1] = p[2] * v[2]
    <3>1. 0 * e = 0 /\ p[2] * d \in Int
      BY <1>1, <2>3
    <3> QED
      BY <2>2, <2>4, <3>1
  <2>8. x = q[1] => v[1] = q[2] * v[2]
    <3>1. \A a, b, c \in Int : (a + b) * c = a * c + c * b
      OBVIOUS
    <3>2. (p[2] + e) * d = p[2] * d + d * e
      BY <1>1, <2>3, <3>1
    <3> QED
      BY <2>2, <2>5, <2>6, <3>2
  <2>9. (v[1] - p[2] * v[2]) * d = e * y * v[2]
    <3>1. p[2] * d \in Int /\ y * e \in Int /\ y * e = e * y
      BY <1>1, <2>3
    <3>2. v[1] - p[2] * v[2] = e * y
      BY <2>2, <3>1
    <3> QED
      BY <2>2, <3>2
  <2> QED
    BY <2>2, <2>7, <2>8, <2>9 DEF v, d, e, y
<1> QED
  BY <1>2, <1>3

(* The first and the last of the points at some x.                           *)
FirstOf(points, y) ==
    points[CHOOSE m \in {k \in DOMAIN points : points[k][1] = y} :
              \A l \in {k \in DOMAIN points : points[k][1] = y} : m <= l]
LastOf(points, y) ==
    points[CHOOSE m \in {k \in DOMAIN points : points[k][1] = y} :
              \A l \in {k \in DOMAIN points : points[k][1] = y} : l <= m]

(* The least and the last of the places where a sorted curve has some x.     *)
LEMMA FirstAt ==
    ASSUME NEW n \in Nat, NEW points \in Curve(n), NEW P, Sorting(P, points, n),
           NEW K \in 1..n, \A j \in 1..(K - 1) : points[P[j]][1] # points[P[K]][1]
    PROVE  FirstOf(points, points[P[K]][1]) = points[P[K]]
<1> DEFINE X(k) == points[P[k]][1]
           at == {m \in DOMAIN points : points[m][1] = X(K)}
<1>0. \A k \in 1..n : P[k] \in 1..n /\ P[k] \in Nat
  <2>1. P \in [1..n -> 1..n]
    BY DEF Sorting
  <2>2. \A k \in 1..n : P[k] \in 1..n
    BY <2>1
  <2>3. 1..n \subseteq Nat
    OBVIOUS
  <2> QED
    BY <2>2, <2>3
<1>1. /\ DOMAIN points = 1..n
      /\ \A m \in 1..n : \E k \in 1..n : P[k] = m
      /\ \A j, k \in 1..n : j < k => (X(j) = X(k) => P[j] < P[k])
  <2>1. DOMAIN points = 1..n
    BY PointsOrdered
  <2>2. /\ \A m \in 1..n : \E k \in 1..n : P[k] = m
        /\ \A j, k \in 1..n : j < k => (X(j) = X(k) => P[j] < P[k])
    BY DEF Sorting
  <2> QED
    BY <2>1, <2>2
<1>2. ASSUME NEW m \in at PROVE P[K] <= m
  <2>1. PICK k \in 1..n : P[k] = m
    BY <1>1
  <2>2. X(k) = X(K)
    BY <2>1
  <2>3. ~(k < K)
    <3> SUFFICES ASSUME k < K PROVE FALSE
      OBVIOUS
    <3>1. k \in 1..(K - 1)
      OBVIOUS
    <3> QED
      BY <2>2, <3>1
  <2> HIDE DEF X
  <2>4. k = K \/ P[K] < P[k]
    BY <1>1, <2>2, <2>3
  <2>5. P[k] \in Nat /\ P[K] \in Nat
    BY <1>0
  <2> QED
    BY <2>1, <2>4, <2>5
<1>3. P[K] \in at
  BY <1>0, <1>1
<1>4. at \subseteq Nat
  BY <1>1
<1> HIDE DEF at
<1>5. ASSUME NEW m \in at, \A l \in at : m <= l PROVE m = P[K]
  <2>1. m <= P[K] /\ P[K] <= m /\ m \in Nat /\ P[K] \in Nat
    BY <1>2, <1>3, <1>4, <1>5
  <2> QED
    BY <2>1
<1>6. (CHOOSE m \in at : \A l \in at : m <= l) = P[K]
  BY <1>2, <1>3, <1>5
<1> QED
  BY <1>6 DEF at, FirstOf

LEMMA LastAt ==
    ASSUME NEW n \in Nat, NEW points \in Curve(n), NEW P, Sorting(P, points, n),
           NEW K \in 1..n, \A j \in (K + 1)..n : points[P[j]][1] # points[P[K]][1]
    PROVE  LastOf(points, points[P[K]][1]) = points[P[K]]
<1> DEFINE X(k) == points[P[k]][1]
           at == {m \in DOMAIN points : points[m][1] = X(K)}
<1>0. \A k \in 1..n : P[k] \in 1..n /\ P[k] \in Nat
  <2>1. P \in [1..n -> 1..n]
    BY DEF Sorting
  <2>2. \A k \in 1..n : P[k] \in 1..n
    BY <2>1
  <2>3. 1..n \subseteq Nat
    OBVIOUS
  <2> QED
    BY <2>2, <2>3
<1>1. /\ DOMAIN points = 1..n
      /\ \A m \in 1..n : \E k \in 1..n : P[k] = m
      /\ \A j, k \in 1..n : j < k => (X(j) = X(k) => P[j] < P[k])
  <2>1. DOMAIN points = 1..n
    BY PointsOrdered
  <2>2. /\ \A m \in 1..n : \E k \in 1..n : P[k] = m
        /\ \A j, k \in 1..n : j < k => (X(j) = X(k) => P[j] < P[k])
    BY DEF Sorting
  <2> QED
    BY <2>1, <2>2
<1>2. ASSUME NEW m \in at PROVE m <= P[K]
  <2>1. PICK k \in 1..n : P[k] = m
    BY <1>1
  <2>2. X(k) = X(K)
    BY <2>1
  <2>3. ~(K < k)
    <3> SUFFICES ASSUME K < k PROVE FALSE
      OBVIOUS
    <3>1. k \in (K + 1)..n
      OBVIOUS
    <3> QED
      BY <2>2, <3>1
  <2> HIDE DEF X
  <2>4. k = K \/ P[k] < P[K]
    BY <1>1, <2>2, <2>3
  <2>5. P[k] \in Nat /\ P[K] \in Nat
    BY <1>0
  <2> QED
    BY <2>1, <2>4, <2>5
<1>3. P[K] \in at
  BY <1>0, <1>1
<1>4. at \subseteq Nat
  BY <1>1
<1> HIDE DEF at
<1>5. ASSUME NEW m \in at, \A l \in at : l <= m PROVE m = P[K]
  <2>1. m <= P[K] /\ P[K] <= m /\ m \in Nat /\ P[K] \in Nat
    BY <1>2, <1>3, <1>4, <1>5
  <2> QED
    BY <2>1
<1>6. (CHOOSE m \in at : \A l \in at : l <= m) = P[K]
  BY <1>2, <1>3, <1>5
<1> QED
  BY <1>6 DEF at, LastOf

(* Numbers that do not fall.                                                 *)
Rising(X, n) == X \in [1..n -> Int] /\ \A j, k \in 1..n : j < k => X[j] <= X[k]
Met(X, n)    == {X[k] : k \in 1..n}

LEMMA Outermost ==
    ASSUME NEW n \in Nat, n >= 1, NEW X, Rising(X, n), NEW x \in Int
    PROVE  (x < X[1] \/ x > X[n])
           <=> x \notin Met(X, n) /\ ({y \in Met(X, n) : y < x} = {} \/ {y \in Met(X, n) : y > x} = {})
<1>1. 1 \in 1..n /\ n \in 1..n /\ \A k \in 1..n : X[k] \in Int
  BY DEF Rising
<1>2. \A k \in 1..n : X[1] <= X[k] /\ X[k] <= X[n]
  <2> SUFFICES ASSUME NEW k \in 1..n PROVE X[1] <= X[k] /\ X[k] <= X[n]
    OBVIOUS
  <2>1. (k = 1 \/ 1 < k) /\ (k = n \/ k < n) /\ X[k] <= X[k]
    BY <1>1
  <2> QED
    BY <1>1, <2>1 DEF Rising
<1>3. ASSUME x < X[1]
      PROVE  x \notin Met(X, n) /\ {y \in Met(X, n) : y < x} = {}
  <2>1. \A k \in 1..n : ~(X[k] < x) /\ X[k] # x
    BY <1>1, <1>2, <1>3
  <2> QED
    BY <2>1 DEF Met
<1>4. ASSUME x > X[n]
      PROVE  x \notin Met(X, n) /\ {y \in Met(X, n) : y > x} = {}
  <2>1. \A k \in 1..n : ~(X[k] > x) /\ X[k] # x
    BY <1>1, <1>2, <1>4
  <2> QED
    BY <2>1 DEF Met
<1>5. ASSUME ~(x < X[1] \/ x > X[n]), x \notin Met(X, n)
      PROVE  X[1] \in {y \in Met(X, n) : y < x} /\ X[n] \in {y \in Met(X, n) : y > x}
  <2>1. X[1] \in Met(X, n) /\ X[n] \in Met(X, n)
    BY <1>1 DEF Met
  <2>2. X[1] # x /\ X[n] # x
    BY <1>5, <2>1
  <2>3. X[1] < x /\ X[n] > x
    BY <1>1, <1>5, <2>2
  <2> QED
    BY <2>1, <2>3
<1> QED
  BY <1>3, <1>4, <1>5

(* The numbers on both sides of one that is between two neighbours.          *)
LEMMA Neighboring ==
    ASSUME NEW n \in Nat, NEW X, Rising(X, n), NEW x \in Int, NEW f \in 1..(n - 1), X[f] < x, x < X[f + 1]
    PROVE  LET below == {y \in Met(X, n) : y < x}
               above == {y \in Met(X, n) : y > x}
           IN  /\ (CHOOSE y \in below : \A z \in below : z <= y) = X[f]
               /\ (CHOOSE y \in above : \A z \in above : y <= z) = X[f + 1]
               /\ \A j \in (f + 1)..n : X[j] # X[f]
               /\ \A j \in 1..f : X[j] # X[f + 1]
<1> DEFINE below == {y \in Met(X, n) : y < x}
           above == {y \in Met(X, n) : y > x}
<1>1. f \in 1..n /\ f + 1 \in 1..n /\ \A k \in 1..n : X[k] \in Int
  BY DEF Rising
<1>2. \A k \in 1..n : (k <= f => X[k] <= X[f]) /\ (f + 1 <= k => X[f + 1] <= X[k])
  <2> SUFFICES ASSUME NEW k \in 1..n
               PROVE  (k <= f => X[k] <= X[f]) /\ (f + 1 <= k => X[f + 1] <= X[k])
    OBVIOUS
  <2>1. X[k] \in Int /\ X[k] <= X[k]
    BY <1>1
  <2>2. (k <= f => k = f \/ k < f) /\ (f + 1 <= k => k = f + 1 \/ f + 1 < k)
    OBVIOUS
  <2> QED
    BY <1>1, <2>1, <2>2 DEF Rising
<1>3. \A k \in 1..n : (X[k] < x => X[k] <= X[f]) /\ (X[k] > x => X[f + 1] <= X[k])
  <2> SUFFICES ASSUME NEW k \in 1..n
               PROVE  (X[k] < x => X[k] <= X[f]) /\ (X[k] > x => X[f + 1] <= X[k])
    OBVIOUS
  <2>1. k <= f \/ f + 1 <= k
    OBVIOUS
  <2>2. X[k] \in Int /\ X[f] \in Int /\ X[f + 1] \in Int
    BY <1>1
  <2> QED
    BY <1>2, <2>1, <2>2
<1>4. (CHOOSE y \in below : \A z \in below : z <= y) = X[f]
  <2>1. X[f] \in below /\ below \subseteq Int
    BY <1>1 DEF Met
  <2>2. \A y \in below : y <= X[f]
    BY <1>3 DEF Met
  <2> HIDE DEF below
  <2>3. ASSUME NEW y \in below, \A z \in below : z <= y PROVE y = X[f]
    <3>1. y <= X[f] /\ X[f] <= y /\ y \in Int /\ X[f] \in Int
      BY <2>1, <2>2, <2>3
    <3> QED
      BY <3>1
  <2> QED
    BY <2>1, <2>2, <2>3
<1>5. (CHOOSE y \in above : \A z \in above : y <= z) = X[f + 1]
  <2>1. X[f + 1] \in above /\ above \subseteq Int
    BY <1>1 DEF Met
  <2>2. \A y \in above : X[f + 1] <= y
    BY <1>3 DEF Met
  <2> HIDE DEF above
  <2>3. ASSUME NEW y \in above, \A z \in above : y <= z PROVE y = X[f + 1]
    <3>1. y <= X[f + 1] /\ X[f + 1] <= y /\ y \in Int /\ X[f + 1] \in Int
      BY <2>1, <2>2, <2>3
    <3> QED
      BY <3>1
  <2> QED
    BY <2>1, <2>2, <2>3
<1>6. ASSUME NEW j \in (f + 1)..n PROVE X[j] # X[f]
  <2>1. j \in 1..n /\ f + 1 <= j
    OBVIOUS
  <2>2. X[f + 1] <= X[j] /\ X[j] \in Int /\ X[f] \in Int /\ X[f + 1] \in Int
    BY <1>1, <1>2, <2>1
  <2> QED
    BY <2>2
<1>7. ASSUME NEW j \in 1..f PROVE X[j] # X[f + 1]
  <2>1. j \in 1..n /\ j <= f
    OBVIOUS
  <2>2. X[j] <= X[f] /\ X[j] \in Int /\ X[f] \in Int /\ X[f + 1] \in Int
    BY <1>1, <1>2, <2>1
  <2> QED
    BY <2>2
<1> QED
  BY <1>4, <1>5, <1>6, <1>7

(* The first place of a number that is on the segment from f.                *)
LEMMA Touching ==
    ASSUME NEW n \in Nat, NEW X, Rising(X, n), NEW x \in Int, NEW f \in 1..(n - 1), X[f] <= x, x <= X[f + 1],
           \A j \in 1..(f - 1) : X[j + 1] < x, x \in Met(X, n)
    PROVE  \/ X[f] = x /\ \A j \in 1..(f - 1) : X[j] # X[f]
           \/ X[f] < x /\ X[f + 1] = x /\ \A j \in 1..f : X[j] # X[f + 1]
<1>1. f \in 1..n /\ f + 1 \in 1..n /\ \A k \in 1..n : X[k] \in Int
  BY DEF Rising
<1>2. ASSUME NEW j \in 1..(f - 1) PROVE X[j] < x
  <2>1. j \in 1..n /\ j + 1 \in 1..n /\ j < j + 1
    OBVIOUS
  <2>2. X[j] <= X[j + 1] /\ X[j + 1] < x /\ X[j] \in Int /\ X[j + 1] \in Int
    BY <1>1, <2>1 DEF Rising
  <2> QED
    BY <2>2
<1>3. CASE X[f] = x
  <2>1. ASSUME NEW j \in 1..(f - 1) PROVE X[j] # X[f]
    <3>1. X[j] \in Int /\ X[j] < x
      BY <1>1, <1>2
    <3> QED
      BY <1>3, <3>1
  <2> QED
    BY <1>3, <2>1
<1>4. CASE X[f] # x
  <2>1. X[f] < x
    BY <1>1, <1>4
  <2>2. ASSUME NEW j \in 1..f PROVE X[j] < x /\ X[j] \in Int
    <3>1. (j = f \/ j \in 1..(f - 1)) /\ j \in 1..n
      OBVIOUS
    <3> QED
      BY <1>1, <1>2, <2>1, <3>1
  <2>3. PICK k \in 1..n : X[k] = x
    BY DEF Met
  <2>4. ~(k \in 1..f)
    <3> SUFFICES ASSUME k \in 1..f PROVE FALSE
      OBVIOUS
    <3>1. X[k] < x /\ X[k] \in Int
      BY <2>2
    <3> QED
      BY <2>3, <3>1
  <2>5. X[f + 1] = x
    <3>1. k = f + 1 \/ f + 1 < k
      BY <2>4
    <3>2. CASE k = f + 1
      BY <2>3, <3>2
    <3>3. CASE f + 1 < k
      <4>1. X[f + 1] <= X[k] /\ X[f + 1] \in Int
        BY <1>1, <3>3 DEF Rising
      <4> QED
        BY <2>3, <4>1
    <3> QED
      BY <3>1, <3>2, <3>3
  <2>6. ASSUME NEW j \in 1..f PROVE X[j] # X[f + 1]
    <3>1. X[j] < x /\ X[j] \in Int
      BY <2>2
    <3> QED
      BY <2>5, <3>1
  <2> QED
    BY <2>1, <2>5, <2>6
<1> QED
  BY <1>3, <1>4

(* What Interpolate should give for x, between low and high.                 *)
Drawn(points, x, v, xs, below, above, low, high) ==
    IF Len(points) < 2 \/ (x \notin xs /\ (below = {} \/ above = {})) THEN v = Physics!NotEvaluable
    ELSE /\ v # Physics!NotEvaluable
         /\ IF x \in xs THEN v[1] = FirstOf(points, x)[2] * v[2]
            ELSE (v[1] - LastOf(points, low)[2] * v[2]) * (FirstOf(points, high)[1] - LastOf(points, low)[1])
                 = (FirstOf(points, high)[2] - LastOf(points, low)[2]) * (x - LastOf(points, low)[1]) * v[2]

LEMMA DrawnFollows ==
    ASSUME NEW points, NEW x
    PROVE  LET xs    == {points[m][1] : m \in DOMAIN points}
               below == {y \in xs : y < x}
               above == {y \in xs : y > x}
           IN  Drawn(points, x, Physics!Interpolate(points, x), xs, below, above,
                     CHOOSE y \in below : \A z \in below : z <= y,
                     CHOOSE y \in above : \A z \in above : y <= z)
               => Physics!FollowsTheCurve(points, x)
  BY DEF Physics!FollowsTheCurve, Drawn, FirstOf, LastOf

LEMMA NothingDrawn ==
    ASSUME NEW points, NEW x, NEW xs, NEW below, NEW above, NEW low, NEW high,
           Len(points) < 2 \/ (x \notin xs /\ (below = {} \/ above = {}))
    PROVE  Drawn(points, x, Physics!NotEvaluable, xs, below, above, low, high)
  BY DEF Drawn

LEMMA CurvesFollowed ==
    ASSUME NEW n \in Nat, NEW points \in Curve(n), Len(points) = n, NEW x \in Int
    PROVE  Physics!FollowsTheCurve(points, x)
<1> DEFINE xs == {points[m][1] : m \in DOMAIN points}
           below == {y \in xs : y < x}
           above == {y \in xs : y > x}
           low == CHOOSE y \in below : \A z \in below : z <= y
           high == CHOOSE y \in above : \A z \in above : y <= z
           v == Physics!Interpolate(points, x)
<1>0. Drawn(points, x, v, xs, below, above, low, high) => Physics!FollowsTheCurve(points, x)
  BY DrawnFollows
<1> SUFFICES Drawn(points, x, v, xs, below, above, low, high)
  BY <1>0
<1>1. PICK P : Sorting(P, points, n)
  BY SamplesSort
<1> DEFINE X == [k \in 1..n |-> points[P[k]][1]]
<1>2. /\ P \in [1..n -> 1..n]
      /\ \A m \in 1..n : \E k \in 1..n : P[k] = m
      /\ \A j, k \in 1..n : j < k => points[P[j]][1] <= points[P[k]][1]
  BY <1>1 DEF Sorting
<1>3. DOMAIN points = 1..n /\ \A m \in 1..n : points[m] \in Int \X Int /\ points[m][1] \in Int
  BY DEF Curve
<1>4. \A k \in 1..n : X[k] = points[P[k]][1] /\ P[k] \in 1..n /\ points[P[k]] \in Int \X Int /\ X[k] \in Int
  BY <1>2, <1>3
<1>5. Rising(X, n)
  <2>1. X \in [1..n -> Int]
    BY <1>4
  <2>2. \A j, k \in 1..n : j < k => X[j] <= X[k]
    BY <1>2, <1>4
  <2> QED
    BY <2>1, <2>2 DEF Rising
<1>6. xs = Met(X, n)
  <2>1. \A k \in 1..n : X[k] \in xs
    BY <1>3, <1>4
  <2>2. \A m \in 1..n : points[m][1] \in Met(X, n)
    BY <1>2, <1>4 DEF Met
  <2> HIDE DEF X
  <2> QED
    BY <1>3, <2>1, <2>2 DEF Met
<1> HIDE DEF X
<1>7. CASE n < 2
  <2>1. v = Physics!NotEvaluable
    <3>1. Len(Physics!Samples(points)) = n
      <4>1. Physics!Samples(points) = [k \in 1..n |-> points[P[k]]]
        BY <1>1 DEF Sorting
      <4> QED
        BY <4>1
    <3> QED
      BY <1>7, <3>1 DEF Physics!Interpolate
  <2>2. Drawn(points, x, Physics!NotEvaluable, xs, below, above, low, high)
    BY <1>7, NothingDrawn
  <2> HIDE DEF xs, below, above, v, low, high
  <2> QED
    BY <2>1, <2>2
<1>8. CASE n >= 2 /\ (x < X[1] \/ x > X[n])
  <2>1. x \notin xs /\ (below = {} \/ above = {})
    <3>1. x \notin Met(X, n) /\ ({y \in Met(X, n) : y < x} = {} \/ {y \in Met(X, n) : y > x} = {})
      BY <1>5, <1>8, Outermost
    <3> HIDE DEF xs
    <3> QED
      BY <1>6, <3>1
  <2>2. v = Physics!NotEvaluable
    <3>1. points[P[1]][1] = X[1] /\ points[P[n]][1] = X[n]
      BY <1>4, <1>8
    <3>2. x < points[P[1]][1] \/ x > points[P[n]][1]
      BY <1>8, <3>1
    <3> QED
      BY <1>1, <1>8, <3>2, SegmentOf
  <2> HIDE DEF xs, below, above, v, low, high
  <2>3. Drawn(points, x, Physics!NotEvaluable, xs, below, above, low, high)
    BY <2>1, NothingDrawn
  <2> QED
    BY <2>2, <2>3
<1>9. CASE n >= 2 /\ ~(x < X[1] \/ x > X[n])
  <2>1. ~(x \notin xs /\ (below = {} \/ above = {}))
    <3>1. ~(x \notin Met(X, n) /\ ({y \in Met(X, n) : y < x} = {} \/ {y \in Met(X, n) : y > x} = {}))
      BY <1>5, <1>9, Outermost
    <3> HIDE DEF xs
    <3> QED
      BY <1>6, <3>1
  <2>2. PICK f \in 1..(n - 1) :
           /\ v = Physics!Between(points[P[f]], points[P[f + 1]], x)
           /\ X[f] <= x /\ x <= X[f + 1]
           /\ \A j \in 1..(f - 1) : X[j + 1] < x
    <3>1. points[P[1]][1] = X[1] /\ points[P[n]][1] = X[n]
      BY <1>4, <1>9
    <3>4. ~(x < points[P[1]][1] \/ x > points[P[n]][1])
      BY <1>9, <3>1
    <3>2. \E f \in 1..(n - 1) :
             /\ v = Physics!Between(points[P[f]], points[P[f + 1]], x)
             /\ points[P[f]][1] <= x /\ x <= points[P[f + 1]][1]
             /\ \A j \in 1..(f - 1) : points[P[j + 1]][1] < x
      BY <1>1, <1>9, <3>4, SegmentOf
    <3>3. \A f \in 1..(n - 1) : f \in 1..n /\ f + 1 \in 1..n /\ \A j \in 1..(f - 1) : j + 1 \in 1..n
      OBVIOUS
    <3> HIDE DEF v
    <3> QED
      BY <1>4, <3>2, <3>3
  <2>3. f \in 1..n /\ f + 1 \in 1..n
    OBVIOUS
  <2> DEFINE p == points[P[f]]
             q == points[P[f + 1]]
  <2>4. p \in Int \X Int /\ q \in Int \X Int /\ p[1] = X[f] /\ q[1] = X[f + 1] /\ X[f] \in Int /\ X[f + 1] \in Int
    BY <1>4, <2>3
  <2>11. v = Physics!Between(p, q, x)
    BY <2>2
  <2>6. (\A j \in 1..(f - 1) : X[j] # X[f]) => FirstOf(points, X[f]) = p
    <3> SUFFICES ASSUME \A j \in 1..(f - 1) : X[j] # X[f] PROVE FirstOf(points, X[f]) = p
      OBVIOUS
    <3>1. ASSUME NEW j \in 1..(f - 1) PROVE points[P[j]][1] # points[P[f]][1]
      <4>1. j \in 1..n
        OBVIOUS
      <4> QED
        BY <1>4, <2>3, <4>1
    <3>2. FirstOf(points, points[P[f]][1]) = points[P[f]]
      BY <1>1, <2>3, <3>1, FirstAt
    <3> QED
      BY <2>4, <3>2
  <2>7. (\A j \in 1..f : X[j] # X[f + 1]) => FirstOf(points, X[f + 1]) = q
    <3> SUFFICES ASSUME \A j \in 1..f : X[j] # X[f + 1] PROVE FirstOf(points, X[f + 1]) = q
      OBVIOUS
    <3>1. ASSUME NEW j \in 1..((f + 1) - 1) PROVE points[P[j]][1] # points[P[f + 1]][1]
      <4>1. j \in 1..f /\ j \in 1..n
        OBVIOUS
      <4> QED
        BY <1>4, <2>3, <4>1
    <3>2. FirstOf(points, points[P[f + 1]][1]) = points[P[f + 1]]
      BY <1>1, <2>3, <3>1, FirstAt
    <3> QED
      BY <2>4, <3>2
  <2>8. (\A j \in (f + 1)..n : X[j] # X[f]) => LastOf(points, X[f]) = p
    <3> SUFFICES ASSUME \A j \in (f + 1)..n : X[j] # X[f] PROVE LastOf(points, X[f]) = p
      OBVIOUS
    <3>1. ASSUME NEW j \in (f + 1)..n PROVE points[P[j]][1] # points[P[f]][1]
      <4>1. j \in 1..n
        OBVIOUS
      <4> QED
        BY <1>4, <2>3, <4>1
    <3>2. LastOf(points, points[P[f]][1]) = points[P[f]]
      BY <1>1, <2>3, <3>1, LastAt
    <3> QED
      BY <2>4, <3>2
  <2> HIDE DEF xs, below, above, v, low, high, p, q
  <2>5. /\ v # Physics!NotEvaluable
        /\ x = p[1] => v[1] = p[2] * v[2]
        /\ x = q[1] /\ p[1] # q[1] => v[1] = q[2] * v[2]
        /\ p[1] # q[1] => (v[1] - p[2] * v[2]) * (q[1] - p[1]) = (q[2] - p[2]) * (x - p[1]) * v[2]
    <3> DEFINE w == Physics!Between(p, q, x)
    <3>1. /\ w # Physics!NotEvaluable
          /\ x = p[1] => w[1] = p[2] * w[2]
          /\ x = q[1] /\ p[1] # q[1] => w[1] = q[2] * w[2]
          /\ p[1] # q[1] => (w[1] - p[2] * w[2]) * (q[1] - p[1]) = (q[2] - p[2]) * (x - p[1]) * w[2]
      <4>1. p \in Int \X Int /\ q \in Int \X Int
        BY <2>4
      <4> QED
        BY <4>1, BetweenIs, Zenon
    <3>2. v = w
      BY <2>11
    <3> HIDE DEF w
    <3> QED
      BY <3>1, <3>2
  <2>9. CASE x \in xs
    <3>1. v[1] = FirstOf(points, x)[2] * v[2]
      <4>1. \/ X[f] = x /\ \A j \in 1..(f - 1) : X[j] # X[f]
            \/ X[f] < x /\ X[f + 1] = x /\ \A j \in 1..f : X[j] # X[f + 1]
        BY <1>5, <1>6, <2>2, <2>9, Touching
      <4>2. CASE X[f] = x /\ \A j \in 1..(f - 1) : X[j] # X[f]
        BY <2>4, <2>5, <2>6, <4>2
      <4>3. CASE X[f] < x /\ X[f + 1] = x /\ \A j \in 1..f : X[j] # X[f + 1]
        <5>1. FirstOf(points, x) = q /\ x = q[1] /\ p[1] # q[1]
          BY <2>4, <2>7, <4>3
        <5> QED
          BY <2>5, <5>1
      <4> QED
        BY <4>1, <4>2, <4>3
    <3> QED
      BY <2>1, <2>5, <2>9, <3>1, <1>9 DEF Drawn
  <2>10. CASE x \notin xs
    <3>1. X[f] < x /\ x < X[f + 1]
      <4>1. X[f] \in xs /\ X[f + 1] \in xs
        BY <1>6, <2>3 DEF Met
      <4>2. X[f] # x /\ X[f + 1] # x
        BY <2>10, <4>1
      <4> QED
        BY <2>2, <2>4, <4>2
    <3>2. /\ low = X[f] /\ high = X[f + 1]
          /\ \A j \in (f + 1)..n : X[j] # X[f]
          /\ \A j \in 1..f : X[j] # X[f + 1]
      BY <1>5, <1>6, <3>1, Neighboring DEF low, high, below, above
    <3>3. LastOf(points, low) = p /\ FirstOf(points, high) = q /\ p[1] # q[1]
      BY <2>4, <2>7, <2>8, <3>1, <3>2
    <3>4. (v[1] - LastOf(points, low)[2] * v[2]) * (FirstOf(points, high)[1] - LastOf(points, low)[1])
          = (FirstOf(points, high)[2] - LastOf(points, low)[2]) * (x - LastOf(points, low)[1]) * v[2]
      BY <2>5, <3>3
    <3> QED
      BY <2>1, <2>5, <2>10, <3>4, <1>9 DEF Drawn
  <2> QED
    BY <2>9, <2>10
<1> QED
  BY <1>7, <1>8, <1>9

-----------------------------------------------------------------------------
(* A model.  The search takes each formula from its queue once, after those  *)
(* it waits for (Searched, OrderComes); in that order what a formula reads   *)
(* is settled before it is computed (Computed, Evaluated).                   *)

(* How many of S come before i. *)
Rank(S, i) == Cardinality({j \in S : j < i})

(* The ranks of the n members of a set are 0, ..., n - 1, each once. *)
LEMMA Ranks ==
    ASSUME NEW S, S \subseteq Nat, IsFiniteSet(S)
    PROVE  /\ \A i \in S : Rank(S, i) \in 0..(Cardinality(S) - 1)
           /\ \A i, j \in S : i < j <=> Rank(S, i) < Rank(S, j)
           /\ \A n \in 0..(Cardinality(S) - 1) : \E i \in S : Rank(S, i) = n
<1> DEFINE N == Cardinality(S)
<1>0. N \in Nat
  BY FS_CardinalityType
<1>1. ASSUME NEW i \in S PROVE Rank(S, i) \in 0..(N - 1)
  <2> DEFINE B == {j \in S : j < i}
  <2>1. B \in SUBSET S /\ B # S
    <3>1. i \in Nat /\ i \notin B
      OBVIOUS
    <3> QED
      BY <3>1
  <2>2. IsFiniteSet(B) /\ Cardinality(B) <= N /\ Cardinality(B) # N
    BY <2>1, FS_Subset
  <2>3. Cardinality(B) \in Nat
    BY <2>2, FS_CardinalityType
  <2> QED
    BY <1>0, <2>2, <2>3 DEF Rank
<1>2. ASSUME NEW i \in S, NEW j \in S, i < j PROVE Rank(S, i) < Rank(S, j)
  <2> DEFINE B == {k \in S : k < i}
             C == {k \in S : k < j}
  <2>0. \A k \in S : k \in Nat
    OBVIOUS
  <2>1. B \in SUBSET C /\ i \in C /\ i \notin B /\ C \in SUBSET S
    <3>1. \A k \in S : k < i => k < j
      BY <1>2, <2>0
    <3>2. ~(i < i)
      BY <2>0
    <3>3. B \in SUBSET C
      BY <3>1
    <3> QED
      BY <1>2, <3>2, <3>3
  <2>2. IsFiniteSet(C)
    BY <2>1, FS_Subset
  <2>3. IsFiniteSet(B) /\ Cardinality(B) <= Cardinality(C) /\ Cardinality(B) # Cardinality(C)
    BY <2>1, <2>2, FS_Subset
  <2>4. Cardinality(B) \in Nat /\ Cardinality(C) \in Nat
    BY <2>2, <2>3, FS_CardinalityType
  <2> QED
    BY <2>3, <2>4 DEF Rank
<1>3. \A i, j \in S : i < j <=> Rank(S, i) < Rank(S, j)
  <2> SUFFICES ASSUME NEW i \in S, NEW j \in S, ~(i < j) PROVE ~(Rank(S, i) < Rank(S, j))
    BY <1>2
  <2>1. i \in Nat /\ j \in Nat /\ Rank(S, i) \in Nat /\ Rank(S, j) \in Nat
    BY <1>0, <1>1
  <2>2. CASE i = j
    BY <2>1, <2>2
  <2>3. CASE j < i
    BY <1>2, <2>1, <2>3
  <2> QED
    BY <2>1, <2>2, <2>3
<1>4. \A n \in 0..(N - 1) : \E i \in S : Rank(S, i) = n
  <2> DEFINE f == [i \in S |-> Rank(S, i)]
             T == 0..(N - 1)
  <2>1. \A i, j \in S : f[i] = f[j] => i = j
    <3> SUFFICES ASSUME NEW i \in S, NEW j \in S, i # j PROVE f[i] # f[j]
      OBVIOUS
    <3>1. i \in Nat /\ j \in Nat /\ Rank(S, i) \in Nat /\ Rank(S, j) \in Nat
      BY <1>0, <1>1
    <3>2. Rank(S, i) < Rank(S, j) \/ Rank(S, j) < Rank(S, i)
      BY <1>2, <3>1
    <3> QED
      BY <3>1, <3>2
  <2>2. f \in [S -> T]
    BY <1>1
  <2>3. f \in Injection(S, T)
    BY <2>1, <2>2 DEF Injection, IsInjective
  <2>4. IsFiniteSet(T) /\ Cardinality(T) = N
    <3>1. 0 \in Int /\ N - 1 \in Int
      BY <1>0
    <3>2. IsFiniteSet(0..(N - 1)) /\ Cardinality(0..(N - 1)) = IF 0 > N - 1 THEN 0 ELSE (N - 1) - 0 + 1
      BY <3>1, FS_Interval
    <3> QED
      BY <1>0, <3>2
  <2>5. f \in Surjection(S, T)
    BY <2>3, <2>4, FS_Injection
  <2>6. \A n \in T : \E i \in S : f[i] = n
    BY <2>5 DEF Surjection
  <2> QED
    BY <2>6
<1> QED
  BY <1>1, <1>3, <1>4

(* A sequence of the members of S, each once. *)
Lists(q, S, c) ==
    /\ q \in [1..c -> S]
    /\ \A i \in S : \E k \in 1..c : q[k] = i
    /\ \A j, k \in 1..c : q[j] = q[k] => j = k

LEMMA InOrderLists ==
    ASSUME NEW S, S \subseteq Nat, IsFiniteSet(S)
    PROVE  Lists(Physics!InOrder(S), S, Cardinality(S)) /\ Cardinality(S) \in Nat
<1> DEFINE N == Cardinality(S)
           O == Physics!InOrder(S)
           At(n) == CHOOSE i \in S : Rank(S, i) = n - 1
<1>0. N \in Nat
  BY FS_CardinalityType
<1>1. O = [n \in 1..N |-> At(n)]
  <2> DEFINE Own(k) == CHOOSE i \in S : Physics!Cardinality({j \in S : j < i}) = k - 1
  <2>1. O = [k \in 1..Physics!Cardinality(S) |-> Own(k)]
    BY DEF Physics!InOrder
  <2>2. \A k : Own(k) = At(k)
    BY SameCardinality DEF Rank
  <2>3. Physics!Cardinality(S) = N
    BY SameCardinality
  <2> HIDE DEF O, Own, At, N
  <2> QED
    BY <2>1, <2>2, <2>3
<1>2. ASSUME NEW n \in 1..N PROVE At(n) \in S /\ Rank(S, At(n)) = n - 1
  <2>1. n - 1 \in 0..(N - 1)
    BY <1>0
  <2>2. \E i \in S : Rank(S, i) = n - 1
    BY <2>1, Ranks
  <2> QED
    BY <2>2
<1> HIDE DEF O, At
<1>3. \A n \in 1..N : O[n] \in S /\ Rank(S, O[n]) = n - 1
  BY <1>1, <1>2
<1>4. O \in [1..N -> S]
  BY <1>1, <1>2
<1>5. \A j, k \in 1..N : O[j] = O[k] => j = k
  <2> SUFFICES ASSUME NEW j \in 1..N, NEW k \in 1..N, O[j] = O[k] PROVE j = k
    OBVIOUS
  <2>1. Rank(S, O[j]) = j - 1 /\ Rank(S, O[k]) = k - 1 /\ j \in Nat /\ k \in Nat
    BY <1>0, <1>3
  <2> QED
    BY <2>1
<1>6. ASSUME NEW i \in S PROVE \E k \in 1..N : O[k] = i
  <2> DEFINE n == Rank(S, i) + 1
  <2>1. Rank(S, i) \in 0..(N - 1)
    BY Ranks
  <2>2. n \in 1..N /\ n - 1 = Rank(S, i)
    BY <1>0, <2>1
  <2> HIDE DEF n
  <2>3. O[n] \in S /\ Rank(S, O[n]) = Rank(S, i)
    BY <1>3, <2>2
  <2>4. ~(Rank(S, i) < Rank(S, i))
    BY <1>0, <2>1
  <2>5. ~(O[n] < i) /\ ~(i < O[n])
    BY <2>3, <2>4, Ranks
  <2>6. O[n] \in Nat /\ i \in Nat
    BY <2>3
  <2>7. O[n] = i
    BY <2>5, <2>6
  <2> QED
    BY <2>2, <2>7
<1> HIDE DEF N
<1>7. Lists(O, S, N)
  BY <1>4, <1>5, <1>6 DEF Lists
<1> QED
  BY <1>0, <1>7 DEF O, N

(* The greatest of a set that a number bounds, if it is one of them. *)
LEMMA MaxIs ==
    ASSUME NEW n \in Nat, NEW s \in SUBSET (1..n), n \in s
    PROVE  Physics!Max(s) = n
<1>1. \A y \in s : n >= y /\ y \in Nat
  OBVIOUS
<1>2. \A x \in s : (\A y \in s : x >= y) => x = n
  BY <1>1
<1> QED
  BY <1>1, <1>2 DEF Physics!Max

PopFold(b, q) == Physics!FoldLeft(LAMBDA r, c : Physics!Pop(q, r), b, q)
PopFoldRun(f, b, q, c) ==
    /\ f[0] = b
    /\ \A k \in 1..c : f[k] = Physics!Pop(q, f[k - 1])
    /\ PopFold(b, q) = f[c]

(* The states a fold of Pop goes through. *)
LEMMA PopFoldSteps ==
    ASSUME NEW b, NEW q, NEW c \in Nat, DOMAIN q = 1..c
    PROVE  \E f : PopFoldRun(f, b, q, c)
<1> DEFINE Is(it, n) == it = [s \in SUBSET (1..n) |-> IF s = {} THEN b ELSE Physics!Pop(q, it[s \ {Physics!Max(s)}])]
           T == {n \in 0..c : ~ \E it : Is(it, n)}
<1>1. T = {}
  <2> SUFFICES ASSUME T # {} PROVE FALSE
    OBVIOUS
  <2>0. T \subseteq Nat
    OBVIOUS
  <2> HIDE DEF T
  <2>1. PICK n \in T : \A m \in T : n <= m
    BY <2>0, NatLeast
  <2>2. n \in 0..c /\ ~ \E it : Is(it, n)
    BY DEF T
  <2>3. n # 0
    <3> SUFFICES ASSUME n = 0 PROVE FALSE
      OBVIOUS
    <3>1. Is([s \in SUBSET (1..0) |-> b], 0)
      <4>1. \A s \in SUBSET (1..0) : s = {}
        OBVIOUS
      <4> QED
        BY <4>1
    <3> QED
      BY <2>2, <3>1
  <2>4. n - 1 \in Nat /\ n \in Nat /\ \E it : Is(it, n - 1)
    <3>1. n - 1 \in 0..c /\ ~(n <= n - 1) /\ n - 1 \in Nat /\ n \in Nat
      BY <2>2, <2>3
    <3>2. n - 1 \notin T
      BY <2>1, <3>1
    <3> HIDE DEF Is
    <3> QED
      BY <3>1, <3>2 DEF T
  <2>5. PICK g : Is(g, n - 1)
    BY <2>4
  <2> DEFINE h == [s \in SUBSET (1..n) |-> IF n \in s THEN Physics!Pop(q, g[s \ {n}]) ELSE g[s]]
  <2>6. \A s \in SUBSET (1..n) : n \notin s => s \in SUBSET (1..(n - 1))
    BY <2>4
  <2>7. \A s \in SUBSET (1..n) : h[s] = IF n \in s THEN Physics!Pop(q, g[s \ {n}]) ELSE g[s]
    OBVIOUS
  <2>8. \A s \in SUBSET (1..(n - 1)) : g[s] = IF s = {} THEN b ELSE Physics!Pop(q, g[s \ {Physics!Max(s)}])
    BY <2>5
  <2>9. h = [s \in SUBSET (1..n) |-> h[s]]
    OBVIOUS
  <2> HIDE DEF h
  <2>10. ASSUME NEW s \in SUBSET (1..n)
         PROVE  h[s] = IF s = {} THEN b ELSE Physics!Pop(q, h[s \ {Physics!Max(s)}])
    <3>1. s \ {Physics!Max(s)} \in SUBSET (1..n)
      OBVIOUS
    <3>2. CASE n \in s
      <4>1. Physics!Max(s) = n
        BY <2>4, <3>2, MaxIs
      <4>2. h[s \ {n}] = g[s \ {n}]
        BY <2>7, <3>1, <4>1
      <4> QED
        BY <2>7, <3>2, <4>1, <4>2
    <3>3. CASE n \notin s
      <4>1. h[s] = g[s] /\ h[s \ {Physics!Max(s)}] = g[s \ {Physics!Max(s)}]
        BY <2>7, <3>1, <3>3
      <4> QED
        BY <2>6, <2>8, <3>3, <4>1
    <3> QED
      BY <3>2, <3>3
  <2>11. Is(h, n)
    BY <2>9, <2>10
  <2> HIDE DEF Is
  <2> QED
    BY <2>2, <2>11
<1> DEFINE it == CHOOSE it : Is(it, c)
<1>2. Is(it, c)
  <2>1. c \in 0..c
    OBVIOUS
  <2> HIDE DEF Is
  <2>2. \E t : Is(t, c)
    BY <1>1, <2>1
  <2> QED
    BY <2>2
<1>3. PopFold(b, q) = it[1..c]
  BY DEF PopFold, Physics!FoldLeft, Physics!MapThenFoldSet
<1> HIDE DEF it, T
<1>4. \A s \in SUBSET (1..c) : it[s] = IF s = {} THEN b ELSE Physics!Pop(q, it[s \ {Physics!Max(s)}])
  BY <1>2
<1> DEFINE f == [k \in 0..c |-> it[1..k]]
<1>5. f[0] = b
  <2>1. 1..0 \in SUBSET (1..c) /\ 1..0 = {} /\ 0 \in 0..c
    OBVIOUS
  <2> QED
    BY <1>4, <2>1
<1>6. ASSUME NEW k \in 1..c PROVE f[k] = Physics!Pop(q, f[k - 1])
  <2>1. k \in 0..c /\ k - 1 \in 0..c /\ 1..k \in SUBSET (1..c) /\ k \in 1..k /\ k \in Nat
    OBVIOUS
  <2>2. Physics!Max(1..k) = k
    BY <2>1, MaxIs
  <2>3. (1..k) \ {k} = 1..(k - 1)
    BY <2>1
  <2>4. it[1..k] = Physics!Pop(q, it[1..(k - 1)])
    BY <1>4, <2>1, <2>2, <2>3
  <2>5. f[k] = it[1..k] /\ f[k - 1] = it[1..(k - 1)]
    BY <2>1
  <2> QED
    BY <2>4, <2>5
<1>7. PopFold(b, q) = f[c]
  BY <1>3
<1> HIDE DEF f
<1>8. PopFoldRun(f, b, q, c)
  BY <1>5, <1>6, <1>7 DEF PopFoldRun
<1> QED
  BY <1>8

EvaluateFold(b, q) == Physics!FoldLeft(Physics!EvaluateOne, b, q)
EvaluateFoldRun(f, b, q, c) ==
    /\ f[0] = b
    /\ \A k \in 1..c : f[k] = Physics!EvaluateOne(f[k - 1], q[k])
    /\ EvaluateFold(b, q) = f[c]

(* The states a fold of EvaluateOne goes through. *)
LEMMA EvaluateFoldSteps ==
    ASSUME NEW b, NEW q, NEW c \in Nat, DOMAIN q = 1..c
    PROVE  \E f : EvaluateFoldRun(f, b, q, c)
<1> DEFINE Is(it, n) == it = [s \in SUBSET (1..n) |-> IF s = {} THEN b ELSE Physics!EvaluateOne(it[s \ {Physics!Max(s)}], q[Physics!Max(s)])]
           T == {n \in 0..c : ~ \E it : Is(it, n)}
<1>1. T = {}
  <2> SUFFICES ASSUME T # {} PROVE FALSE
    OBVIOUS
  <2>0. T \subseteq Nat
    OBVIOUS
  <2> HIDE DEF T
  <2>1. PICK n \in T : \A m \in T : n <= m
    BY <2>0, NatLeast
  <2>2. n \in 0..c /\ ~ \E it : Is(it, n)
    BY DEF T
  <2>3. n # 0
    <3> SUFFICES ASSUME n = 0 PROVE FALSE
      OBVIOUS
    <3>1. Is([s \in SUBSET (1..0) |-> b], 0)
      <4>1. \A s \in SUBSET (1..0) : s = {}
        OBVIOUS
      <4> QED
        BY <4>1
    <3> QED
      BY <2>2, <3>1
  <2>4. n - 1 \in Nat /\ n \in Nat /\ \E it : Is(it, n - 1)
    <3>1. n - 1 \in 0..c /\ ~(n <= n - 1) /\ n - 1 \in Nat /\ n \in Nat
      BY <2>2, <2>3
    <3>2. n - 1 \notin T
      BY <2>1, <3>1
    <3> HIDE DEF Is
    <3> QED
      BY <3>1, <3>2 DEF T
  <2>5. PICK g : Is(g, n - 1)
    BY <2>4
  <2> DEFINE h == [s \in SUBSET (1..n) |-> IF n \in s THEN Physics!EvaluateOne(g[s \ {n}], q[n]) ELSE g[s]]
  <2>6. \A s \in SUBSET (1..n) : n \notin s => s \in SUBSET (1..(n - 1))
    BY <2>4
  <2>7. \A s \in SUBSET (1..n) : h[s] = IF n \in s THEN Physics!EvaluateOne(g[s \ {n}], q[n]) ELSE g[s]
    OBVIOUS
  <2>8. \A s \in SUBSET (1..(n - 1)) : g[s] = IF s = {} THEN b ELSE Physics!EvaluateOne(g[s \ {Physics!Max(s)}], q[Physics!Max(s)])
    BY <2>5
  <2>9. h = [s \in SUBSET (1..n) |-> h[s]]
    OBVIOUS
  <2> HIDE DEF h
  <2>10. ASSUME NEW s \in SUBSET (1..n)
         PROVE  h[s] = IF s = {} THEN b ELSE Physics!EvaluateOne(h[s \ {Physics!Max(s)}], q[Physics!Max(s)])
    <3>1. s \ {Physics!Max(s)} \in SUBSET (1..n)
      OBVIOUS
    <3>2. CASE n \in s
      <4>1. Physics!Max(s) = n
        BY <2>4, <3>2, MaxIs
      <4>2. h[s \ {n}] = g[s \ {n}]
        BY <2>7, <3>1, <4>1
      <4> QED
        BY <2>7, <3>2, <4>1, <4>2
    <3>3. CASE n \notin s
      <4>1. h[s] = g[s] /\ h[s \ {Physics!Max(s)}] = g[s \ {Physics!Max(s)}]
        BY <2>7, <3>1, <3>3
      <4> QED
        BY <2>6, <2>8, <3>3, <4>1
    <3> QED
      BY <3>2, <3>3
  <2>11. Is(h, n)
    BY <2>9, <2>10
  <2> HIDE DEF Is
  <2> QED
    BY <2>2, <2>11
<1> DEFINE it == CHOOSE it : Is(it, c)
<1>2. Is(it, c)
  <2>1. c \in 0..c
    OBVIOUS
  <2> HIDE DEF Is
  <2>2. \E t : Is(t, c)
    BY <1>1, <2>1
  <2> QED
    BY <2>2
<1>3. EvaluateFold(b, q) = it[1..c]
  BY DEF EvaluateFold, Physics!FoldLeft, Physics!MapThenFoldSet
<1> HIDE DEF it, T
<1>4. \A s \in SUBSET (1..c) : it[s] = IF s = {} THEN b ELSE Physics!EvaluateOne(it[s \ {Physics!Max(s)}], q[Physics!Max(s)])
  BY <1>2
<1> DEFINE f == [k \in 0..c |-> it[1..k]]
<1>5. f[0] = b
  <2>1. 1..0 \in SUBSET (1..c) /\ 1..0 = {} /\ 0 \in 0..c
    OBVIOUS
  <2> QED
    BY <1>4, <2>1
<1>6. ASSUME NEW k \in 1..c PROVE f[k] = Physics!EvaluateOne(f[k - 1], q[k])
  <2>1. k \in 0..c /\ k - 1 \in 0..c /\ 1..k \in SUBSET (1..c) /\ k \in 1..k /\ k \in Nat
    OBVIOUS
  <2>2. Physics!Max(1..k) = k
    BY <2>1, MaxIs
  <2>3. (1..k) \ {k} = 1..(k - 1)
    BY <2>1
  <2>4. it[1..k] = Physics!EvaluateOne(it[1..(k - 1)], q[k])
    BY <1>4, <2>1, <2>2, <2>3
  <2>5. f[k] = it[1..k] /\ f[k - 1] = it[1..(k - 1)]
    BY <2>1
  <2> QED
    BY <2>4, <2>5
<1>7. EvaluateFold(b, q) = f[c]
  BY <1>3
<1> HIDE DEF f
<1>8. EvaluateFoldRun(f, b, q, c)
  BY <1>5, <1>6, <1>7 DEF EvaluateFoldRun
<1> QED
  BY <1>8

Members(q)  == {q[i] : i \in 1..Len(q)}
Distinct(q) == \A i, j \in 1..Len(q) : q[i] = q[j] => i = j

LEMMA Appended ==
    ASSUME NEW S, NEW q \in Seq(S), NEW a \in S, Distinct(q), a \notin Members(q)
    PROVE  /\ Append(q, a) \in Seq(S) /\ Len(Append(q, a)) = Len(q) + 1
           /\ Distinct(Append(q, a))
           /\ Members(Append(q, a)) = Members(q) \cup {a}
           /\ \A i \in 1..Len(q) : Append(q, a)[i] = q[i]
           /\ Append(q, a)[Len(q) + 1] = a
<1> DEFINE r == Append(q, a)
           n == Len(q)
<1>1. /\ n \in Nat /\ r \in Seq(S) /\ Len(r) = n + 1
      /\ \A i \in 1..n : r[i] = q[i]
      /\ r[n + 1] = a
  OBVIOUS
<1>2. \A i \in 1..(n + 1) : i \in 1..n \/ i = n + 1
  OBVIOUS
<1>3. \A i \in 1..n : q[i] # a /\ i \in 1..(n + 1) /\ i # n + 1
  BY <1>1 DEF Members
<1>4. \A i, j \in 1..n : q[i] = q[j] => i = j
  BY DEF Distinct
<1> HIDE DEF r
<1>5. \A i, j \in 1..(n + 1) : r[i] = r[j] => i = j
  BY <1>1, <1>2, <1>3, <1>4
<1>6. Members(r) = Members(q) \cup {a}
  <2>1. Members(r) \subseteq Members(q) \cup {a}
    BY <1>1, <1>2 DEF Members
  <2>2. n + 1 \in 1..Len(r)
    BY <1>1
  <2>3. a \in Members(r)
    BY <1>1, <2>2 DEF Members
  <2>4. Members(q) \subseteq Members(r)
    BY <1>1, <1>3 DEF Members
  <2> QED
    BY <2>1, <2>3, <2>4
<1>7. Distinct(r)
  BY <1>1, <1>5 DEF Distinct
<1> QED
  BY <1>1, <1>6, <1>7 DEF r

(* The head of a queue has gone and z has joined it. *)
LEMMA Requeued ==
    ASSUME NEW S, NEW q \in Seq(S), NEW z \in Seq(S), q # << >>, Distinct(q), Distinct(z),
           Members(q) \cap Members(z) = {}
    PROVE  /\ Tail(q) \o z \in Seq(S)
           /\ Distinct(Tail(q) \o z)
           /\ Members(Tail(q) \o z) = (Members(q) \ {q[1]}) \cup Members(z)
<1> DEFINE t == Tail(q)
           r == t \o z
           m == Len(q) - 1
           n == Len(z)
<1>1. m \in Nat /\ n \in Nat /\ t \in Seq(S) /\ Len(t) = m /\ Len(q) = m + 1
  OBVIOUS
<1>2. \A i \in 1..m : t[i] = q[i + 1]
  OBVIOUS
<1> HIDE DEF t
<1>3. r \in Seq(S) /\ Len(r) = m + n
  BY <1>1
<1>4. \A i \in 1..m : r[i] = t[i]
  BY <1>1
<1>5. \A i \in 1..n : r[m + i] = z[i]
  BY <1>1
<1>6. \A i \in 1..(m + n) : i \in 1..m \/ \E k \in 1..n : i = m + k
  <2> SUFFICES ASSUME NEW i \in 1..(m + n), i \notin 1..m PROVE \E k \in 1..n : i = m + k
    OBVIOUS
  <2>1. i - m \in 1..n /\ i = m + (i - m)
    BY <1>1
  <2> QED
    BY <2>1
<1> HIDE DEF r, m, n
<1>7. \A i \in 1..m : r[i] = q[i + 1] /\ i + 1 \in 1..Len(q) /\ i \in Nat /\ i + 1 # 1
  BY <1>1, <1>2, <1>4
<1>8. \A i, j \in 1..m : q[i + 1] = q[j + 1] => i = j
  <2> SUFFICES ASSUME NEW i \in 1..m, NEW j \in 1..m, q[i + 1] = q[j + 1] PROVE i = j
    OBVIOUS
  <2>1. i + 1 = j + 1
    BY <1>7 DEF Distinct
  <2> QED
    BY <1>7, <2>1
<1>9. \A i, j \in 1..n : z[i] = z[j] => i = j
  BY DEF Distinct, n
<1>10. \A i \in 1..m, j \in 1..n : q[i + 1] # z[j]
  <2> SUFFICES ASSUME NEW i \in 1..m, NEW j \in 1..n PROVE q[i + 1] # z[j]
    OBVIOUS
  <2>1. q[i + 1] \in Members(q)
    BY <1>7 DEF Members
  <2>2. z[j] \in Members(z)
    BY DEF Members, n
  <2> QED
    BY <2>1, <2>2
<1>11. ASSUME NEW i \in 1..(m + n), NEW j \in 1..(m + n), r[i] = r[j] PROVE i = j
  <2>1. CASE i \in 1..m /\ j \in 1..m
    BY <1>7, <1>8, <1>11, <2>1
  <2>2. CASE i \notin 1..m /\ j \notin 1..m
    <3>1. PICK k \in 1..n : i = m + k
      BY <1>6, <2>2
    <3>2. PICK l \in 1..n : j = m + l
      BY <1>6, <2>2
    <3>3. z[k] = z[l]
      BY <1>5, <1>11, <3>1, <3>2
    <3> QED
      BY <1>9, <3>1, <3>2, <3>3
  <2>3. CASE i \in 1..m /\ j \notin 1..m
    <3>1. PICK l \in 1..n : j = m + l
      BY <1>6, <2>3
    <3> QED
      BY <1>5, <1>7, <1>10, <1>11, <2>3, <3>1
  <2>4. CASE i \notin 1..m /\ j \in 1..m
    <3>1. PICK k \in 1..n : i = m + k
      BY <1>6, <2>4
    <3> QED
      BY <1>5, <1>7, <1>10, <1>11, <2>4, <3>1
  <2> QED
    BY <2>1, <2>2, <2>3, <2>4
<1>12. Distinct(r)
  BY <1>3, <1>11 DEF Distinct
<1>13. Members(r) = (Members(q) \ {q[1]}) \cup Members(z)
  <2>1. ASSUME NEW x \in Members(r) PROVE x \in (Members(q) \ {q[1]}) \cup Members(z)
    <3>1. PICK i \in 1..(m + n) : x = r[i]
      BY <1>3 DEF Members
    <3>2. CASE i \in 1..m
      <4>1. 1 \in 1..Len(q) /\ x = q[i + 1] /\ x \in Members(q)
        BY <1>1, <1>7, <3>1, <3>2 DEF Members
      <4>2. x # q[1]
        BY <1>7, <3>2, <4>1 DEF Distinct
      <4> QED
        BY <4>1, <4>2
    <3>3. CASE i \notin 1..m
      <4>1. PICK k \in 1..n : i = m + k
        BY <1>6, <3>3
      <4> QED
        BY <1>5, <3>1, <4>1 DEF Members, n
    <3> QED
      BY <3>2, <3>3
  <2>2. ASSUME NEW x \in Members(q), x # q[1] PROVE x \in Members(r)
    <3>1. PICK i \in 1..Len(q) : x = q[i]
      BY DEF Members
    <3>2. i # 1
      BY <2>2, <3>1
    <3>3. i - 1 \in 1..m /\ i = (i - 1) + 1 /\ i - 1 \in 1..(m + n)
      BY <1>1, <3>2
    <3>4. r[i - 1] = x
      BY <1>7, <3>1, <3>3
    <3> QED
      BY <1>3, <3>3, <3>4 DEF Members
  <2>3. ASSUME NEW x \in Members(z) PROVE x \in Members(r)
    <3>1. PICK i \in 1..n : x = z[i]
      BY DEF Members, n
    <3>2. m + i \in 1..(m + n)
      BY <1>1
    <3> QED
      BY <1>3, <1>5, <3>1, <3>2 DEF Members
  <2> QED
    BY <2>1, <2>2, <2>3
<1> QED
  BY <1>3, <1>12, <1>13 DEF r, t

(* Of n places, n that are distinct are all.                                 *)
LEMMA DistinctFill ==
    ASSUME NEW n \in Nat, NEW q \in Seq(1..n), Distinct(q)
    PROVE  Len(q) <= n /\ (Len(q) = n <=> Members(q) = 1..n)
<1>1. Len(q) \in Nat /\ q \in [1..Len(q) -> 1..n]
  OBVIOUS
<1>2. q \in Injection(1..Len(q), 1..n)
  BY <1>1 DEF Distinct, Injection, IsInjective
<1>0. \A m \in Nat : IsFiniteSet(1..m) /\ Cardinality(1..m) = m
  <2> SUFFICES ASSUME NEW m \in Nat PROVE IsFiniteSet(1..m) /\ Cardinality(1..m) = m
    OBVIOUS
  <2> QED
    BY FS_Interval
<1>3. /\ IsFiniteSet(1..n) /\ Cardinality(1..n) = n
      /\ Cardinality(1..Len(q)) = Len(q)
  BY <1>0, <1>1
<1>4. Len(q) <= n /\ (Len(q) = n <=> q \in Surjection(1..Len(q), 1..n))
  BY <1>2, <1>3, FS_Injection
<1>5. q \in Surjection(1..Len(q), 1..n) <=> Members(q) = 1..n
  <2>1. Members(q) \subseteq 1..n
    BY <1>1 DEF Members
  <2>2. q \in Surjection(1..Len(q), 1..n) <=> \A i \in 1..n : \E k \in 1..Len(q) : q[k] = i
    BY <1>1 DEF Surjection
  <2> QED
    BY <2>1, <2>2 DEF Members
<1> QED
  BY <1>4, <1>5

(* The formulas of a model, which are N.                                     *)
Formulas(cs, N) ==
    /\ N \in Nat /\ DOMAIN cs = 1..N /\ Len(cs) = N
    /\ \A n \in 1..N : IsFiniteSet(DOMAIN cs[n].uses)

By(cs, n, u) == Physics!Producer(cs, cs[n].uses[u])

LEMMA ProducerIs ==
    ASSUME NEW cs, NEW N, Formulas(cs, N), NEW s
    PROVE  LET p == Physics!Producer(cs, s)
           IN  /\ p \in 0..N
               /\ p # 0 => p \in 1..N /\ cs[p].produces = s
               /\ \A n \in 1..N : cs[n].produces = s => p # 0
<1> DEFINE all == {n \in DOMAIN cs : cs[n].produces = s}
           p == Physics!Producer(cs, s)
<1>1. N \in Nat /\ all \in SUBSET (1..N) /\ \A n \in all : cs[n].produces = s
  BY DEF Formulas
<1>2. \A n \in 1..N : cs[n].produces = s => n \in all
  BY DEF Formulas
<1>3. p = IF all = {} THEN 0 ELSE CHOOSE n \in all : \A m \in all : m <= n
  BY DEF Physics!Producer
<1> HIDE DEF all, p
<1>4. CASE all = {}
  BY <1>1, <1>2, <1>3, <1>4 DEF p
<1>5. CASE all # {}
  <2> DEFINE T == {N - n : n \in all}
  <2>1. T \subseteq Nat /\ T # {}
    <3>1. \A n \in all : n \in 1..N
      BY <1>1
    <3>2. \A n \in 1..N : N - n \in Nat
      BY <1>1
    <3>3. T \subseteq Nat
      BY <3>1, <3>2
    <3> QED
      BY <1>5, <3>3
  <2> HIDE DEF T
  <2>2. PICK t \in T : \A m \in T : t <= m
    BY <2>1, NatLeast
  <2>3. PICK n \in all : t = N - n
    BY <2>2 DEF T
  <2>4. \A m \in all : N - n <= N - m
    BY <2>2, <2>3 DEF T
  <2>5. \A m \in all : m <= n
    <3> SUFFICES ASSUME NEW m \in all PROVE m <= n
      OBVIOUS
    <3>1. m \in Nat /\ n \in Nat /\ N - n <= N - m /\ N \in Nat
      BY <1>1, <2>4
    <3> QED
      BY <3>1
  <2>6. p \in all
    BY <1>3, <1>5, <2>5
  <2>7. p \in 1..N /\ cs[p].produces = s /\ p # 0
    BY <1>1, <2>6
  <2>8. p \in 0..N
    BY <1>1, <2>7
  <2> QED
    BY <2>7, <2>8 DEF p
<1> QED
  BY <1>4, <1>5

(* The uses of n that wait for a formula outside O.                          *)
Waits(cs, n, O) == {u \in DOMAIN cs[n].uses : By(cs, n, u) \notin {0, n} \cup O}

LEMMA Awaited ==
    ASSUME NEW cs, NEW N, Formulas(cs, N), NEW O, NEW a \in DOMAIN cs, NEW n \in DOMAIN cs, a \notin O
    PROVE  /\ Cardinality(Waits(cs, n, O)) \in Nat
           /\ Cardinality(Waits(cs, n, O \cup {a}))
                 = Cardinality(Waits(cs, n, O)) - Physics!Cardinality(Physics!Awaits(cs, a, n))
           /\ Cardinality(Waits(cs, n, O)) = 0 <=> Waits(cs, n, O) = {}
<1> DEFINE W == Waits(cs, n, O)
           A == Physics!Awaits(cs, a, n)
           Z == Waits(cs, n, O \cup {a})
<1>1. IsFiniteSet(DOMAIN cs[n].uses) /\ a # 0
  BY DEF Formulas
<1>2. W \in SUBSET DOMAIN cs[n].uses
  BY DEF Waits
<1>3. A = {u \in DOMAIN cs[n].uses : a # n /\ By(cs, n, u) = a}
  BY DEF Physics!Awaits, By
<1>4. A \in SUBSET W
  BY <1>1, <1>3 DEF Waits
<1>5. Z = W \ A
  BY <1>1, <1>3 DEF Waits
<1> HIDE DEF W, A, Z
<1>6. IsFiniteSet(W)
  BY <1>1, <1>2, FS_Subset
<1>7. Cardinality(W \ A) = Cardinality(W) - Cardinality(W \cap A)
  BY <1>6, FS_Difference
<1>8. W \cap A = A
  BY <1>4
<1>9. Cardinality(W) \in Nat /\ (Cardinality(W) = 0 <=> W = {})
  BY <1>6, FS_CardinalityType, FS_EmptySet
<1>10. Physics!Cardinality(A) = Cardinality(A)
  BY SameCardinality
<1>11. Cardinality(Z) = Cardinality(W) - Physics!Cardinality(A)
  BY <1>5, <1>7, <1>8, <1>10
<1> QED
  BY <1>9, <1>11 DEF W, A, Z

(* Every use of a formula in the order is of one before it, or of nobody.    *)
Grounded(cs, order) ==
    \A j \in 1..Len(order) : \A u \in DOMAIN cs[order[j]].uses :
        \/ By(cs, order[j], u) \in {0, order[j]}
        \/ \E i \in 1..(j - 1) : By(cs, order[j], u) = order[i]

Counted(cs, r) ==
    \A n \in DOMAIN cs :
        /\ r.degree[n] = Cardinality(Waits(cs, n, Members(r.order)))
        /\ r.degree[n] = 0 <=> n \in Members(r.order) \cup Members(r.queue)

(* Where the search is when it has taken k times from the queue.             *)
Searched(cs, r, k) ==
    /\ r.order \in Seq(DOMAIN cs) /\ r.queue \in Seq(DOMAIN cs)
    /\ Distinct(r.order) /\ Distinct(r.queue) /\ Members(r.order) \cap Members(r.queue) = {}
    /\ Counted(cs, r)
    /\ Grounded(cs, r.order)
    /\ Len(r.order) <= k /\ (Len(r.order) = k \/ r.queue = << >>)

LEMMA MembersIn ==
    ASSUME NEW S, NEW q \in Seq(S)
    PROVE  /\ Members(q) \subseteq S
           /\ q # << >> => q[1] \in S /\ Head(q) = q[1] /\ q[1] \in Members(q)
<1>1. \A i \in 1..Len(q) : q[i] \in S
  OBVIOUS
<1>2. Members(q) \subseteq S
  BY <1>1 DEF Members
<1>3. ASSUME q # << >> PROVE q[1] \in S /\ Head(q) = q[1] /\ q[1] \in Members(q)
  <2>1. 1 \in 1..Len(q) /\ Head(q) = q[1]
    BY <1>3
  <2> QED
    BY <1>1, <2>1 DEF Members
<1> QED
  BY <1>2, <1>3

(* What a list of some places is, as a sequence.                             *)
LEMMA ListsMembers ==
    ASSUME NEW N \in Nat, NEW S \in SUBSET (1..N), NEW q, NEW c \in Nat, Lists(q, S, c)
    PROVE  q \in Seq(1..N) /\ Distinct(q) /\ Members(q) = S
<1>1. q \in [1..c -> S]
  BY DEF Lists
<1>2. q \in Seq(S) /\ Len(q) = c
  BY <1>1, SeqDef
<1>3. q \in Seq(1..N)
  <2>1. q \in [1..c -> 1..N]
    BY <1>1
  <2> QED
    BY <2>1, SeqDef
<1>4. Distinct(q)
  BY <1>2 DEF Lists, Distinct
<1>5. Members(q) = S
  <2>1. \A k \in 1..c : q[k] \in S
    BY <1>1
  <2>2. \A i \in S : \E k \in 1..c : q[k] = i
    BY DEF Lists
  <2> QED
    BY <1>2, <2>1, <2>2 DEF Members
<1> QED
  BY <1>3, <1>4, <1>5

LEMMA InOrderMembers ==
    ASSUME NEW cs, NEW N, Formulas(cs, N), NEW S \in SUBSET DOMAIN cs
    PROVE  /\ Physics!InOrder(S) \in Seq(DOMAIN cs) /\ Distinct(Physics!InOrder(S))
           /\ Members(Physics!InOrder(S)) = S
<1>0. N \in Nat /\ DOMAIN cs = 1..N
  BY DEF Formulas
<1>1. S \subseteq Nat /\ IsFiniteSet(S)
  <2>1. IsFiniteSet(1..N)
    BY <1>0, FS_Interval
  <2>2. S \subseteq Nat
    BY <1>0
  <2>3. IsFiniteSet(S)
    BY <1>0, <2>1, FS_Subset
  <2> QED
    BY <2>2, <2>3
<1> DEFINE q == Physics!InOrder(S)
           c == Cardinality(S)
<1>3. Lists(q, S, c) /\ c \in Nat
  BY <1>1, InOrderLists
<1> HIDE DEF q, c
<1>4. q \in Seq(1..N) /\ Distinct(q) /\ Members(q) = S
  BY <1>0, <1>3, ListsMembers
<1> QED
  BY <1>0, <1>4 DEF q

(* The start of the search. *)
LEMMA SearchStarts ==
    ASSUME NEW cs, NEW N, Formulas(cs, N), NEW r,
           r = [degree |-> [n \in DOMAIN cs |-> Physics!Degree(cs, n)], order |-> << >>,
                queue |-> Physics!InOrder({n \in DOMAIN cs : Physics!Degree(cs, n) = 0})]
    PROVE  Searched(cs, r, 0)
<1> DEFINE Z == {n \in DOMAIN cs : Physics!Degree(cs, n) = 0}
<1>2. r.order = << >> /\ r.queue = Physics!InOrder(Z) /\ r.degree = [n \in DOMAIN cs |-> Physics!Degree(cs, n)]
  OBVIOUS
<1>3. Z \in SUBSET DOMAIN cs
  OBVIOUS
<1>4. \A n \in DOMAIN cs : n \in Z <=> Physics!Degree(cs, n) = 0
  OBVIOUS
<1> HIDE DEF Z
<1>5. r.queue \in Seq(DOMAIN cs) /\ Distinct(r.queue) /\ Members(r.queue) = Z
  BY <1>2, <1>3, InOrderMembers
<1>6. Members(r.order) = {} /\ r.order \in Seq(DOMAIN cs) /\ Distinct(r.order) /\ Len(r.order) = 0
  BY <1>2 DEF Members, Distinct
<1>7. \A n \in DOMAIN cs : r.degree[n] = Cardinality(Waits(cs, n, {}))
  <2> SUFFICES ASSUME NEW n \in DOMAIN cs PROVE Physics!Degree(cs, n) = Cardinality(Waits(cs, n, {}))
    BY <1>2
  <2>1. Physics!Degree(cs, n) = Physics!Cardinality({u \in DOMAIN cs[n].uses : By(cs, n, u) \notin {0, n}})
    BY DEF Physics!Degree, By
  <2>2. Waits(cs, n, {}) = {u \in DOMAIN cs[n].uses : By(cs, n, u) \notin {0, n}}
    BY DEF Waits
  <2> QED
    BY <2>1, <2>2, SameCardinality
<1>8. \A n \in DOMAIN cs : r.degree[n] = 0 <=> n \in Members(r.order) \cup Members(r.queue)
  BY <1>2, <1>4, <1>5, <1>6
<1> QED
  <2>1. Counted(cs, r)
    BY <1>6, <1>7, <1>8 DEF Counted
  <2>2. Grounded(cs, r.order)
    BY <1>6 DEF Grounded
  <2>3. Len(r.order) <= 0 /\ Len(r.order) = 0
    BY <1>6
  <2> QED
    BY <1>5, <1>6, <2>1, <2>2, <2>3 DEF Searched

(* The formula at the head of the queue is put into the order.               *)
LEMMA SearchGoesOn ==
    ASSUME NEW cs, NEW N, Formulas(cs, N), NEW r, NEW k \in Nat, Searched(cs, r, k)
    PROVE  Searched(cs, Physics!Pop(cs, r), k + 1)
<1>1. CASE r.queue = << >>
  <2>1. Physics!Pop(cs, r) = r
    BY <1>1 DEF Physics!Pop
  <2>2. Len(r.order) <= k + 1
    <3>1. r.order \in Seq(DOMAIN cs) /\ Len(r.order) <= k
      BY DEF Searched
    <3> QED
      BY <3>1
  <2>3. Searched(cs, r, k + 1)
    BY <1>1, <2>2 DEF Searched
  <2> QED
    BY <2>1, <2>3
<1>2. CASE r.queue # << >>
  <2> DEFINE a == r.queue[1]
             O == Members(r.order)
             left == [n \in DOMAIN cs |-> Physics!Left(cs, r, a, n)]
             New == {n \in DOMAIN cs : r.degree[n] # 0 /\ left[n] = 0}
             s == Physics!Pop(cs, r)
  <2>1. /\ r.order \in Seq(DOMAIN cs) /\ r.queue \in Seq(DOMAIN cs)
        /\ Distinct(r.order) /\ Distinct(r.queue) /\ O \cap Members(r.queue) = {}
    BY DEF Searched
  <2>2. /\ \A n \in DOMAIN cs : r.degree[n] = Cardinality(Waits(cs, n, O))
        /\ \A n \in DOMAIN cs : r.degree[n] = 0 <=> n \in O \cup Members(r.queue)
        /\ Len(r.order) = k
    BY <1>2 DEF Searched, Counted
  <2>3. \A j \in 1..Len(r.order) : \A u \in DOMAIN cs[r.order[j]].uses :
           \/ By(cs, r.order[j], u) \in {0, r.order[j]}
           \/ \E i \in 1..(j - 1) : By(cs, r.order[j], u) = r.order[i]
    BY DEF Searched, Grounded
  <2>4. a \in DOMAIN cs /\ a \in Members(r.queue) /\ a \notin O /\ Head(r.queue) = a
    <3>1. a \in DOMAIN cs /\ Head(r.queue) = a /\ a \in Members(r.queue)
      BY <1>2, <2>1, MembersIn
    <3> QED
      BY <2>1, <3>1
  <2>5. s = [degree |-> left, order |-> Append(r.order, a), queue |-> Tail(r.queue) \o Physics!InOrder(New)]
    BY <1>2, <2>4 DEF Physics!Pop
  <2>6. \A n \in DOMAIN cs : left[n] = r.degree[n] - Physics!Cardinality(Physics!Awaits(cs, a, n))
    BY DEF Physics!Left
  <2>7. \A n \in DOMAIN cs : n \in New <=> r.degree[n] # 0 /\ left[n] = 0
    OBVIOUS
  <2>8. New \in SUBSET DOMAIN cs
    OBVIOUS
  <2> HIDE DEF a, O, left, New, s
  <2>9. \A n \in DOMAIN cs :
           /\ left[n] = Cardinality(Waits(cs, n, O \cup {a}))
           /\ Waits(cs, n, O) = {} => left[n] = 0
           /\ r.degree[n] = 0 => Waits(cs, n, O) = {}
    <3> SUFFICES ASSUME NEW n \in DOMAIN cs
                 PROVE  /\ left[n] = Cardinality(Waits(cs, n, O \cup {a}))
                        /\ Waits(cs, n, O) = {} => left[n] = 0
                        /\ r.degree[n] = 0 => Waits(cs, n, O) = {}
      OBVIOUS
    <3>1. /\ Cardinality(Waits(cs, n, O)) \in Nat
          /\ Cardinality(Waits(cs, n, O \cup {a}))
                = Cardinality(Waits(cs, n, O)) - Physics!Cardinality(Physics!Awaits(cs, a, n))
          /\ Cardinality(Waits(cs, n, O)) = 0 <=> Waits(cs, n, O) = {}
      BY <2>4, Awaited
    <3>2. left[n] = Cardinality(Waits(cs, n, O \cup {a}))
      BY <2>2, <2>6, <3>1
    <3>3. Waits(cs, n, O) = {} => Waits(cs, n, O \cup {a}) = {}
      BY DEF Waits
    <3>4. Waits(cs, n, O) = {} => left[n] = 0
      BY <3>2, <3>3, FS_EmptySet
    <3> QED
      BY <2>2, <3>1, <3>2, <3>4
  <2> DEFINE z == Physics!InOrder(New)
  <2>10. z \in Seq(DOMAIN cs) /\ Distinct(z) /\ Members(z) = New
    BY <2>8, InOrderMembers
  <2> HIDE DEF z
  <2>11. Members(r.queue) \cap New = {} /\ O \cap New = {} /\ Members(r.queue) \subseteq DOMAIN cs /\ O \subseteq DOMAIN cs
    <3>1. \A n \in New : n \notin O /\ n \notin Members(r.queue)
      BY <2>2, <2>7, <2>8
    <3>2. Members(r.queue) \subseteq DOMAIN cs
      BY <2>1, MembersIn
    <3>3. O \subseteq DOMAIN cs
      BY <2>1, MembersIn DEF O
    <3> QED
      BY <3>1, <3>2, <3>3
  <2>12. /\ s.order \in Seq(DOMAIN cs) /\ Len(s.order) = k + 1
         /\ Distinct(s.order)
         /\ Members(s.order) = O \cup {a}
         /\ \A i \in 1..k : s.order[i] = r.order[i]
         /\ s.order[k + 1] = a
    <3>1. s.order = Append(r.order, a)
      BY <2>5
    <3>2. a \notin Members(r.order)
      BY <2>4 DEF O
    <3> DEFINE q == r.order
    <3>3. /\ Append(q, a) \in Seq(DOMAIN cs) /\ Len(Append(q, a)) = Len(q) + 1
          /\ Distinct(Append(q, a))
          /\ Members(Append(q, a)) = Members(q) \cup {a}
          /\ \A i \in 1..Len(q) : Append(q, a)[i] = q[i]
          /\ Append(q, a)[Len(q) + 1] = a
      <4>1. q \in Seq(DOMAIN cs) /\ Distinct(q) /\ a \notin Members(q)
        BY <2>1, <3>2
      <4> HIDE DEF q
      <4> QED
        BY <2>4, <4>1, Appended
    <3> QED
      BY <2>2, <3>1, <3>3 DEF O
  <2>13. /\ s.queue \in Seq(DOMAIN cs)
         /\ Distinct(s.queue)
         /\ Members(s.queue) = (Members(r.queue) \ {a}) \cup New
    <3>1. s.queue = Tail(r.queue) \o z
      BY <2>5 DEF z
    <3> DEFINE q == r.queue
    <3>2. /\ q \in Seq(DOMAIN cs) /\ Distinct(q) /\ q # << >> /\ q[1] = a
          /\ Members(q) \cap Members(z) = {}
      BY <1>2, <2>1, <2>10, <2>11 DEF a
    <3>3. s.queue = Tail(q) \o z
      BY <3>1
    <3>4. Members(q) = Members(r.queue)
      OBVIOUS
    <3> HIDE DEF q
    <3>5. /\ Tail(q) \o z \in Seq(DOMAIN cs)
          /\ Distinct(Tail(q) \o z)
          /\ Members(Tail(q) \o z) = (Members(q) \ {a}) \cup Members(z)
      BY <2>10, <3>2, Requeued
    <3> QED
      BY <2>10, <3>3, <3>4, <3>5
  <2>14. Members(s.order) \cap Members(s.queue) = {}
    <3>1. Members(s.order) = O \cup {a} /\ Members(s.queue) = (Members(r.queue) \ {a}) \cup New
      BY <2>12, <2>13
    <3>2. a \notin New
      BY <2>4, <2>11
    <3> QED
      BY <2>1, <2>11, <3>1, <3>2
  <2>15. \A n \in DOMAIN cs : s.degree[n] = left[n]
    BY <2>5
  <2>16. \A n \in DOMAIN cs : s.degree[n] = 0 <=> n \in Members(s.order) \cup Members(s.queue)
    <3> SUFFICES ASSUME NEW n \in DOMAIN cs
                 PROVE  left[n] = 0 <=> n \in (O \cup {a}) \cup ((Members(r.queue) \ {a}) \cup New)
      BY <2>12, <2>13, <2>15
    <3>1. left[n] = 0 <=> r.degree[n] = 0 \/ n \in New
      BY <2>7, <2>9
    <3>2. r.degree[n] = 0 <=> n \in O \cup Members(r.queue)
      BY <2>2
    <3> QED
      BY <2>4, <3>1, <3>2
  <2>17. \A n \in DOMAIN cs : s.degree[n] = Cardinality(Waits(cs, n, Members(s.order)))
    BY <2>9, <2>12, <2>15
  <2>18. ASSUME NEW j \in 1..Len(s.order), NEW u \in DOMAIN cs[s.order[j]].uses
         PROVE  \/ By(cs, s.order[j], u) \in {0, s.order[j]}
                \/ \E i \in 1..(j - 1) : By(cs, s.order[j], u) = s.order[i]
    <3>1. CASE j = k + 1
      <4>1. s.order[j] = a
        BY <2>12, <3>1
      <4>2. Waits(cs, a, O) = {}
        BY <2>2, <2>4, <2>9
      <4>3. By(cs, a, u) \in {0, a} \cup O
        BY <2>18, <4>1, <4>2 DEF Waits
      <4>4. \A x \in O : \E i \in 1..(j - 1) : x = s.order[i]
        <5>1. j - 1 = k
          BY <3>1
        <5> QED
          BY <2>2, <2>12, <5>1 DEF O, Members
      <4> QED
        BY <4>1, <4>3, <4>4
    <3>2. CASE j # k + 1
      <4>1. j \in 1..k /\ \A i \in 1..(j - 1) : i \in 1..k
        BY <2>12, <3>2
      <4>2. s.order[j] = r.order[j] /\ \A i \in 1..(j - 1) : s.order[i] = r.order[i]
        BY <2>12, <4>1
      <4>3. \/ By(cs, r.order[j], u) \in {0, r.order[j]}
            \/ \E i \in 1..(j - 1) : By(cs, r.order[j], u) = r.order[i]
        BY <2>2, <2>3, <2>18, <4>1, <4>2
      <4> QED
        BY <4>2, <4>3
    <3> QED
      BY <3>1, <3>2
  <2>19. Len(s.order) <= k + 1
    BY <2>12
  <2>21. Counted(cs, s)
    BY <2>16, <2>17 DEF Counted
  <2>22. Grounded(cs, s.order)
    BY <2>18 DEF Grounded
  <2>20. Searched(cs, s, k + 1)
    BY <2>12, <2>13, <2>14, <2>19, <2>21, <2>22 DEF Searched
  <2> QED
    BY <2>20 DEF s
<1> QED
  BY <1>1, <1>2

(* An order of all formulas, each after those it waits for.                  *)
Orders(cs, t) ==
    /\ t \in Seq(DOMAIN cs) /\ Len(t) = Len(cs) /\ Distinct(t) /\ Members(t) = DOMAIN cs
    /\ Grounded(cs, t)

(* Some formulas, all outside O, that wait for each other.                   *)
Stuck(cs, O) ==
    /\ O \subseteq DOMAIN cs /\ O # DOMAIN cs
    /\ \A n \in DOMAIN cs \ O : Waits(cs, n, O) # {}

LEMMA OrderComes ==
    ASSUME NEW cs, NEW N, Formulas(cs, N)
    PROVE  LET t == Physics!TopologicalOrder(cs)
           IN  \/ t = Physics!Cyclic /\ \E O : Stuck(cs, O)
               \/ t # Physics!Cyclic /\ Orders(cs, t)
<1> DEFINE first == [degree |-> [n \in DOMAIN cs |-> Physics!Degree(cs, n)], order |-> << >>,
                     queue |-> Physics!InOrder({n \in DOMAIN cs : Physics!Degree(cs, n) = 0})]
           t == Physics!TopologicalOrder(cs)
<1>1. N \in Nat /\ DOMAIN cs = 1..N /\ Len(cs) = N
  BY DEF Formulas
<1>2. PICK f : PopFoldRun(f, first, cs, N)
  BY <1>1, PopFoldSteps
<1>3. /\ f[0] = first
      /\ \A k \in 1..N : f[k] = Physics!Pop(cs, f[k - 1])
      /\ PopFold(first, cs) = f[N]
  BY <1>2 DEF PopFoldRun
<1>4. t = IF Len(f[N].order) = Len(cs) THEN f[N].order ELSE Physics!Cyclic
  <2>1. t = IF Len(PopFold(first, cs).order) = Len(cs) THEN PopFold(first, cs).order ELSE Physics!Cyclic
    BY DEF Physics!TopologicalOrder, PopFold
  <2> HIDE DEF t, first
  <2> QED
    BY <1>3, <2>1
<1>5. Searched(cs, f[0], 0)
  BY <1>3, SearchStarts
<1> HIDE DEF first, t
<1>6. Searched(cs, f[N], N)
  <2> DEFINE T == {k \in 0..N : ~Searched(cs, f[k], k)}
  <2> SUFFICES ASSUME T # {} PROVE FALSE
    BY <1>1
  <2>1. T \subseteq Nat
    OBVIOUS
  <2>2. \A k \in T : k \in 0..N /\ ~Searched(cs, f[k], k)
    OBVIOUS
  <2>3. \A k \in 0..N : k \notin T => Searched(cs, f[k], k)
    OBVIOUS
  <2> HIDE DEF T
  <2>4. PICK k \in T : \A m \in T : k <= m
    BY <2>1, NatLeast
  <2>5. k \in 1..N
    BY <1>1, <1>5, <2>2, <2>4
  <2>6. k - 1 \in Nat /\ k - 1 \in 0..N /\ ~(k <= k - 1) /\ (k - 1) + 1 = k
    BY <1>1, <2>5
  <2>7. Searched(cs, f[k - 1], k - 1)
    BY <2>3, <2>4, <2>6
  <2>8. Searched(cs, Physics!Pop(cs, f[k - 1]), (k - 1) + 1)
    BY <2>6, <2>7, SearchGoesOn
  <2> QED
    BY <1>3, <2>2, <2>4, <2>5, <2>6, <2>8
<1> DEFINE o == f[N].order
           O == Members(o)
<1>7. /\ o \in Seq(DOMAIN cs) /\ Distinct(o) /\ Grounded(cs, o)
      /\ Len(o) = N \/ f[N].queue = << >>
  BY <1>6 DEF Searched
<1>8. O \subseteq DOMAIN cs
  BY <1>7, MembersIn
<1>9. Len(o) = N <=> O = DOMAIN cs
  <2> HIDE DEF o
  <2>1. o \in Seq(1..N) /\ Distinct(o)
    BY <1>1, <1>7
  <2> QED
    BY <1>1, <2>1, DistinctFill
<1>10. CASE Len(o) = N
  <2>1. t = o
    BY <1>1, <1>4, <1>10
  <2>2. o # Physics!Cyclic
    <3> SUFFICES ASSUME o = Physics!Cyclic PROVE FALSE
      OBVIOUS
    <3>1. 0 \in O
      BY DEF Members, Physics!Cyclic
    <3> QED
      BY <1>1, <1>8, <3>1
  <2> HIDE DEF o
  <2>3. Orders(cs, o)
    BY <1>1, <1>7, <1>9, <1>10 DEF Orders
  <2> QED
    BY <2>1, <2>2, <2>3 DEF t
<1>11. CASE Len(o) # N
  <2>1. t = Physics!Cyclic
    BY <1>1, <1>4, <1>11
  <2>2. \A n \in DOMAIN cs : n \notin O => Waits(cs, n, O) # {}
    <3> SUFFICES ASSUME NEW n \in DOMAIN cs, n \notin O PROVE Waits(cs, n, O) # {}
      OBVIOUS
    <3>1. f[N].queue = << >>
      BY <1>7, <1>11
    <3>2. Members(f[N].queue) = {}
      BY <3>1 DEF Members
    <3>3. Cardinality(Waits(cs, n, O)) # 0
      BY <1>6, <3>2 DEF Searched, Counted
    <3> QED
      BY <3>3, FS_EmptySet
  <2>3. Stuck(cs, O)
    BY <1>8, <1>9, <1>11, <2>2 DEF Stuck
  <2> QED
    BY <2>1, <2>3 DEF t
<1> QED
  BY <1>10, <1>11

None == Physics!NoSymbol
Reads(cs, n) == cs[n].formula.reads
Made(cs, t, k) == {cs[t[j]].produces : j \in 1..k} \ {None}

(* What is given or made when the first k formulas have been evaluated.      *)
Computed(cs, t, inputs, scope, outputs, k) ==
    /\ DOMAIN scope = DOMAIN inputs \cup Made(cs, t, k)
    /\ DOMAIN outputs = Made(cs, t, k)
    /\ \A s \in Made(cs, t, k) : outputs[s] = scope[s]
    /\ \A s \in DOMAIN inputs : s \notin Made(cs, t, k) => scope[s] = inputs[s]
    /\ \A j \in 1..k : /\ Physics!CanRead(cs[t[j]].formula, scope)
                       /\ cs[t[j]].produces # None =>
                             scope[cs[t[j]].produces] = Physics!Value(cs[t[j]].formula, scope)

(* The evaluation has gone k formulas far, or stopped at one that fails.     *)
Evaluated(cs, t, inputs, e, k) ==
    /\ e = [scope |-> e.scope, outputs |-> e.outputs, order |-> e.order, failed |-> e.failed]
    /\ e.order \in Seq({cs[n].id : n \in DOMAIN cs}) /\ e.failed \in BOOLEAN
    /\ ~e.failed => Computed(cs, t, inputs, e.scope, e.outputs, k)
    /\ e.failed => \E m \in 1..k : /\ Computed(cs, t, inputs, e.scope, e.outputs, m - 1)
                                   /\ ~Physics!CanRead(cs[t[m]].formula, e.scope)
                                   /\ Physics!Last(e.order) = cs[t[m]].id

SumOf(plus, f) == Physics!FoldFunction(+, plus, f)

(* A formula's value depends on what it reads only. *)
LEMMA ValueSame ==
    ASSUME NEW f, NEW a, NEW b, \A s \in f.reads : a[s] = b[s]
    PROVE  Physics!Value(f, a) = Physics!Value(f, b)
<1>1. Physics!Value(f, a) = SumOf(f.plus, [s \in f.reads |-> a[s]])
  BY DEF Physics!Value, SumOf
<1>2. Physics!Value(f, b) = SumOf(f.plus, [s \in f.reads |-> b[s]])
  BY DEF Physics!Value, SumOf
<1>3. [s \in f.reads |-> a[s]] = [s \in f.reads |-> b[s]]
  OBVIOUS
<1> QED
  BY <1>1, <1>2, <1>3

LEMMA DeclaredIs ==
    ASSUME NEW cs, Physics!Declared(cs)
    PROVE  /\ \A n \in DOMAIN cs : \A s \in Reads(cs, n) : \E u \in DOMAIN cs[n].uses : cs[n].uses[u] = s
           /\ \A n \in DOMAIN cs : \A u \in DOMAIN cs[n].uses : cs[n].uses[u] # cs[n].produces
           /\ \A m, n \in DOMAIN cs : m # n => cs[m].produces = None \/ cs[m].produces # cs[n].produces
<1>1. /\ \A c \in Physics!ToSet(cs) : /\ c.formula.reads \subseteq Physics!ToSet(c.uses)
                                      /\ c.produces \notin Physics!ToSet(c.uses)
      /\ \A m, n \in DOMAIN cs : m # n => cs[m].produces = None \/ cs[m].produces # cs[n].produces
  BY DEF Physics!Declared, None
<1>2. \A n \in DOMAIN cs : cs[n] \in Physics!ToSet(cs)
  BY DEF Physics!ToSet
<1>3. \A q, s : s \in Physics!ToSet(q) <=> \E u \in DOMAIN q : q[u] = s
  BY DEF Physics!ToSet
<1>4. \A n \in DOMAIN cs : Reads(cs, n) \subseteq Physics!ToSet(cs[n].uses) /\ cs[n].produces \notin Physics!ToSet(cs[n].uses)
  BY <1>1, <1>2 DEF Reads
<1> QED
  BY <1>1, <1>3, <1>4

(* What a formula reads is made before it, or by no formula.                 *)
LEMMA ReadsBefore ==
    ASSUME NEW cs, NEW N, Formulas(cs, N), Physics!Declared(cs), NEW t, Orders(cs, t),
           NEW j \in 1..N, NEW s \in Reads(cs, t[j]), NEW i \in 1..N, cs[t[i]].produces = s, s # None
    PROVE  i < j
<1>1. N \in Nat /\ DOMAIN cs = 1..N /\ Len(t) = N /\ t \in Seq(DOMAIN cs)
  BY DEF Formulas, Orders
<1>2. t[i] \in DOMAIN cs /\ t[j] \in DOMAIN cs
  BY <1>1
<1>3. PICK u \in DOMAIN cs[t[j]].uses : cs[t[j]].uses[u] = s
  BY <1>2, DeclaredIs
<1> DEFINE p == Physics!Producer(cs, s)
<1>4. p # 0 /\ p \in DOMAIN cs /\ cs[p].produces = s
  BY <1>1, <1>2, ProducerIs
<1>5. p = By(cs, t[j], u)
  BY <1>3 DEF By
<1> HIDE DEF p
<1>6. p = t[i]
  BY <1>2, <1>4, DeclaredIs
<1>7. p # t[j]
  BY <1>2, <1>3, <1>4, DeclaredIs
<1>8. \/ p \in {0, t[j]}
      \/ \E l \in 1..(j - 1) : p = t[l]
  BY <1>1, <1>5 DEF Orders, Grounded
<1>9. PICK l \in 1..(j - 1) : p = t[l]
  BY <1>4, <1>7, <1>8
<1>10. l \in 1..Len(t) /\ i \in 1..Len(t) /\ l < j
  BY <1>1
<1>11. l = i
  BY <1>6, <1>9, <1>10 DEF Orders, Distinct
<1> QED
  BY <1>10, <1>11

(* No other formula in the order makes what one makes.                       *)
LEMMA MadeOnce ==
    ASSUME NEW cs, NEW N, Formulas(cs, N), Physics!Declared(cs), NEW t, Orders(cs, t),
           NEW j \in 1..N, NEW i \in 1..N, cs[t[i]].produces = cs[t[j]].produces, cs[t[i]].produces # None
    PROVE  i = j
<1>1. N \in Nat /\ Len(t) = N /\ t \in Seq(DOMAIN cs)
  BY DEF Formulas, Orders
<1>2. t[i] \in DOMAIN cs /\ t[j] \in DOMAIN cs
  BY <1>1
<1>3. t[i] = t[j]
  BY <1>2, DeclaredIs
<1> QED
  BY <1>1, <1>3 DEF Orders, Distinct

LEMMA MadeNext ==
    ASSUME NEW cs, NEW t, NEW k \in Nat, k # 0
    PROVE  /\ Made(cs, t, k) = Made(cs, t, k - 1) \cup ({cs[t[k]].produces} \ {None})
           /\ \A j \in 1..k : j \in 1..(k - 1) \/ j = k
           /\ \A j \in 1..(k - 1) : j \in 1..k /\ j < k
<1>1. \A j \in 1..k : j \in 1..(k - 1) \/ j = k
  OBVIOUS
<1>2. \A j \in 1..(k - 1) : j \in 1..k /\ j < k
  OBVIOUS
<1>3. k \in 1..k
  OBVIOUS
<1>4. Made(cs, t, k) = Made(cs, t, k - 1) \cup ({cs[t[k]].produces} \ {None})
  BY <1>1, <1>2, <1>3 DEF Made
<1> QED
  BY <1>1, <1>2, <1>4

(* What a formula that can be read gives joins what was computed.            *)
LEMMA ComputedNext ==
    ASSUME NEW cs, NEW N, Formulas(cs, N), Physics!Declared(cs), NEW t, Orders(cs, t), NEW inputs,
           NEW scope, NEW outputs, NEW k \in 1..N, Computed(cs, t, inputs, scope, outputs, k - 1),
           Physics!CanRead(cs[t[k]].formula, scope), NEW x, x = cs[t[k]].produces, x # None,
           NEW v, v = Physics!Value(cs[t[k]].formula, scope)
    PROVE  Computed(cs, t, inputs, Physics!With(scope, x, v), Physics!With(outputs, x, v), k)
<1> DEFINE after == Physics!With(scope, x, v)
           supplied == Physics!With(outputs, x, v)
<1>0. N \in Nat /\ k \in Nat /\ k # 0
  BY DEF Formulas
<1>1. /\ Made(cs, t, k) = Made(cs, t, k - 1) \cup {x}
      /\ \A j \in 1..k : j \in 1..(k - 1) \/ j = k
      /\ \A j \in 1..(k - 1) : j \in 1..k /\ j < k /\ j \in 1..N /\ j \in Nat
  BY <1>0, MadeNext
<1>2. /\ DOMAIN after = DOMAIN scope \cup {x} /\ after[x] = v
      /\ \A y \in DOMAIN scope : y # x => after[y] = scope[y]
  BY DEF Physics!With
<1>3. /\ DOMAIN supplied = DOMAIN outputs \cup {x} /\ supplied[x] = v
      /\ \A y \in DOMAIN outputs : y # x => supplied[y] = outputs[y]
  BY DEF Physics!With
<1>4. /\ DOMAIN scope = DOMAIN inputs \cup Made(cs, t, k - 1)
      /\ DOMAIN outputs = Made(cs, t, k - 1)
      /\ \A s \in Made(cs, t, k - 1) : outputs[s] = scope[s]
      /\ \A s \in DOMAIN inputs : s \notin Made(cs, t, k - 1) => scope[s] = inputs[s]
  BY DEF Computed
<1>5. \A j \in 1..(k - 1) : /\ Physics!CanRead(cs[t[j]].formula, scope)
                            /\ cs[t[j]].produces # None =>
                                  scope[cs[t[j]].produces] = Physics!Value(cs[t[j]].formula, scope)
  BY DEF Computed
<1> HIDE DEF after, supplied
<1>6. ASSUME NEW j \in 1..k
      PROVE  /\ Physics!CanRead(cs[t[j]].formula, scope)
             /\ Physics!CanRead(cs[t[j]].formula, after)
             /\ Physics!Value(cs[t[j]].formula, after) = Physics!Value(cs[t[j]].formula, scope)
  <2>1. Physics!CanRead(cs[t[j]].formula, scope)
    BY <1>1, <1>5
  <2>2. ~cs[t[j]].formula.fails /\ Reads(cs, t[j]) \subseteq DOMAIN scope
    BY <2>1 DEF Physics!CanRead, Reads
  <2>3. Physics!CanRead(cs[t[j]].formula, after)
    BY <1>2, <2>2 DEF Physics!CanRead, Reads
  <2>4. j \in 1..N /\ ~(k < j)
    BY <1>0
  <2>5. x \notin Reads(cs, t[j])
    BY <2>4, ReadsBefore
  <2>6. \A s \in cs[t[j]].formula.reads : after[s] = scope[s]
    BY <1>2, <2>2, <2>5 DEF Reads
  <2>7. Physics!Value(cs[t[j]].formula, after) = Physics!Value(cs[t[j]].formula, scope)
    BY <2>6, ValueSame
  <2> QED
    BY <2>1, <2>3, <2>7
<1>7. ASSUME NEW j \in 1..k, cs[t[j]].produces # None
      PROVE  after[cs[t[j]].produces] = Physics!Value(cs[t[j]].formula, after)
  <2>1. CASE j = k
    BY <1>2, <1>6, <2>1
  <2>2. CASE j # k
    <3>1. j \in 1..(k - 1) /\ j \in 1..N
      BY <1>1, <2>2
    <3>2. cs[t[j]].produces # x
      BY <1>7, <2>2, <3>1, MadeOnce
    <3>3. cs[t[j]].produces \in Made(cs, t, k - 1)
      BY <1>7, <3>1 DEF Made
    <3>4. after[cs[t[j]].produces] = scope[cs[t[j]].produces]
      BY <1>2, <1>4, <3>2, <3>3
    <3> QED
      BY <1>5, <1>6, <1>7, <3>1, <3>4
  <2> QED
    BY <2>1, <2>2
<1>8. \A s \in Made(cs, t, k) : supplied[s] = after[s]
  BY <1>1, <1>2, <1>3, <1>4
<1>9. \A s \in DOMAIN inputs : s \notin Made(cs, t, k) => after[s] = inputs[s]
  BY <1>1, <1>2, <1>4
<1>10. Computed(cs, t, inputs, after, supplied, k)
  BY <1>1, <1>2, <1>3, <1>4, <1>6, <1>7, <1>8, <1>9 DEF Computed
<1> QED
  BY <1>10 DEF after, supplied

(* One that makes nothing leaves it. *)
LEMMA ComputedOn ==
    ASSUME NEW cs, NEW t, NEW inputs, NEW scope, NEW outputs, NEW k \in Nat, k # 0,
           Computed(cs, t, inputs, scope, outputs, k - 1),
           Physics!CanRead(cs[t[k]].formula, scope), cs[t[k]].produces = None
    PROVE  Computed(cs, t, inputs, scope, outputs, k)
<1>1. Made(cs, t, k) = Made(cs, t, k - 1) \cup ({cs[t[k]].produces} \ {None})
  BY MadeNext
<1>2. Made(cs, t, k) = Made(cs, t, k - 1)
  BY <1>1
<1>3. \A j \in 1..k : j \in 1..(k - 1) \/ j = k
  OBVIOUS
<1> QED
  BY <1>2, <1>3 DEF Computed

LEMMA EvaluationGoesOn ==
    ASSUME NEW cs, NEW N, Formulas(cs, N), Physics!Declared(cs), NEW t, Orders(cs, t), NEW inputs,
           NEW e, NEW k \in 1..N, Evaluated(cs, t, inputs, e, k - 1)
    PROVE  Evaluated(cs, t, inputs, Physics!EvaluateOne(e, cs[t[k]]), k)
<1> DEFINE c == cs[t[k]]
           d == Physics!EvaluateOne(e, c)
           Ids == {cs[n].id : n \in DOMAIN cs}
<1>0. N \in Nat /\ k \in Nat /\ k # 0 /\ k \in 1..k
  BY DEF Formulas
<1>1. e = [scope |-> e.scope, outputs |-> e.outputs, order |-> e.order, failed |-> e.failed]
  BY DEF Evaluated
<1>2. e.order \in Seq(Ids) /\ e.failed \in BOOLEAN
  BY DEF Evaluated
<1>3. c.id \in Ids
  <2>1. t[k] \in DOMAIN cs
    BY DEF Formulas, Orders
  <2> QED
    BY <2>1
<1> HIDE DEF Ids
<1> DEFINE o == Append(e.order, c.id)
<1>4. o \in Seq(Ids) /\ Physics!Last(o) = c.id
  <2> DEFINE q == e.order
  <2> HIDE DEF q
  <2>1. q \in Seq(Ids)
    BY <1>2 DEF q
  <2>2. Append(q, c.id) \in Seq(Ids) /\ Append(q, c.id)[Len(Append(q, c.id))] = c.id
    BY <1>3, <2>1
  <2> QED
    BY <2>2 DEF q, Physics!Last
<1> HIDE DEF o
<1>5. CASE e.failed
  <2>1. d = e
    BY <1>5 DEF Physics!EvaluateOne
  <2>2. PICK m \in 1..(k - 1) : /\ Computed(cs, t, inputs, e.scope, e.outputs, m - 1)
                                /\ ~Physics!CanRead(cs[t[m]].formula, e.scope)
                                /\ Physics!Last(e.order) = cs[t[m]].id
    BY <1>5 DEF Evaluated
  <2>3. m \in 1..k
    BY <1>0
  <2>4. Evaluated(cs, t, inputs, e, k)
    BY <1>1, <1>2, <1>5, <2>2, <2>3 DEF Evaluated, Ids
  <2> QED
    BY <2>1, <2>4
<1>6. CASE ~e.failed /\ ~Physics!CanRead(c.formula, e.scope)
  <2>1. d = [e EXCEPT !.failed = TRUE, !.order = o]
    BY <1>6 DEF Physics!EvaluateOne, o
  <2>2. d = [scope |-> e.scope, outputs |-> e.outputs, order |-> o, failed |-> TRUE]
    BY <1>1, <2>1
  <2>3. Computed(cs, t, inputs, e.scope, e.outputs, k - 1)
    BY <1>6 DEF Evaluated
  <2> HIDE DEF d
  <2>4. d.scope = e.scope /\ d.outputs = e.outputs /\ d.order = o /\ d.failed = TRUE
    BY <2>2
  <2>5. Evaluated(cs, t, inputs, d, k)
    BY <1>0, <1>4, <1>6, <2>2, <2>3, <2>4 DEF Evaluated, Ids
  <2> QED
    BY <2>5 DEF d
<1>7. CASE ~e.failed /\ Physics!CanRead(c.formula, e.scope) /\ c.produces = None
  <2>1. d = [e EXCEPT !.order = o]
    BY <1>7 DEF Physics!EvaluateOne, o, None
  <2>2. d = [scope |-> e.scope, outputs |-> e.outputs, order |-> o, failed |-> e.failed]
    BY <1>1, <2>1
  <2>3. Computed(cs, t, inputs, e.scope, e.outputs, k)
    <3>1. Computed(cs, t, inputs, e.scope, e.outputs, k - 1)
      BY <1>7 DEF Evaluated
    <3> QED
      BY <1>0, <1>7, <3>1, ComputedOn
  <2> HIDE DEF d
  <2>4. d.scope = e.scope /\ d.outputs = e.outputs /\ d.order = o /\ d.failed = e.failed
    BY <2>2
  <2>5. Evaluated(cs, t, inputs, d, k)
    BY <1>2, <1>4, <1>7, <2>2, <2>3, <2>4 DEF Evaluated, Ids
  <2> QED
    BY <2>5 DEF d
<1>8. CASE ~e.failed /\ Physics!CanRead(c.formula, e.scope) /\ c.produces # None
  <2> DEFINE v == Physics!Value(c.formula, e.scope)
             scope == Physics!With(e.scope, c.produces, v)
             outputs == Physics!With(e.outputs, c.produces, v)
  <2>1. d = [e EXCEPT !.order = o, !.scope = scope, !.outputs = outputs]
    BY <1>8 DEF Physics!EvaluateOne, o, None
  <2>2. Computed(cs, t, inputs, scope, outputs, k)
    <3>1. Computed(cs, t, inputs, e.scope, e.outputs, k - 1)
      BY <1>8 DEF Evaluated
    <3> QED
      BY <1>8, <3>1, ComputedNext
  <2> HIDE DEF scope, outputs
  <2>3. d = [scope |-> scope, outputs |-> outputs, order |-> o, failed |-> e.failed]
    BY <1>1, <2>1
  <2> HIDE DEF d
  <2>4. d.scope = scope /\ d.outputs = outputs /\ d.order = o /\ d.failed = e.failed
    BY <2>3
  <2>5. Evaluated(cs, t, inputs, d, k)
    BY <1>2, <1>4, <1>8, <2>2, <2>3, <2>4 DEF Evaluated, Ids
  <2> QED
    BY <2>5 DEF d
<1> QED
  BY <1>2, <1>5, <1>6, <1>7, <1>8

IsKnown(cs, t, N, inputs, outputs, known) ==
    known = [s \in (DOMAIN inputs \ Made(cs, t, N)) \cup DOMAIN outputs |->
                IF s \in DOMAIN outputs THEN outputs[s] ELSE inputs[s]]

(* What is known when k formulas have been computed: no formula after them   *)
(* makes what they read.                                                     *)
LEMMA KnownIs ==
    ASSUME NEW cs, NEW N, Formulas(cs, N), Physics!Declared(cs), NEW t, Orders(cs, t), NEW inputs,
           NEW scope, NEW outputs, NEW k \in 0..N, Computed(cs, t, inputs, scope, outputs, k),
           NEW known, IsKnown(cs, t, N, inputs, outputs, known),
           NEW j \in 1..k
    PROVE  /\ Physics!CanRead(cs[t[j]].formula, known)
           /\ cs[t[j]].produces # None =>
                 outputs[cs[t[j]].produces] = Physics!Value(cs[t[j]].formula, known)
<1>0. N \in Nat /\ k \in Nat /\ j \in 1..N /\ j \in Nat
  BY DEF Formulas
<1>1. /\ DOMAIN scope = DOMAIN inputs \cup Made(cs, t, k)
      /\ DOMAIN outputs = Made(cs, t, k)
      /\ \A s \in Made(cs, t, k) : outputs[s] = scope[s]
      /\ \A s \in DOMAIN inputs : s \notin Made(cs, t, k) => scope[s] = inputs[s]
  BY DEF Computed
<1>2. /\ Physics!CanRead(cs[t[j]].formula, scope)
      /\ cs[t[j]].produces # None => scope[cs[t[j]].produces] = Physics!Value(cs[t[j]].formula, scope)
  BY DEF Computed
<1>3. ASSUME NEW s \in Reads(cs, t[j]), s \in Made(cs, t, N) PROVE s \in Made(cs, t, k)
  <2>1. PICK i \in 1..N : cs[t[i]].produces = s /\ s # None
    BY <1>3 DEF Made
  <2>2. i < j
    BY <1>0, <2>1, ReadsBefore
  <2>3. i \in 1..k
    BY <1>0, <2>2
  <2> QED
    BY <2>1, <2>3 DEF Made
<1>4. ~cs[t[j]].formula.fails /\ Reads(cs, t[j]) \subseteq DOMAIN scope
  BY <1>2 DEF Physics!CanRead, Reads
<1>5. \A s \in Reads(cs, t[j]) : s \in DOMAIN known /\ known[s] = scope[s]
  <2> SUFFICES ASSUME NEW s \in Reads(cs, t[j]) PROVE s \in DOMAIN known /\ known[s] = scope[s]
    OBVIOUS
  <2>0. /\ DOMAIN known = (DOMAIN inputs \ Made(cs, t, N)) \cup DOMAIN outputs
        /\ \A y \in DOMAIN known : known[y] = IF y \in DOMAIN outputs THEN outputs[y] ELSE inputs[y]
    BY DEF IsKnown
  <2>1. CASE s \in Made(cs, t, k)
    BY <1>1, <2>0, <2>1
  <2>2. CASE s \notin Made(cs, t, k)
    <3>1. s \in DOMAIN inputs /\ s \notin Made(cs, t, N)
      BY <1>1, <1>3, <1>4, <2>2
    <3> QED
      BY <1>1, <2>0, <2>2, <3>1
  <2> QED
    BY <2>1, <2>2
<1>6. Physics!CanRead(cs[t[j]].formula, known)
  BY <1>4, <1>5 DEF Physics!CanRead, Reads
<1>7. Physics!Value(cs[t[j]].formula, known) = Physics!Value(cs[t[j]].formula, scope)
  BY <1>5, ValueSame DEF Reads
<1>8. cs[t[j]].produces # None => cs[t[j]].produces \in Made(cs, t, k)
  BY DEF Made
<1> QED
  BY <1>1, <1>2, <1>6, <1>7, <1>8

(* One that can not be read fails, or reads what nobody gives or makes.      *)
LEMMA Unreadable ==
    ASSUME NEW cs, NEW N, Formulas(cs, N), Physics!Declared(cs), NEW t, Orders(cs, t), NEW inputs,
           NEW scope, NEW outputs, NEW m \in 1..N, Computed(cs, t, inputs, scope, outputs, m - 1),
           ~Physics!CanRead(cs[t[m]].formula, scope)
    PROVE  \/ cs[t[m]].formula.fails
           \/ ~(cs[t[m]].formula.reads \subseteq DOMAIN inputs \cup Made(cs, t, N))
<1>1. DOMAIN scope = DOMAIN inputs \cup Made(cs, t, m - 1)
  BY DEF Computed
<1> SUFFICES ASSUME ~cs[t[m]].formula.fails
             PROVE  \E s \in Reads(cs, t[m]) : s \notin DOMAIN inputs \cup Made(cs, t, N)
  BY DEF Reads
<1>2. PICK s \in Reads(cs, t[m]) : s \notin DOMAIN scope
  BY DEF Physics!CanRead, Reads
<1>3. s \notin Made(cs, t, N)
  <2> SUFFICES ASSUME s \in Made(cs, t, N) PROVE FALSE
    OBVIOUS
  <2>1. PICK i \in 1..N : cs[t[i]].produces = s /\ s # None
    BY DEF Made
  <2>2. i < m
    BY <2>1, ReadsBefore
  <2>3. i \in 1..(m - 1)
    BY <2>2 DEF Formulas
  <2>4. s \in Made(cs, t, m - 1)
    BY <2>1, <2>3 DEF Made
  <2> QED
    BY <1>1, <1>2, <2>4
<1> QED
  BY <1>1, <1>2, <1>3

(* The formulas in the order are all of them.                                *)
LEMMA AllMade ==
    ASSUME NEW cs, NEW N, Formulas(cs, N), NEW t, Orders(cs, t)
    PROVE  /\ \A c \in Physics!ToSet(cs) : \E j \in 1..N : c = cs[t[j]]
           /\ \A j \in 1..N : cs[t[j]] \in Physics!ToSet(cs)
           /\ Made(cs, t, N) = {c.produces : c \in Physics!ToSet(cs)} \ {None}
<1>1. \A n \in DOMAIN cs : \E j \in 1..N : t[j] = n
  BY DEF Formulas, Orders, Members
<1>2. \A j \in 1..N : t[j] \in DOMAIN cs
  BY DEF Formulas, Orders
<1>3. Physics!ToSet(cs) = {cs[n] : n \in DOMAIN cs}
  BY DEF Physics!ToSet
<1>4. \A c \in Physics!ToSet(cs) : \E j \in 1..N : c = cs[t[j]]
  BY <1>1, <1>3
<1>5. \A j \in 1..N : cs[t[j]] \in Physics!ToSet(cs)
  BY <1>2, <1>3
<1> QED
  BY <1>4, <1>5 DEF Made

LEMMA EvaluationEnds ==
    ASSUME NEW cs, NEW N, Formulas(cs, N), Physics!Declared(cs), NEW t, Orders(cs, t), NEW inputs
    PROVE  Evaluated(cs, t, inputs,
                     EvaluateFold([scope |-> inputs, outputs |-> << >>, order |-> << >>, failed |-> FALSE],
                                  [n \in DOMAIN t |-> cs[t[n]]]), N)
<1> DEFINE first == [scope |-> inputs, outputs |-> << >>, order |-> << >>, failed |-> FALSE]
           q == [n \in DOMAIN t |-> cs[t[n]]]
<1>1. N \in Nat /\ DOMAIN t = 1..N
  BY DEF Formulas, Orders
<1>2. DOMAIN q = 1..N /\ \A k \in 1..N : q[k] = cs[t[k]]
  BY <1>1
<1>3. /\ first.scope = inputs /\ first.outputs = << >> /\ first.order = << >> /\ first.failed = FALSE
      /\ first = [scope |-> first.scope, outputs |-> first.outputs, order |-> first.order,
                  failed |-> first.failed]
  OBVIOUS
<1> HIDE DEF q, first
<1>4. PICK f : EvaluateFoldRun(f, first, q, N)
  BY <1>1, <1>2, EvaluateFoldSteps
<1>5. /\ f[0] = first
      /\ \A k \in 1..N : f[k] = Physics!EvaluateOne(f[k - 1], cs[t[k]])
      /\ EvaluateFold(first, q) = f[N]
  BY <1>2, <1>4 DEF EvaluateFoldRun
<1>6. Evaluated(cs, t, inputs, first, 0)
  <2>1. Made(cs, t, 0) = {}
    BY DEF Made
  <2>2. DOMAIN first.outputs = {}
    BY <1>3
  <2>3. Computed(cs, t, inputs, first.scope, first.outputs, 0)
    <3>1. \A j \in 1..0 : FALSE
      OBVIOUS
    <3>2. DOMAIN first.scope = DOMAIN inputs \cup Made(cs, t, 0)
      BY <1>3, <2>1
    <3>3. \A s \in DOMAIN inputs : first.scope[s] = inputs[s]
      BY <1>3
    <3> QED
      BY <2>1, <2>2, <3>1, <3>2, <3>3 DEF Computed
  <2>4. first.order \in Seq({cs[n].id : n \in DOMAIN cs})
    BY <1>3
  <2> QED
    BY <1>3, <2>3, <2>4 DEF Evaluated
<1>7. Evaluated(cs, t, inputs, f[N], N)
  <2> DEFINE T == {k \in 0..N : ~Evaluated(cs, t, inputs, f[k], k)}
  <2> SUFFICES ASSUME T # {} PROVE FALSE
    BY <1>1
  <2>1. T \subseteq Nat
    OBVIOUS
  <2>2. \A k \in T : k \in 0..N /\ ~Evaluated(cs, t, inputs, f[k], k)
    OBVIOUS
  <2>3. \A k \in 0..N : k \notin T => Evaluated(cs, t, inputs, f[k], k)
    OBVIOUS
  <2> HIDE DEF T
  <2>4. PICK k \in T : \A m \in T : k <= m
    BY <2>1, NatLeast
  <2>5. k \in 1..N
    BY <1>1, <1>5, <1>6, <2>2, <2>4
  <2>6. k - 1 \in 0..N /\ ~(k <= k - 1)
    BY <1>1, <2>5
  <2>7. Evaluated(cs, t, inputs, f[k - 1], k - 1)
    BY <2>3, <2>4, <2>6
  <2>8. Evaluated(cs, t, inputs, Physics!EvaluateOne(f[k - 1], cs[t[k]]), k)
    BY <2>5, <2>7, EvaluationGoesOn
  <2> QED
    BY <1>5, <2>2, <2>4, <2>5, <2>8
<1> QED
  BY <1>5, <1>7 DEF first, q

(* ComputesTheSolution, where the model is not refused.                      *)
Solves(cs, inputs, r, produced, known) ==
    /\ DOMAIN r.outputs \subseteq produced
    /\ \A c \in Physics!ToSet(cs) : c.produces \in DOMAIN r.outputs =>
           Physics!CanRead(c.formula, known) /\ r.outputs[c.produces] = Physics!Value(c.formula, known)
    /\ IF r.failed
       THEN \E c \in Physics!ToSet(cs) : /\ c.id = Physics!Last(r.order)
                                         /\ \/ c.formula.fails
                                            \/ ~(c.formula.reads \subseteq DOMAIN inputs \cup produced)
       ELSE DOMAIN r.outputs = produced

LEMMA SolutionIs ==
    ASSUME NEW cs, NEW inputs
    PROVE  LET r        == Physics!EvaluateModel(cs, inputs)
               produced == {c.produces : c \in Physics!ToSet(cs)} \ {None}
               known    == [s \in (DOMAIN inputs \ produced) \cup DOMAIN r.outputs |->
                               IF s \in DOMAIN r.outputs THEN r.outputs[s] ELSE inputs[s]]
           IN  (Physics!Declared(cs) =>
                   IF r = Physics!Refused
                   THEN \E S \in (SUBSET Physics!ToSet(cs)) \ {{}} :
                           \A c \in S : \E d \in S : d.produces \in Physics!ToSet(c.uses)
                   ELSE Solves(cs, inputs, r, produced, known))
               => Physics!ComputesTheSolution(cs, inputs)
  BY DEF Physics!ComputesTheSolution, Solves, None

(* A formula computed before the k-th is one of the model's, with its value. *)
LEMMA SolvesSoFar ==
    ASSUME NEW cs, NEW N, Formulas(cs, N), Physics!Declared(cs), NEW t, Orders(cs, t), NEW inputs,
           NEW scope, NEW outputs, NEW k \in 0..N, Computed(cs, t, inputs, scope, outputs, k),
           NEW known, IsKnown(cs, t, N, inputs, outputs, known)
    PROVE  /\ DOMAIN outputs \subseteq Made(cs, t, N)
           /\ \A c \in Physics!ToSet(cs) : c.produces \in DOMAIN outputs =>
                 Physics!CanRead(c.formula, known) /\ outputs[c.produces] = Physics!Value(c.formula, known)
<1>0. N \in Nat /\ k \in Nat
  BY DEF Formulas
<1>1. DOMAIN outputs = Made(cs, t, k)
  BY DEF Computed
<1>2. \A j \in 1..k : j \in 1..N
  BY <1>0
<1>3. Made(cs, t, k) \subseteq Made(cs, t, N)
  BY <1>2 DEF Made
<1>4. ASSUME NEW c \in Physics!ToSet(cs), c.produces \in DOMAIN outputs
      PROVE  Physics!CanRead(c.formula, known) /\ outputs[c.produces] = Physics!Value(c.formula, known)
  <2>1. PICK i \in 1..N : c = cs[t[i]]
    BY AllMade
  <2>2. PICK j \in 1..k : cs[t[j]].produces = c.produces /\ c.produces # None
    BY <1>1, <1>4 DEF Made
  <2>3. i = j
    BY <1>2, <2>1, <2>2, MadeOnce
  <2>4. /\ Physics!CanRead(cs[t[j]].formula, known)
        /\ cs[t[j]].produces # None =>
              outputs[cs[t[j]].produces] = Physics!Value(cs[t[j]].formula, known)
    BY KnownIs
  <2> QED
    BY <2>1, <2>2, <2>3, <2>4
<1> QED
  BY <1>1, <1>3, <1>4

LEMMA ModelsSolved ==
    ASSUME NEW cs, NEW N, Formulas(cs, N), NEW inputs
    PROVE  Physics!ComputesTheSolution(cs, inputs)
<1> DEFINE r == Physics!EvaluateModel(cs, inputs)
           produced == {c.produces : c \in Physics!ToSet(cs)} \ {None}
           known == [s \in (DOMAIN inputs \ produced) \cup DOMAIN r.outputs |->
                        IF s \in DOMAIN r.outputs THEN r.outputs[s] ELSE inputs[s]]
           t == Physics!TopologicalOrder(cs)
           first == [scope |-> inputs, outputs |-> << >>, order |-> << >>, failed |-> FALSE]
           e == EvaluateFold(first, [n \in DOMAIN t |-> cs[t[n]]])
<1> SUFFICES ASSUME Physics!Declared(cs)
             PROVE  IF r = Physics!Refused
                    THEN \E S \in (SUBSET Physics!ToSet(cs)) \ {{}} :
                            \A c \in S : \E d \in S : d.produces \in Physics!ToSet(c.uses)
                    ELSE Solves(cs, inputs, r, produced, known)
  BY SolutionIs
<1>1. r = IF t = Physics!Cyclic THEN Physics!Refused ELSE e
  BY DEF Physics!EvaluateModel, EvaluateFold
<1>2. \/ t = Physics!Cyclic /\ \E O : Stuck(cs, O)
      \/ t # Physics!Cyclic /\ Orders(cs, t)
  BY OrderComes
<1>3. Orders(cs, t) => Evaluated(cs, t, inputs, e, N)
  BY EvaluationEnds
<1> HIDE DEF t, e, first
<1>4. CASE t = Physics!Cyclic /\ \E O : Stuck(cs, O)
  <2>1. PICK O : Stuck(cs, O)
    BY <1>4
  <2> DEFINE S == {cs[n] : n \in DOMAIN cs \ O}
  <2>2. S \in (SUBSET Physics!ToSet(cs)) \ {{}}
    <3>1. S \subseteq Physics!ToSet(cs)
      BY DEF Physics!ToSet
    <3>2. S # {}
      BY <2>1 DEF Stuck
    <3> QED
      BY <3>1, <3>2
  <2>3. ASSUME NEW c \in S PROVE \E d \in S : d.produces \in Physics!ToSet(c.uses)
    <3>1. PICK n \in DOMAIN cs \ O : c = cs[n]
      OBVIOUS
    <3>2. PICK u \in DOMAIN cs[n].uses : By(cs, n, u) \notin {0, n} \cup O
      BY <2>1 DEF Stuck, Waits
    <3> DEFINE p == By(cs, n, u)
    <3>3. p \in DOMAIN cs /\ cs[p].produces = cs[n].uses[u]
      BY <3>2, ProducerIs DEF By, Formulas
    <3>4. cs[p] \in S
      BY <3>2, <3>3
    <3>5. cs[n].uses[u] \in Physics!ToSet(cs[n].uses)
      BY DEF Physics!ToSet
    <3> QED
      BY <3>1, <3>3, <3>4, <3>5
  <2>4. r = Physics!Refused
    BY <1>1, <1>4
  <2> HIDE DEF S, r, known, produced
  <2> QED
    BY <2>2, <2>3, <2>4
<1>5. CASE t # Physics!Cyclic /\ Orders(cs, t)
  <2>1. r = e /\ Evaluated(cs, t, inputs, r, N)
    BY <1>1, <1>3, <1>5
  <2>2. Orders(cs, t)
    BY <1>5
  <2>3. r # Physics!Refused
    <3>1. r = [scope |-> r.scope, outputs |-> r.outputs, order |-> r.order, failed |-> r.failed]
      BY <2>1 DEF Evaluated
    <3>2. DOMAIN r = {"scope", "outputs", "order", "failed"}
      BY <3>1
    <3>3. DOMAIN Physics!Refused = {"refused"}
      BY DEF Physics!Refused
    <3> HIDE DEF r
    <3> QED
      BY <3>2, <3>3
  <2>4. produced = Made(cs, t, N)
    BY <2>2, AllMade
  <2> HIDE DEF r, produced
  <2>5. IsKnown(cs, t, N, inputs, r.outputs, known)
    BY <2>4 DEF IsKnown
  <2> HIDE DEF known
  <2>6. N \in Nat
    BY DEF Formulas
  <2>7. CASE r.failed
    <3>1. PICK m \in 1..N : /\ Computed(cs, t, inputs, r.scope, r.outputs, m - 1)
                            /\ ~Physics!CanRead(cs[t[m]].formula, r.scope)
                            /\ Physics!Last(r.order) = cs[t[m]].id
      BY <2>1, <2>7 DEF Evaluated
    <3>2. m - 1 \in 0..N
      BY <2>6
    <3>3. /\ DOMAIN r.outputs \subseteq Made(cs, t, N)
          /\ \A c \in Physics!ToSet(cs) : c.produces \in DOMAIN r.outputs =>
                Physics!CanRead(c.formula, known) /\ r.outputs[c.produces] = Physics!Value(c.formula, known)
      BY <2>2, <2>5, <3>1, <3>2, SolvesSoFar
    <3>4. \/ cs[t[m]].formula.fails
          \/ ~(cs[t[m]].formula.reads \subseteq DOMAIN inputs \cup Made(cs, t, N))
      BY <2>2, <3>1, Unreadable
    <3>5. cs[t[m]] \in Physics!ToSet(cs)
      BY <2>2, AllMade
    <3>6. Solves(cs, inputs, r, produced, known)
      BY <2>4, <2>7, <3>1, <3>3, <3>4, <3>5 DEF Solves
    <3> QED
      BY <2>3, <3>6
  <2>8. CASE ~r.failed
    <3>1. Computed(cs, t, inputs, r.scope, r.outputs, N)
      BY <2>1, <2>8 DEF Evaluated
    <3>2. N \in 0..N
      BY <2>6
    <3>3. /\ DOMAIN r.outputs \subseteq Made(cs, t, N)
          /\ \A c \in Physics!ToSet(cs) : c.produces \in DOMAIN r.outputs =>
                Physics!CanRead(c.formula, known) /\ r.outputs[c.produces] = Physics!Value(c.formula, known)
      BY <2>2, <2>5, <3>1, <3>2, SolvesSoFar
    <3>4. DOMAIN r.outputs = Made(cs, t, N)
      BY <3>1 DEF Computed
    <3>6. Solves(cs, inputs, r, produced, known)
      BY <2>4, <2>8, <3>3, <3>4 DEF Solves
    <3> QED
      BY <2>3, <3>6
  <2> QED
    BY <2>7, <2>8
<1> QED
  BY <1>2, <1>4, <1>5

(* The items of a sequence at some places are as many as those places.       *)
LEMMA AtPlacesAre ==
    ASSUME NEW q, NEW I
    PROVE  DOMAIN Physics!AtPlaces(q, I) = 1..Cardinality(I)
<1>1. DOMAIN Physics!AtPlaces(q, I) = 1..Physics!Cardinality(I)
  BY DEF Physics!AtPlaces
<1> QED
  BY <1>1, SameCardinality

LEMMA PlacesFinite ==
    ASSUME NEW S, NEW q \in Seq(S), NEW I \in SUBSET DOMAIN q
    PROVE  IsFiniteSet(I) /\ Cardinality(I) \in Nat
<1>1. Len(q) \in Nat /\ DOMAIN q = 1..Len(q)
  OBVIOUS
<1>2. IsFiniteSet(1..Len(q))
  BY <1>1, FS_Interval
<1>3. IsFiniteSet(I)
  BY <1>1, <1>2, FS_Subset
<1> QED
  BY <1>3, FS_CardinalityType

(* load_model_subgraph makes formulas of a model's children and edges.       *)
LEMMA ConstraintsAreFormulas ==
    ASSUME NEW g, NEW children, NEW S, children \in Seq(S), NEW T, g.uses \in Seq(T)
    PROVE  \E N : Formulas(Physics!Constraints(g, children), N)
<1> DEFINE I == {n \in DOMAIN children : g.kinds[children[n]] = "Constraint"}
           ids == Physics!AtPlaces(children, I)
           N == Cardinality(I)
           cs == Physics!Constraints(g, children)
           row(n) == [id |-> ids[n], uses |-> Physics!UsesOf(g, children, ids[n]),
                      produces |-> Physics!ProducesOf(g, children, ids[n]), formula |-> g.formulas[ids[n]]]
<1>1. DOMAIN ids = 1..N
  BY AtPlacesAre
<1>2. N \in Nat
  BY PlacesFinite
<1>3. cs = [n \in DOMAIN ids |-> row(n)]
  BY DEF Physics!Constraints
<1>4. ASSUME NEW c PROVE IsFiniteSet(DOMAIN Physics!UsesOf(g, children, c))
  <2> DEFINE J == {n \in DOMAIN g.uses : /\ g.uses[n][1] = c
                                         /\ Physics!IsParameter(g, children, g.uses[n][2])}
             edges == Physics!AtPlaces(g.uses, J)
  <2>1. DOMAIN Physics!UsesOf(g, children, c) = DOMAIN edges
    BY DEF Physics!UsesOf
  <2>2. DOMAIN edges = 1..Cardinality(J)
    BY AtPlacesAre
  <2>3. Cardinality(J) \in Nat
    BY PlacesFinite
  <2> HIDE DEF edges, J
  <2>4. IsFiniteSet(1..Cardinality(J))
    BY <2>3, FS_Interval
  <2> QED
    BY <2>1, <2>2, <2>4
<1> HIDE DEF ids, I, N, cs
<1>5. \A n \in 1..N : cs[n].uses = Physics!UsesOf(g, children, ids[n])
  BY <1>1, <1>3
<1> HIDE DEF row
<1>6. DOMAIN cs = 1..N
  BY <1>1, <1>3
<1>7. Len(cs) = N
  <2> DEFINE R == {row(n) : n \in 1..N}
  <2>1. cs \in [1..N -> R]
    BY <1>1, <1>3
  <2> HIDE DEF R
  <2>2. cs \in Seq(R)
    BY <1>2, <2>1, SeqDef
  <2> QED
    BY <1>2, <1>6, <2>2
<1>8. Formulas(cs, N)
  BY <1>2, <1>4, <1>5, <1>6, <1>7 DEF Formulas
<1> QED
  BY <1>8 DEF cs

-----------------------------------------------------------------------------
(* A curve or a model that is asked about is one that may be.                *)
QuestionIsPut ==
    /\ About("curve") => question.of \in Curves
    /\ About("model") => question.of \in Models

LEMMA QuestionsArePut == AskSpec => []QuestionIsPut
<1>1. AskInit => QuestionIsPut
  BY DEF AskInit, Unasked, QuestionIsPut, About
<1>2. QuestionIsPut /\ [AskNext]_question => QuestionIsPut'
  <2> SUFFICES ASSUME QuestionIsPut, [AskNext]_question PROVE QuestionIsPut'
    OBVIOUS
  <2>1. CASE AskSpace
    BY <2>1 DEF AskSpace, QuestionIsPut, About
  <2>2. CASE AskInstance
    BY <2>2 DEF AskInstance, QuestionIsPut, About
  <2>3. CASE AskCurve
    BY <2>3 DEF AskCurve, QuestionIsPut, About
  <2>4. CASE AskModel
    BY <2>4 DEF AskModel, QuestionIsPut, About
  <2>5. CASE UNCHANGED question
    BY <2>5 DEF QuestionIsPut, About
  <2> QED
    BY <2>1, <2>2, <2>3, <2>4, <2>5 DEF AskNext
<1> QED
  BY <1>1, <1>2, PTL DEF AskSpec

(* PhysicsIsComputed of every question: evaluate_one follows a curve of any   *)
(* points, in any order and with repetitions, at any x; and evaluate_model    *)
(* solves a model of any number of formulas, for any inputs, or says why not. *)
THEOREM PhysicsComesRight == AskSpec => []PhysicsIsComputed
<1>1. QuestionIsPut => PhysicsIsComputed
  <2> SUFFICES ASSUME QuestionIsPut PROVE PhysicsIsComputed
    OBVIOUS
  <2>1. ASSUME NEW q \in Curves PROVE Physics!FollowsTheCurve(q.points, q.x)
    <3>1. q.points \in Seq(Int \X Int) /\ q.x \in Int
      BY CurvesAssumption
    <3>2. Len(q.points) \in Nat /\ q.points \in Curve(Len(q.points))
      BY <3>1, LenProperties DEF Curve
    <3> QED
      BY <3>1, <3>2, CurvesFollowed
  <2>2. ASSUME NEW q \in Models
        PROVE  Physics!ComputesTheSolution(Physics!Constraints(q.model, q.children), q.inputs)
    <3>1. /\ q.children \in Seq(DOMAIN q.model.kinds)
          /\ q.model.uses \in Seq((DOMAIN q.model.kinds) \X (DOMAIN q.model.kinds))
      BY ModelsAssumption
    <3>2. PICK N : Formulas(Physics!Constraints(q.model, q.children), N)
      BY <3>1, ConstraintsAreFormulas
    <3> QED
      BY <3>2, ModelsSolved
  <2> QED
    BY <2>1, <2>2 DEF PhysicsIsComputed, QuestionIsPut
<1> QED
  BY <1>1, QuestionsArePut, PTL
=============================================================================
