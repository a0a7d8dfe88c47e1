------------------------------- MODULE Answers -------------------------------
(***************************************************************************)
(* The parts of the platform that compute: each takes what it is given and *)
(* answers, and keeps nothing.  A behaviour asks one question; what should *)
(* hold of the answer is an invariant.  Those that parse, or walk a graph  *)
(* depth first, are in Queries.                                            *)
(***************************************************************************)
EXTENDS Integers, Sequences, FiniteSets

CONSTANTS
    Spaces,     \* models of design spaces, and a subsystem of each
    Instances,  \* definitions, and nodes that are present
    Curves,     \* points, and an x
    Models      \* elements and edges of a parametric model, its children and inputs

(* A curve is of points; a model's children, and the ends of its edges, are  *)
(* elements.                                                                 *)
ASSUME CurvesAssumption == \A q \in Curves : q.points \in Seq(Int \X Int) /\ q.x \in Int
ASSUME ModelsAssumption ==
    \A q \in Models : /\ q.children \in Seq(DOMAIN q.model.kinds)
                      /\ q.model.uses \in Seq((DOMAIN q.model.kinds) \X (DOMAIN q.model.kinds))

Design  == INSTANCE DesignSpace
Physics == INSTANCE Parametrics

VARIABLE question

Unasked == [about |-> "nothing"]

AskInit == question = Unasked

AskSpace    == question' \in {[about |-> "space",    of |-> q] : q \in Spaces}
AskInstance == question' \in {[about |-> "instance", of |-> q] : q \in Instances}
AskCurve    == question' \in {[about |-> "curve",    of |-> q] : q \in Curves}
AskModel    == question' \in {[about |-> "model",    of |-> q] : q \in Models}

AskNext ==
    /\ question = Unasked
    /\ AskSpace \/ AskInstance \/ AskCurve \/ AskModel

AskSpec == AskInit /\ [][AskNext]_question

About(what) == question.about = what

----------------------------------------------------------------------------
(* A constraint across two subsystems is in the design space of both, and a  *)
(* design space names nothing it lacks and loses nothing unsaid; a decoded    *)
(* instance reports every node once.                                         *)
SpacesAreWhole ==
    /\ About("space") => /\ Design!ReachesBothSides(question.of.model, question.of.subsystem)
                         /\ Design!NamesWhatItDeclares(question.of.model, question.of.subsystem)
    /\ About("instance") => Design!LosesNoNode(question.of.definition, question.of.present)

(* A curve is read on the segment around the input; a model's outputs solve  *)
(* its formulas, in whatever order they are stored.                          *)
PhysicsIsComputed ==
    /\ About("curve") => Physics!FollowsTheCurve(question.of.points, question.of.x)
    /\ About("model") =>
          Physics!ComputesTheSolution(Physics!Constraints(question.of.model, question.of.children),
                                      question.of.inputs)
=============================================================================
