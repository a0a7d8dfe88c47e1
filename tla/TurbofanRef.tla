----------------------------- MODULE TurbofanRef -----------------------------
(***************************************************************************)
(* The reference model, as the calls the server seeds it with (main.rs,    *)
(* seed_turbofan_ref and the functions it calls), in order.  Each returns  *)
(* with what it adds to the genesis commit.                                *)
(*                                                                         *)
(* Of a property the model keeps its key and the elements its value names  *)
(* (none, for numbers and text).  Body writes a whole row; Merge reads the *)
(* row and writes it back with some keys added or replaced; "said" are the *)
(* keys the commit is told of.                                             *)
(***************************************************************************)
EXTENDS Naturals, Sequences, SequencesExt

Element(kind, id)  == [op |-> "element", kind |-> kind, id |-> id]
Edge(kind, a, b)   == [op |-> "edge", kind |-> kind, source |-> a, target |-> b]
Body(id, keys)     == [op |-> "body", id |-> id, with |-> keys, said |-> {}]
SaidBody(id, keys) == [Body(id, keys) EXCEPT !.said = DOMAIN keys]
Merge(id, keys, said) == [op |-> "merge", id |-> id, with |-> keys, said |-> said]
Push(id, key, to)  == [op |-> "push", id |-> id, with |-> [k \in {key} |-> {to}], said |-> {key}]
Object(key)        == [op |-> "object", key |-> key]

Plain(keys)  == [k \in keys |-> {}]
Each(seq, Do(_)) == FlattenSeq([n \in DOMAIN seq |-> Do(seq[n])])

(* An element, its body, and the one edge it is tied by.                     *)
Owned(kind, id, keys, tie, owner) == <<Element(kind, id), Body(id, Plain(keys)), Edge(tie, owner, id)>>
Tied(kind, id, keys, tie, to)     == <<Element(kind, id), Body(id, Plain(keys)), Edge(tie, id, to)>>

Fan == "FanLpCompression"
Core == "CoreHpCompressor"
Turbine == "TurbineHpLp"
Control == "ControlFadecEec"

Subsystems == <<Fan, Core, "Combustor", Turbine, Control>>

Subsystem(s) == <<Element("Structure", s), Edge("Contains", "Engine", s)>>

Structure ==
    <<Element("Structure", "Engine")>> \o Each(Subsystems, Subsystem)
    \o <<Element("Requirement", "REQ-THRUST"), Body("REQ-THRUST", Plain({})),
         Object("turbine/casing-placeholder.txt"),
         SaidBody(Turbine, [k \in {"geometryPointer"} |-> {}])>>

----------------------------------------------------------------------------
(* seed_fr_comp_content.                                                     *)
Specified == {"designWeightFlowLbPerSec", "designEquivalentSpeedRpm", "targetPolytropicEfficiency",
              "inletDiameterIn", "outletDiameterIn", "maxOutletVelocityFtPerSec", "targetLengthIn",
              "targetWeightLb", "inletDistortionTolerance", "negotiable", "flagged",
              "highEfficiencyOperatingRangePercentNCorrected"}

FanSeed == [subsystem |-> Fan, req |-> "REQ-FAN-SPEC",
            spec |-> Specified \cup {"designBypassRatio", "designFanPressureRatio"},
            map |-> "FanPerformanceMapConstraint",
            params |-> <<"FanEquivalentWeightFlowParam", "FanEquivalentSpeedParam">>,
            ports |-> <<"FanInletPort", "FanExitPort">>, bleeds |-> {}]

CoreSeed == [subsystem |-> Core, req |-> "REQ-CORE-SPEC",
             spec |-> Specified \cup {"designOverallPressureRatioContribution"},
             map |-> "CorePerformanceMapConstraint",
             params |-> <<"CoreEquivalentWeightFlowParam", "CoreEquivalentSpeedParam">>,
             ports |-> <<"CoreInletPort", "CoreExitPort">>, bleeds |-> {"CoreExitPort"}]

(* The ports are what both contracts define; the other keys are prose.       *)
Contract(seed) ==
    [k \in {"performanceTargets", "boundaryConditions", "geometricEnvelope",
            "interfacePortDefinitions", "massCostTargets", "materialProcessConstraints"} |->
        IF k = "interfacePortDefinitions" THEN ToSet(seed.ports) ELSE {}]

Specification(seed) ==
    <<Element("Requirement", seed.req), Body(seed.req, Plain(seed.spec)),
      Edge("Satisfy", seed.subsystem, seed.req)>>

PerformanceMap(seed) ==
    LET Param(p) == Tied("Parameter", p, {"symbol", "units"}, "Bound", seed.subsystem)
                    \o <<Edge("Uses", seed.map, p)>>
    IN  <<Element("Constraint", seed.map),
          Body(seed.map, Plain({"description", "sampledPointsAtDesignSpeed", "sourceNote"}))>>
        \o Each(seed.params, Param)

Matching(seed) ==
    LET Port(p) == Owned("Port", p, {"station", "equivalentWeightFlowLbPerSec", "equivalentSpeedRpm"}
                           \cup (IF p \in seed.bleeds THEN {"bleedFractionB"} ELSE {}),
                         "Contains", seed.subsystem)
    IN  Each(seed.ports, Port)

InterfaceContract(seed) ==
    LET more == {"specProvenance", "diffusionFactor", "relativeMach"}
        contract == Contract(seed)
    IN  <<Merge(seed.subsystem, [k \in DOMAIN contract \cup more |-> IF k \in more THEN {} ELSE contract[k]],
                DOMAIN contract)>>

Compressor(seed) ==
    Specification(seed) \o PerformanceMap(seed) \o Matching(seed) \o InterfaceContract(seed)

----------------------------------------------------------------------------
(* seed_isentropic_compressor_model.                                         *)
Stage == "IsentropicCompressorStageModel"

Inputs == <<"T01Param", "PRParam", "EtaCParam", "CpParam", "GammaParam", "MdotParam">>
Outputs == <<"T02sParam", "DeltaTActualParam", "T02Param", "SpecificWorkParam", "PowerParam">>

Formula(id, uses, produces) == [id |-> id, uses |-> uses, produces |-> produces]
Formulas ==
    <<Formula("IsentropicExitTempConstraint", <<"T01Param", "PRParam", "GammaParam">>, "T02sParam"),
      Formula("ActualTempRiseConstraint", <<"T02sParam", "T01Param", "EtaCParam">>, "DeltaTActualParam"),
      Formula("ActualExitTempConstraint", <<"T01Param", "DeltaTActualParam">>, "T02Param"),
      Formula("SpecificWorkConstraint", <<"CpParam", "DeltaTActualParam">>, "SpecificWorkParam"),
      Formula("PowerConstraint", <<"MdotParam", "SpecificWorkParam">>, "PowerParam")>>

StageParameter(p) ==
    Owned("Parameter", p, {"symbol", "role", "unit"}
            \cup (IF p \in ToSet(Inputs) THEN {"designValue"} ELSE {}), "Contains", Stage)

StageConstraint(f) ==
    LET Uses(p) == <<Edge("Uses", f.id, p)>>
    IN  Owned("Constraint", f.id, {"formula"}, "Contains", Stage) \o Each(f.uses, Uses)
        \o <<Edge("Produces", f.id, f.produces)>>

StageModel ==
    <<Element("Model", Stage), Body(Stage, Plain({}))>>
    \o Each(Inputs \o Outputs, StageParameter) \o Each(Formulas, StageConstraint)
    \o <<Edge("Instantiates", Core, Stage)>>

----------------------------------------------------------------------------
(* seed_fr_arch_system_model.                                                *)
Port(id, subsystem, keys) == Owned("Port", id, keys, "Contains", subsystem)

StationPorts ==
    Port("FanBypassDuctExitPort", Fan, {"description"})
    \o Port("CoreBleedOfftakePort", Core, {"description"})
    \o Port("CombustorInletPort", "Combustor", {"station"})
    \o Port("CombustorFuelInjectorPort", "Combustor", {"description"})
    \o Port("CombustorExitPort", "Combustor", {"station"})
    \o Port("TurbineHpInletPort", Turbine, {"station"})
    \o Port("TurbineLpInterstagePort", Turbine, {"station"})
    \o Port("TurbineExitPort", Turbine, {"station"})
    \o Port("NozzleInletPort", Turbine, {"station", "description"})
    \o Port("NozzleExitPort", Turbine, {"station"})
    \o Port("ControlAccessoryPort", Control, {"description"})

Selection(id, subsystem, keys) ==
    Tied("SelectionChoice", id, {"options", "resolutionState"} \cup keys, "ArchDerives", subsystem)

SelectionChoices ==
    Selection("IncludeGearbox", Fan, {}) \o Selection("BleedOfftakeStage", Core, {})
    \o Selection("PowerOfftake", Turbine, {}) \o Selection("MixedNozzle", Turbine, {"incompatibilityNote"})

CyclicDerivations ==
    <<Edge("ArchDerives", Core, "Combustor"), Edge("ArchDerives", "Combustor", Turbine),
      Edge("ArchDerives", Turbine, Core)>>

(* The bleed air goes to a connector outside the engine, which no element is.*)
Outside == "EcsExternalConnector"

ConnectionChoices ==
    <<Element("ConnectionChoice", "BleedAirRouting"),
      Body("BleedAirRouting",
           [sourcePortId |-> {"CoreBleedOfftakePort"}, targetBoundary |-> {}, cardinality |-> {},
            sourceConnectorNames |-> {"CoreBleedOfftakePort"}, targetConnectorNames |-> {Outside}]),
      Element("ConnectionChoice", "PowerOfftakeRouting"),
      Body("PowerOfftakeRouting",
           [sourceSelectionChoiceId |-> {"PowerOfftake"}, targetPortId |-> {"ControlAccessoryPort"},
            cardinality |-> {}, sourceConnectorNames |-> {"PowerOfftake"},
            targetConnectorNames |-> {"ControlAccessoryPort"}])>>

Function(id, fulfills) ==
    LET Fulfilled(t) == <<Edge("ArchDerives", id, t)>>
    IN  <<Element("Function", id),
          Body(id, Plain({"permanence", "fulfillmentMechanism", "notes"}))>> \o Each(fulfills, Fulfilled)

GasPath == <<Fan, Core, "Combustor", Turbine>>

BoundaryFunctions ==
    Function("GenerateThrust", GasPath)
    \o Function("ProvideBleedAir", <<"BleedAirRouting">>)
    \o Function("ProvideAccessoryShaftPower", <<"PowerOfftakeRouting">>)
    \o Function("RegulateEngineOperation", <<Control>>)
    \o Function("MeterFuelFlow", <<Control>>)
    \o <<Edge("IncompatibleWith", "MixedNozzle", "FanBypassDuctExitPort")>>

Variable(id, subsystem, keys) == Tied("Parameter", id, keys \cup {"symbol"}, "Bound", subsystem)

DesignVariables ==
    LET counted == {"description", "type", "bound", "illustrative"}
        bounded == {"bound", "illustrative"}
        said    == {"description", "illustrative"}
    IN  Variable("FanLpStagesParam", Fan, counted) \o Variable("CoreHpStagesParam", Core, counted)
        \o Variable("TurbineHpStagesParam", Turbine, counted)
        \o Variable("TurbineLpStagesParam", Turbine, counted)
        \o Variable("GearRatioParam", Fan, bounded \cup said)
        \o Variable("BprParam", Fan, bounded) \o Variable("FprParam", Fan, bounded)
        \o Variable("OprCoreParam", Core, bounded \cup said)
        \o Variable("ChamberSizeParam", "Combustor", said)
        \o Variable("FlameTemperatureParam", "Combustor", {"illustrative"})
        \o Variable("PressureLossParam", "Combustor", {"illustrative"})
        \o Variable("NOxParam", "Combustor", said)

(* Linked stage counts, and the requirement that was there from the start.   *)
LinksAndThrust ==
    LET Thrust(s) == <<Edge("Satisfy", s, "REQ-THRUST")>>
    IN  <<Edge("ChoiceConstraint", "FanLpStagesParam", "TurbineLpStagesParam"),
          Edge("ChoiceConstraint", "CoreHpStagesParam", "TurbineHpStagesParam")>>
        \o Each(GasPath, Thrust)

OfftakeInContract == <<Push(Core, "interfacePortDefinitions", "CoreBleedOfftakePort")>>

ArchSystem ==
    StationPorts \o SelectionChoices \o CyclicDerivations \o ConnectionChoices \o BoundaryFunctions
    \o DesignVariables \o LinksAndThrust \o OfftakeInContract

TurbofanPlan == Structure \o Compressor(FanSeed) \o Compressor(CoreSeed) \o StageModel \o ArchSystem

----------------------------------------------------------------------------
(* bin/seed_turbofan_scale.rs: bulk writes, and no commit.                   *)
Elements(ids) == [op |-> "elements", kind |-> "Structure", ids |-> ids]
Bulk(kind, a, b, pairs) ==
    [op |-> "bulk", kind |-> kind, sourceKind |-> a, targetKind |-> b, pairs |-> pairs]

Part(s, n) == s \o "-part-" \o ToString(n)

(* generate_subtree: parents come from the front of a queue, and each gets   *)
(* branch children while there are too few.                                  *)
Subtree(s, count, branch) ==
    LET Grow[n \in 0..count] ==
            IF n = 0 THEN [parts |-> << >>, edges |-> << >>, queue |-> <<s>>, left |-> branch]
            ELSE LET g == Grow[n - 1]
                     full == g.left = 0
                     queue == IF full THEN Tail(g.queue) ELSE g.queue
                 IN  [parts |-> Append(g.parts, Part(s, n)),
                      edges |-> Append(g.edges, <<Head(queue), Part(s, n)>>),
                      queue |-> Append(queue, Part(s, n)),
                      left  |-> (IF full THEN branch ELSE g.left) - 1]
    IN  Grow[count]

(* Every stride-th part, from the first.                                     *)
Sample(parts, samples) ==
    LET stride == IF Len(parts) < samples THEN 1 ELSE Len(parts) \div samples
    IN  {parts[1 + stride * n] : n \in {n \in 0..(samples - 1) : 1 + stride * n <= Len(parts)}}

ScalePlan(count, branch, samples) ==
    LET Grown(s) ==
            LET tree == Subtree(s, count, branch)
            IN  <<Element("Structure", s),
                  Bulk("Contains", "Structure", "Structure", {<<"Engine", s>>}),
                  Elements(ToSet(tree.parts)),
                  Bulk("Contains", "Structure", "Structure", ToSet(tree.edges)),
                  Bulk("Satisfy", "Structure", "Requirement",
                       {<<p, "REQ-THRUST-SCALE">> : p \in Sample(tree.parts, samples)})>>
    IN  <<Element("Structure", "Engine"), Element("Requirement", "REQ-THRUST-SCALE")>>
        \o Each(Subsystems, Grown)
=============================================================================
