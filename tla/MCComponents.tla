----------------------------- MODULE MCComponents -----------------------------
(***************************************************************************)
(* The components that work on findings and those that start linting, for  *)
(* TLC. Each has state of its own; a behaviour is one of any of them while *)
(* the others stay in an initial state.                                    *)
(***************************************************************************)
EXTENDS MCFindings, MCFrontEnds

VARIABLE machine

findingVars == <<vars, switchesVars, vueVars, parameterVars, labelVars, awaitVars, object>>

frontEndVars == <<configVars, tslintVars, cliVars, testVars>>

all == <<machine, findingVars, frontEndVars>>

FindingMachines == {"fixes", "switches", "vue", "parameters", "labels", "await", "spread"}

FrontEndMachines == {"configuration", "tslint", "arguments", "tests"}

-----------------------------------------------------------------------------
(* The initial states; a component that stays there has one of them.       *)

AFixList == CHOOSE list \in AnyOrder : TRUE
AConfigInstance == Disk("a" :> Plain(<<>>), Nowhere)
ATslintInstance == TslintInstance({}, "d", NoTslintRules, Undefined)
ASuite == [tests |-> <<>>, initial |-> <<>>, traversed |-> {}]

FindingsInit ==
    /\ machine = "fixes" \/ fixes = AFixList
    /\ machine = "switches" \/ (comments = <<>> /\ findings = {})
    /\ machine = "vue" \/ content = <<"x", "lf">>
    /\ Init /\ SwitchesInit /\ VueInit
    /\ IF machine = "parameters" THEN RuleInit
       ELSE mode = "never" /\ class = [params |-> <<>>, members |-> <<>>, body |-> <<>>]
    /\ IF machine = "labels" THEN LabelInit ELSE statements = <<>> /\ jumps = <<>> /\ originally = <<>>
    /\ IF machine = "await" THEN AwaitInit
       ELSE place = <<FunctionOf(TRUE)>> /\ expression = <<>> /\ leaf = FALSE /\ top = FALSE
    /\ IF machine = "spread" THEN SpreadInit ELSE object = <<>>

FrontEndsInit ==
    /\ IF machine = "configuration" THEN disk \in MCConfigInstances ELSE disk = AConfigInstance
    /\ configCache = <<>> /\ dirCache = <<>> /\ ruleCache = <<>> /\ frames = <<>>
    /\ answer = [call |-> <<"none">>, result |-> Undefined]
    /\ IF machine = "tslint" THEN tslint \in MCTslintInstances ELSE tslint = ATslintInstance
    /\ foundConfigs = <<>> /\ walk = Idle /\ baseConfig = Undefined /\ loaded = Idle
    /\ IF machine = "arguments" THEN yaml \in MCYamls ELSE yaml = <<>>
    /\ last = [args |-> <<>>, before |-> <<>>, command |-> "none", options |-> Thrown]
    /\ IF machine = "tests" THEN TestInit
       ELSE /\ suite = ASuite /\ testOptions = [updateBaselines |-> FALSE, bail |-> FALSE, exact |-> FALSE]
            /\ queue = <<>> /\ testPhase = "open" /\ results = <<>> /\ containsFixes = FALSE /\ baselines = <<>>
            /\ baselinesSeen = {} /\ listed = <<>> /\ success = TRUE /\ outcome = "running"

AnyInit == machine \in FindingMachines \union FrontEndMachines /\ FindingsInit /\ FrontEndsInit

-----------------------------------------------------------------------------
FixesStep ==
    /\ machine = "fixes" /\ Next
    /\ UNCHANGED <<machine, switchesVars, vueVars, parameterVars, labelVars, awaitVars, object, frontEndVars>>
SwitchesStep ==
    /\ machine = "switches" /\ SwitchesNext
    /\ UNCHANGED <<machine, vars, vueVars, parameterVars, labelVars, awaitVars, object, frontEndVars>>
VueStep ==
    /\ machine = "vue" /\ VueNext
    /\ UNCHANGED <<machine, vars, switchesVars, parameterVars, labelVars, awaitVars, object, frontEndVars>>
ParametersStep ==
    /\ machine = "parameters" /\ ApplyRule
    /\ UNCHANGED <<machine, vars, switchesVars, vueVars, labelVars, awaitVars, object, frontEndVars>>
LabelsStep ==
    /\ machine = "labels" /\ LabelNext
    /\ UNCHANGED <<machine, vars, switchesVars, vueVars, parameterVars, awaitVars, object, frontEndVars>>
AwaitStep ==
    /\ machine = "await" /\ AwaitNext
    /\ UNCHANGED <<machine, vars, switchesVars, vueVars, parameterVars, labelVars, object, frontEndVars>>
SpreadStep ==
    /\ machine = "spread" /\ DeleteReported
    /\ UNCHANGED <<machine, vars, switchesVars, vueVars, parameterVars, labelVars, awaitVars, frontEndVars>>

ConfigurationStep ==
    machine = "configuration" /\ ConfigNext /\ UNCHANGED <<machine, findingVars, tslintVars, cliVars, testVars>>
TslintStep ==
    machine = "tslint" /\ TslintNext /\ UNCHANGED <<machine, findingVars, configVars, cliVars, testVars>>
ArgumentsStep ==
    machine = "arguments" /\ CommandLineNext /\ UNCHANGED <<machine, findingVars, configVars, tslintVars, testVars>>
TestsStep ==
    machine = "tests" /\ TestNext /\ UNCHANGED <<machine, findingVars, configVars, tslintVars, cliVars>>

FindingsNext == FixesStep \/ SwitchesStep \/ VueStep \/ ParametersStep \/ LabelsStep \/ AwaitStep \/ SpreadStep

FrontEndsNext == ConfigurationStep \/ TslintStep \/ ArgumentsStep \/ TestsStep

\* Fixing is a loop without input and output.
AnySpec == AnyInit /\ [][FindingsNext \/ FrontEndsNext]_all /\ WF_all(FixesStep)
===============================================================================
