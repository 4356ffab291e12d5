------------------------------- MODULE MCRunner -------------------------------
(***************************************************************************)
(* What lints files, for TLC: the runner, with finding the projects and    *)
(* files to lint, linting and fixing the files of projects, and the file   *)
(* system it works on, and the plugin of the language service. Each module *)
(* abstracts from the others and has state of its own; a behaviour is one  *)
(* of any of them while the others stay in an initial state.               *)
(***************************************************************************)
EXTENDS MCLintProject, MCProjects, MCCachedFileSystem, MCLanguageService

VARIABLE machine

all == <<machine, lintVars, projectsVars, cvars, serviceVars>>

ACode == CHOOSE x \in MCInstances : TRUE

AnyInit ==
    /\ machine \in {"lint", "projects", "files", "service"}
    /\ machine = "lint" \/ ( /\ imports = CHOOSE i \in ImportMaps : TRUE
                             /\ projects = CHOOSE list \in ProjectLists : TRUE
                             /\ options = CHOOSE o \in OptionSets : TRUE
                             /\ disk = [f \in Files |-> [frame |-> 1, text |-> (CHOOSE texts \in Disks : TRUE)[f]]])
    /\ machine = "projects" \/ (code = ACode /\ lintOptions = CHOOSE o \in OptionsOf[ACode] : TRUE)
    /\ machine = "files" \/ tree = CHOOSE t \in Trees : TRUE
    /\ machine = "service" \/ (programFiles = {} /\ setup = CHOOSE any \in Setups : TRUE)
    /\ LintInit
    /\ ProjectsInit
    /\ CInit
    /\ ServiceInit

LintStep == machine = "lint" /\ LintNext /\ UNCHANGED <<machine, projectsVars, cvars, serviceVars>>

\* The end of a run
LintStop == machine = "lint" /\ pc = "open" /\ current = Len(projects) /\ UNCHANGED all

ProjectsStep == machine = "projects" /\ ProjectsNext /\ UNCHANGED <<machine, lintVars, cvars, serviceVars>>

FilesStep == machine = "files" /\ CNext /\ UNCHANGED <<machine, lintVars, projectsVars, serviceVars>>

ServiceStep == machine = "service" /\ ServiceNext /\ UNCHANGED <<machine, lintVars, projectsVars, cvars>>

AnySpec == AnyInit /\ [][LintStep \/ LintStop \/ ProjectsStep \/ FilesStep \/ ServiceStep]_all
===============================================================================
