---------------------------- MODULE ProblemLoader ----------------------------
(***************************************************************************)
(* The copy of a problem a grader has: problem_loader.dart.  Before each   *)
(* grading the grader asks for what is newer than the time stamp in the    *)
(* directory of the problem, and writes it over what is there.  Nothing is *)
(* deleted: what only an earlier version had stays, and is used.  The main *)
(* loop of the grader waits for a load, and for the grading after it,      *)
(* before it takes the next submission.                                    *)
(*                                                                         *)
(* A step goes from one place where the grader may die with consequences   *)
(* to the next.  Versions of a problem may have options: a program for the *)
(* tests (one stands for interactor, coprocess, generator and checker, all *)
(* compiled), the flag that tests require a build, arguments of tests.     *)
(***************************************************************************)
EXTENDS CourseContent

CONSTANTS
  Grader,      \* a client of the content service
  WithOptions  \* the versions of problem.yaml, and of tests, that have options

\* "grade"    a submission is to be graded
\* "compile"  the compiler fails                   "die"  the grader dies
LoaderEvents == {"grade", "compile", "die"}

VARIABLES
  directory,    \* the files, known by the versions they were written from
  loader,       \* the load or grading under way
  loaded,       \* history: what the directory was loaded with last
  loaderBudget  \* bound: how often each kind of event may still happen

loaderVars == <<directory, loader, loaded, loaderBudget>>

\* In the directory: .timestamp; public and private files; the source and the
\* binary of the program; plain files of options; what names the program and
\* sets the flag; tests; arguments of tests.
NoDirectory ==
  [stamp |-> 0, public |-> 0, private |-> 0, source |-> 0, binary |-> 0, plain |-> 0,
   named |-> 0, tests |-> 0, args |-> 0]

NoLoader == [pc |-> "idle", response |-> NoAnswer, compiled |-> "yes"]

LoaderInit == directory = NoDirectory /\ loader = NoLoader /\ loaded = NoLoader

LoaderPays(e) ==
  loaderBudget[e] > 0 /\ loaderBudget' = [loaderBudget EXCEPT ![e] = @ - 1]

LoadPlaces == {"request", "build", "programs", "options", "tests", "stamp"}

\* The data that are written, and whether they have options.
Data == loader.response.data
HasProgram(data) == data["options"] \in WithOptions
HasArguments(data) == data["tests"] \in WithOptions

GoesTo(pc) == loader' = [loader EXCEPT !.pc = pc]

\* An empty .timestamp cannot be parsed: the load fails, now and ever after.
LoadProblemData ==
  /\ loader.pc = "idle" /\ LoaderPays("grade")
  /\ directory.stamp # Null
  /\ loader' = [NoLoader EXCEPT !.pc = "request"]
  /\ Request(Grader, "problem", directory.stamp)
  /\ UNCHANGED <<directory, loaded>>

GotProblem ==
  /\ loader.pc = "request" /\ Answered(Grader)
  /\ loader' = [loader EXCEPT !.response = Answer(Grader),
       !.pc = CASE Answer(Grader).status = "data" -> "build"
                [] Answer(Grader).status = "same" -> "loaded"
                [] Answer(Grader).status = "error" -> "idle"]
  /\ TakeAnswer(Grader)
  /\ UNCHANGED <<directory, loaded, loaderBudget>>

WithBuildFiles ==
  [directory EXCEPT !.public = Data["template"], !.private = Data["options"],
                    !.source = IF HasProgram(Data) THEN Data["options"] ELSE @]

\* Mutant: the time stamp is written before the rest.
SaveBuildFilesStamped ==
  /\ loader.pc = "build" /\ GoesTo(IF HasProgram(Data) THEN "programs" ELSE "options")
  /\ directory' = [WithBuildFiles EXCEPT !.stamp = loader.response.modified]
  /\ UNCHANGED <<calls, loaded, loaderBudget>>

\* The files, and the source of the program, in one directory.
SaveBuildFiles ==
  /\ loader.pc = "build" /\ GoesTo(IF HasProgram(Data) THEN "programs" ELSE "options")
  /\ directory' = WithBuildFiles
  /\ UNCHANGED <<calls, loaded, loaderBudget>>

\* A failure of the compiler is only logged, and the binary of an earlier
\* version taken if there is one.
BuildSupplementaryProgram ==
  /\ loader.pc = "programs"
  /\ \/ /\ directory' = [directory EXCEPT !.binary = directory.source]
        /\ GoesTo("options") /\ UNCHANGED loaderBudget
     \/ /\ LoaderPays("compile") /\ UNCHANGED directory
        /\ loader' = [loader EXCEPT !.pc = IF directory.binary = 0 THEN "idle" ELSE "options",
                                    !.compiled = "no"]
  /\ UNCHANGED <<calls, loaded>>

\* Nothing is deleted when there is no program or flag, or are no arguments.
SaveToPlainFiles ==
  /\ loader.pc = "options" /\ GoesTo("tests")
  /\ directory' = [directory EXCEPT !.plain = Data["options"],
                     !.named = IF HasProgram(Data) THEN Data["options"] ELSE @]
  /\ UNCHANGED <<calls, loaded, loaderBudget>>

SaveTests ==
  /\ loader.pc = "tests" /\ GoesTo("stamp")
  /\ directory' = [directory EXCEPT !.tests = Data["tests"],
                     !.args = IF HasArguments(Data) THEN Data["tests"] ELSE @]
  /\ UNCHANGED <<calls, loaded, loaderBudget>>

WriteTimeStamp ==
  /\ loader.pc = "stamp" /\ GoesTo("loaded")
  /\ directory' = [directory EXCEPT !.stamp = loader.response.modified]
  /\ loaded' = loader
  /\ UNCHANGED <<calls, loaderBudget>>

GradingEnds ==
  /\ loader.pc = "loaded" /\ loader' = NoLoader
  /\ UNCHANGED <<calls, directory, loaded, loaderBudget>>

\* It may die between the creation of .timestamp and the writing of it.
GraderDies ==
  /\ loader.pc # "idle" /\ LoaderPays("die")
  /\ loader' = NoLoader
  /\ calls' = [calls EXCEPT ![Grader] = NoCall]
  /\ directory' \in {directory} \cup
       (IF loader.pc = "stamp" THEN {[directory EXCEPT !.stamp = Null]} ELSE {})
  /\ UNCHANGED loaded

LoaderNext ==
  \/ LoadProblemData \/ GotProblem \/ SaveBuildFiles \/ BuildSupplementaryProgram
  \/ SaveToPlainFiles \/ SaveTests \/ WriteTimeStamp \/ GradingEnds \/ GraderDies

-----------------------------------------------------------------------------
(* Properties *)

LoaderTypeOK ==
  /\ loader.pc \in {"idle", "loaded"} \cup LoadPlaces /\ loader.compiled \in {"no", "yes"}
  /\ directory.stamp \in Nat \cup {Null}
  /\ \A part \in DOMAIN NoDirectory \ {"stamp"} : directory[part] \in Nat

\* A solution is graded with every part that the version of its problem has as
\* that version has it, and the version is the one the time stamp stands for,
\* whatever loads have failed half way before.  The binary may be that of an
\* earlier version if the compiler failed.  Parts that the version does not
\* have may be there, left by an earlier one.
LoadedIsWhole ==
  loader.pc = "loaded" =>
    LET data == loaded.response.data IN
    /\ loaded # NoLoader /\ directory.stamp = loaded.response.modified
    /\ directory.public = data["template"] /\ directory.tests = data["tests"]
    /\ directory.private = data["options"] /\ directory.plain = data["options"]
    /\ HasProgram(data) =>
         /\ directory.source = data["options"] /\ directory.named = data["options"]
         /\ directory.binary = data["options"] \/ loaded.compiled = "no"
    /\ HasArguments(data) => directory.args = data["tests"]
=============================================================================
