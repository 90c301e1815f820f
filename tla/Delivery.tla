------------------------------ MODULE Delivery ------------------------------
(***************************************************************************)
(* The command line (pqc_scan_cli/src/main.rs) and the writing of the       *)
(* reports (pqc_scan_report/src/lib.rs): successive invocations that share  *)
(* an output directory, each of which may fail at any call or be killed at  *)
(* any moment.                                                              *)
(*                                                                         *)
(* fs::write truncates the file and then fills it, which is two steps.  The *)
(* scan itself is module Scan; of its result only the worst severity among  *)
(* the findings matters here.  The names of its specification begin with    *)
(* Cli, beside those of Reports, which says what is in the files.           *)
(***************************************************************************)
EXTENDS Risk, Sequences

CONSTANT
    MaxRuns         \* bound: the number of invocations

ASSUME DeliveryAssumption == MaxRuns \in Nat

Format == {"json", "html", "md", "sarif"}
FormatArg == Format \cup {"all"}
FailOn == {"none", "high", "critical"}
Command == {"scan", "list", "show"}

expand(format) ==
    IF format = "all" THEN <<"json", "html", "md", "sarif">> ELSE <<format>>

\* The files a scan writes, in that order.
Outputs_InventoriesFirst(format) == <<"sbom", "cbom">> \o expand(format)
Outputs(format) == expand(format) \o <<"cbom", "sbom">>
File == Format \cup {"cbom", "sbom"}

\* The severity --fail-on names.
Threshold(fail_on) == IF fail_on = "high" THEN High ELSE Critical
NoFinding == -1

\* What the caller sees of a process that runs, and of one that was killed.
Running == -1
Killed == 137

VARIABLES
    out,        \* the output directory: what each file holds, from which run
    run,        \* the number of invocations so far
    args,       \* the command line: command, format, fail_on
    pc,         \* the step the process is at, "exited" when there is none
    worst,      \* the worst severity of the scan's findings
    next,       \* the output being written
    exit        \* how the last invocation ended

cli_vars == <<out, run, args, pc, worst, next, exit>>

\* Ends the invocation: main maps an error to 1.
Exit(code) == pc' = "exited" /\ exit' = code

Invoke ==
    /\ pc = "exited" /\ run < MaxRuns
    /\ run' = run + 1
    /\ args' \in [command : Command, format : FormatArg, fail_on : FailOn]
    /\ pc' = "rules"
    /\ exit' = Running
    /\ worst' = NoFinding /\ next' = 1
    /\ out' = out

\* The arguments do not parse, or --help or --version is asked for, which clap
\* reports as an error as well.
Usage ==
    /\ pc = "rules"
    /\ Exit(1)
    /\ UNCHANGED <<out, run, args, worst, next>>

\* RuleSet::load_from_dir; a scan refuses an empty set, rules list does not, and
\* rules show fails when the id is not there.
LoadRules ==
    /\ pc = "rules"
    /\ \/ pc' = (IF args.command = "scan" THEN "scan" ELSE "print") /\ exit' = exit
       \/ Exit(1)
    /\ UNCHANGED <<out, run, args, worst, next>>

Scan ==
    /\ pc = "scan"
    /\ \/ worst' \in Severity \cup {NoFinding} /\ pc' = "mkdir" /\ exit' = exit
       \/ Exit(1) /\ worst' = worst
    /\ UNCHANGED <<out, run, args, next>>

CreateDir ==
    /\ pc = "mkdir"
    /\ \/ pc' = "open" /\ exit' = exit
       \/ Exit(1)
    /\ UNCHANGED <<out, run, args, worst, next>>

Target_AsIfAll == (expand("all") \o <<"cbom", "sbom">>)[next]
Target == Outputs(args.format)[next]

Truncate ==
    /\ pc = "open" /\ next <= Len(Outputs(args.format))
    /\ \/ /\ out' = [out EXCEPT ![Target] = [run |-> run, format |-> args.format,
                                                    state |-> "torn"]]
          /\ pc' = "fill" /\ exit' = exit
       \/ Exit(1) /\ out' = out
    /\ UNCHANGED <<run, args, worst, next>>

\* The rest of fs::write; a full disk leaves the file torn.
Fill ==
    /\ pc = "fill"
    /\ \/ /\ out' = [out EXCEPT ![Target].state = "whole"]
          /\ next' = next + 1
          /\ pc' = "open" /\ exit' = exit
       \/ Exit(1) /\ UNCHANGED <<out, next>>
    /\ UNCHANGED <<run, args, worst>>

StartPrinting ==
    /\ pc = "open" /\ next > Len(Outputs(args.format))
    /\ pc' = "print"
    /\ UNCHANGED <<out, run, args, worst, next, exit>>

code_FirstFreeCode(status) == IF status = "FailThreshold" THEN 3 ELSE 0
code(status) == IF status = "FailThreshold" THEN 2 ELSE 0

\* A closed standard output is an error.
PrintSummary ==
    /\ pc = "print"
    /\ \/ /\ args.command = "scan" /\ args.fail_on # "none"
          /\ pc' = "gate" /\ exit' = exit
       \/ /\ args.command # "scan" \/ args.fail_on = "none"
          /\ Exit(code("Success"))
       \/ Exit(1)
    /\ UNCHANGED <<out, run, args, worst, next>>

exceeds_fail_threshold_Strictly(threshold) == worst > threshold
exceeds_fail_threshold(threshold) == worst >= threshold

\* The notice on standard error may fail as well.
Gate ==
    /\ pc = "gate"
    /\ IF exceeds_fail_threshold(Threshold(args.fail_on))
       THEN Exit(code("FailThreshold")) \/ Exit(1)
       ELSE Exit(code("Success"))
    /\ UNCHANGED <<out, run, args, worst, next>>

Kill ==
    /\ pc # "exited"
    /\ Exit(Killed)
    /\ UNCHANGED <<out, run, args, worst, next>>

Finished == pc = "exited" /\ run = MaxRuns /\ UNCHANGED cli_vars

CliInit ==
    /\ out = [f \in File |-> [run |-> 0, format |-> "all", state |-> "absent"]]
    /\ run = 0
    /\ args = [command |-> "scan", format |-> "all", fail_on |-> "none"]
    /\ pc = "exited"
    /\ worst = NoFinding
    /\ next = 1
    /\ exit = Running

CliNext ==
    \/ Invoke \/ Usage \/ LoadRules \/ Scan \/ CreateDir
    \/ Truncate \/ Fill \/ StartPrinting \/ PrintSummary \/ Gate
    \/ Kill \/ Finished

CliSpec == CliInit /\ [][CliNext]_cli_vars
-----------------------------------------------------------------------------
CliTypeOK ==
    /\ out \in [File -> [run : 0..run, format : FormatArg,
                         state : {"absent", "torn", "whole"}]]
    /\ run \in 0..MaxRuns
    /\ args \in [command : Command, format : FormatArg, fail_on : FailOn]
    /\ pc \in {"rules", "scan", "mkdir", "open", "fill", "print", "gate", "exited"}
    /\ worst \in Severity \cup {NoFinding}
    /\ next \in 1..7
    /\ exit \in {Running, 0, 1, 2, Killed}

\* The output is there, complete, and of invocation r.
Whole(f, r) == out[f].run = r /\ out[f].state = "whole"

\* The verdict a pipeline acts on: a scan that ends with 0 or 2 has delivered
\* every file it was asked for, and it ends with 2 just when a finding is as
\* severe as --fail-on says.
VerdictDelivered ==
    (pc = "exited" /\ run > 0 /\ args.command = "scan" /\ exit \in {0, 2}) =>
        /\ \A k \in DOMAIN Outputs(args.format) : Whole(Outputs(args.format)[k], run)
        /\ (exit = 2) = (<<args.fail_on, worst>> \in
               {<<"high", High>>, <<"high", Critical>>, <<"critical", Critical>>})

\* The dependency inventory is written last: when it is complete, so was
\* everything else its run wrote, and only a later run can have changed that.
InventorySeals ==
    out["sbom"].state = "whole" =>
        \A f \in {Outputs(out["sbom"].format)[k] : k \in DOMAIN Outputs(out["sbom"].format)} :
            Whole(f, out["sbom"].run) \/ out[f].run > out["sbom"].run

\* Only a scan writes, only the files of the format asked for and the two
\* inventories, and one file after the other: what a failed or killed run did
\* not reach is what an earlier run left.
WritesItsOwnInOrder ==
    [][\A f \in File : out'[f] # out[f] =>
         /\ args.command = "scan" /\ out'[f].run = run
         /\ \E k \in DOMAIN Outputs(args.format) :
              /\ f = Outputs(args.format)[k]
              /\ \A j \in 1..(k - 1) : Whole(Outputs(args.format)[j], run)]_cli_vars
=============================================================================
