---------------------------- MODULE BuiltinTools ----------------------------
(***************************************************************************)
(* roos-tools: the tools that come with ROOS, as far as a run can tell     *)
(* them apart: whether they change the world outside, whether they can be  *)
(* interrupted, and how they end.                                          *)
(***************************************************************************)

Outcome(effect, ok) == [effect |-> effect, ok |-> ok]

\* Reading tools leave the world as it is, whatever they answer.
Looks == {Outcome(FALSE, TRUE), Outcome(FALSE, FALSE)}

ReadFile == Looks
ListDirectory == Looks
HttpGet == Looks
SearchWeb == Looks

\* fs::write may fail before or after it has truncated the file.
WriteFile == {Outcome(TRUE, TRUE), Outcome(FALSE, FALSE), Outcome(TRUE, FALSE)}

\* A command that was started is Ok, whatever its exit status; one that the allowlist
\* lacks, or for which no shell starts, is not run.
ExecuteShell == {Outcome(TRUE, TRUE), Outcome(FALSE, FALSE)}

\* A POST may have arrived although its answer is lost; an answer is Ok, whatever its
\* HTTP status.
HttpPost == {Outcome(TRUE, TRUE), Outcome(FALSE, FALSE), Outcome(TRUE, FALSE)}

ToolOutcomes ==
    [read_file |-> ReadFile, write_file |-> WriteFile, list_directory |-> ListDirectory,
     execute_shell |-> ExecuteShell, http_get |-> HttpGet, http_post |-> HttpPost,
     search_web |-> SearchWeb]

\* The file and shell tools do their work in one poll of their future; only those that
\* wait for the network can be dropped half-way.
Interruptible(tool) == tool \in {"http_get", "http_post", "search_web"}

\* The schema of each tool asks for an object with its fields: null does not fit.
Fits(input) == input = "fits"

=============================================================================
