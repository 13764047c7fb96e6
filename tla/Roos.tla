-------------------------------- MODULE Roos --------------------------------
(***************************************************************************)
(* A process of the system: the `roos` command (roos-cli: main.rs and      *)
(* cmd/) with its subcommands new, run, list and serve, or an application  *)
(* that uses the crates: "agent" runs ReasoningLoop with tools, "server"   *)
(* a TriggerServer with its own token and webhook secret.                  *)
(***************************************************************************)
EXTENDS Config, AgentRun, Serve

CONSTANTS
    Commands,       \* what the process is started as
    AgentProviders, \* providers an application may choose
    AgentTools,     \* tools an application may register
    DefaultSteps    \* max_steps of an input that has none: 10 in the code

ASSUME DefaultStepsAssumption == DefaultSteps \in Limits
ASSUME AgentProvidersAssumption == AgentProviders \subseteq DOMAIN Apis
ASSUME AgentToolsAssumption == AgentTools \subseteq DOMAIN ToolOutcomes

\* `roos run` runs its agent once.
ASSUME OneRunAssumption == "run" \in Commands => \A q, r \in Runs : q = r

VARIABLES
    command,    \* what the process was started as
    exit,       \* how new, run and list ended
    files,      \* files[f]: the state of a part of a project of that name
    made        \* how many parts `new` has made

processVars == <<command, exit, files, made>>
roosVars == <<configVars, agentVars, triggerVars, serveVars, processVars>>

\* The parts of a project in the order in which scaffold makes them.
Parts == <<"dir", "roos.toml", "agent.rs", "gitignore">>
NoFiles == [f \in ToSet(Parts) |-> "absent"]

\* The name is free, taken by a directory of somebody else's, or by a project.
FilesBefore ==
    {NoFiles, [NoFiles EXCEPT !["dir"] = "theirs"], [f \in ToSet(Parts) |-> "theirs"]}

RoosInit ==
    /\ ConfigInit /\ AgentInit /\ TriggerInit /\ ServeInit
    /\ \A r \in Runs : limit[r] = DefaultSteps
    /\ command \in Commands
    /\ exit = "running"
    /\ files \in FilesBefore
    /\ command # "new" => files = NoFiles
    /\ made = 0

Exits(how) == exit' = how

-----------------------------------------------------------------------------
(* roos new *)

IsTaken == files["dir"] # "absent"

\* One of scaffold's calls: a part is made, or an error is returned and what was made so
\* far, and a file that was only opened, stays.
NewStep ==
    /\ command = "new" /\ exit = "running"
    /\ \/ /\ made = 0 /\ IsTaken
          /\ Exits("error")
          /\ UNCHANGED <<files, made>>
       \/ /\ made < Len(Parts)
          /\ made = 0 => ~ IsTaken
          /\ \/ /\ files' = [files EXCEPT ![Parts[made + 1]] = "whole"]
                /\ made' = made + 1
                /\ UNCHANGED exit
             \/ /\ \/ UNCHANGED files
                   \/ files' = [files EXCEPT ![Parts[made + 1]] = "cut"]
                /\ Exits("error")
                /\ UNCHANGED made
       \/ /\ made = Len(Parts)
          /\ Exits("ok")
          /\ UNCHANGED <<files, made>>
    /\ UNCHANGED <<configVars, agentVars, triggerVars, serveVars, command>>

-----------------------------------------------------------------------------
(* The commands that read roos.toml *)

ConfigStep ==
    /\ command \in {"run", "list", "serve"} /\ exit = "running"
    /\ LoadConfig
    /\ UNCHANGED <<agentVars, triggerVars, serveVars, processVars>>

ConfigRefused ==
    /\ exit = "running"
    /\ loaded.kind \in ConfigErrors
    /\ Exits("error")
    /\ UNCHANGED <<configVars, agentVars, triggerVars, serveVars,
                   command, files, made>>

\* The one agent of the file is printed.
ListStep ==
    /\ command = "list" /\ exit = "running"
    /\ loaded.kind = "Ok"
    /\ Exits("ok")
    /\ UNCHANGED <<configVars, agentVars, triggerVars, serveVars,
                   command, files, made>>

-----------------------------------------------------------------------------
(* roos run, and an application's agent *)

\* `run` knows two providers and registers no tools.
RunKnows == {"anthropic", "openai"}

RunSetup ==
    /\ command = "run" /\ loaded.kind = "Ok" /\ exit = "running"
    /\ provider = "none"
    /\ IF config \in RunKnows
       THEN /\ provider' = config /\ system' \in BOOLEAN
            /\ UNCHANGED <<tools, exit>>
       ELSE Exits("error") /\ UNCHANGED setupVars
    /\ UNCHANGED <<configVars, vars, wireVars, triggerVars, serveVars,
                   command, files, made>>

AgentSetup ==
    /\ command = "agent"
    /\ provider = "none"
    /\ provider' \in AgentProviders /\ system' \in BOOLEAN /\ tools' = AgentTools
    /\ UNCHANGED <<configVars, vars, wireVars, triggerVars, serveVars, processVars>>

AgentMoves(r) ==
    /\ provider # "none" /\ exit = "running"
    /\ \/ OwnStep(r)
       \/ Begin(r) /\ UNCHANGED <<setupVars, wireVars>>
    /\ UNCHANGED <<configVars, triggerVars, serveVars, processVars>>

AgentAnswered(r) ==
    /\ provider # "none" /\ exit = "running"
    /\ ServiceAnswers(r)
    /\ UNCHANGED <<configVars, triggerVars, serveVars, processVars>>

AgentDropped(r) ==
    /\ command = "agent"
    /\ Drop(r)
    /\ UNCHANGED <<configVars, triggerVars, serveVars, processVars>>

ExitOfAlwaysOk(r) == "ok"
ExitOf(r) ==
    IF panicked[r] THEN "panicked"
    ELSE IF output[r].kind = "Ok" THEN "ok" ELSE "error"

RunEnds(r) ==
    /\ command = "run" /\ exit = "running"
    /\ pc[r] = "returned"
    /\ Exits(ExitOf(r))
    /\ UNCHANGED <<configVars, agentVars, triggerVars, serveVars,
                   command, files, made>>

-----------------------------------------------------------------------------
(* roos serve, and an application's server *)

ServeOpens ==
    /\ command = "serve" /\ loaded.kind = "Ok"
    /\ Open
    /\ UNCHANGED <<configVars, agentVars, processVars>>

Serves ==
    /\ ServeStep
    /\ UNCHANGED <<configVars, agentVars, processVars>>

ServerSetup ==
    /\ command = "server"
    /\ Configure
    /\ UNCHANGED <<configVars, agentVars, serveVars, processVars>>

ServerGoes ==
    /\ command = "server"
    /\ TriggerNext
    /\ UNCHANGED <<configVars, agentVars, serveVars, processVars>>

-----------------------------------------------------------------------------

CommandStep ==
    \/ NewStep
    \/ ConfigStep \/ ConfigRefused \/ ListStep
    \/ RunSetup \/ \E r \in Runs : RunEnds(r)
    \/ command = "run" /\ \E r \in Runs : AgentMoves(r)
    \/ ServeOpens

RoosNext ==
    \/ CommandStep
    \/ AgentSetup
    \/ command = "agent" /\ \E r \in Runs : AgentMoves(r) \/ AgentDropped(r)
    \/ \E r \in Runs : AgentAnswered(r)
    \/ Serves
    \/ ServerSetup \/ ServerGoes

\* What the process does by itself it does sooner or later.
CommandFairness == WF_roosVars(CommandStep)

\* An assumption on the LLM service, which nothing in the code enforces: each provider is
\* a reqwest::Client::new() (openai.rs:109, anthropic.rs:92, cohere.rs:108), which waits
\* for an answer without a limit.
ServiceFairness == WF_roosVars(\E r \in Runs : AgentAnswered(r))

RoosSpec ==
    /\ RoosInit /\ [][RoosNext]_roosVars
    /\ CommandFairness /\ ServiceFairness
    /\ ServeFairness

-----------------------------------------------------------------------------
(* Properties *)

\* The exit status tells the truth (main.rs:48-61): a project that was made is whole, a
\* name that was taken is left as it was found, and a command that succeeded has read its
\* configuration; a run that succeeded ended with an answer that its memory holds.
OkMeansDone ==
    /\ \A f \in ToSet(Parts) : files[f] = "theirs" => files["dir"] = "theirs" /\ made = 0
    /\ files["dir"] = "theirs" => made = 0 /\ exit # "ok"
    /\ command = "new" /\ exit = "ok" => \A f \in ToSet(Parts) : files[f] = "whole"
    /\ command \in {"run", "list"} /\ exit = "ok" => loaded.kind = "Ok"
    /\ command = "run" /\ exit = "ok" => \A r \in Runs :
          /\ output[r].kind = "Ok" /\ failure[r] = "none"
          /\ \E k \in DOMAIN store[id[r]] : store[id[r]][k].run = r

\* new and list come to an end, and run does if the service answers it
\* (new.rs:6-21, list.rs:30-45, run.rs:10-49).
CommandEnds ==
    (command \in {"new", "list", "run"}) ~> exit # "running"

=============================================================================
