------------------------------- MODULE Startup -------------------------------
(***************************************************************************)
(* main (src/main.cpp) from its first line to the construction of the      *)
(* listener: the arguments, the requests that end at once, the             *)
(* configuration file, the rules, the actions, and the creation of the     *)
(* shared memory object.  Composes ArgParser and Rules.  What follows is   *)
(* in Daemon; other invocations that come and go meanwhile are in          *)
(* SingletonLock, and here the object may be there or not.                 *)
(***************************************************************************)
EXTENDS ArgParser, Rules

ASSUME MainAssumption ==
    {"help", "version", "force-remove-semaphore", "reload", "benchmark-count",
     "manual-scanning", "action", "sub-action"} \subseteq Arguments

(* The requests are flags, and the action is the second positional         *)
(* argument, after the name of the program.                                *)
ASSUME RequestsAssumption ==
    /\ \A a \in {"help", "version", "force-remove-semaphore", "reload"} :
          a \notin Valued /\ \A i \in DOMAIN Positionals : Positionals[i] # a
    /\ 2 \in DOMAIN Positionals /\ Positionals[2] = "action"
    /\ Absent # True

VARIABLES pc,      \* where main is, or how it ended: "success", "failure", "aborted"
          root,    \* getuid() is 0
          object,  \* the shared memory object: "none", "other's" or "own"
          sent,    \* a reload message was written
          conf_file \* the configuration file: "none", "default" (main wrote it),
                    \* "good", or "bad" when its check_freq is no number

mainVars == <<pc, root, object, sent, conf_file>>
startupVars == <<parserVars, ruleVars, mainVars>>

Ends == {"success", "failure", "aborted"}

StartupInit == /\ ParserInit /\ RulesInit
               /\ pc = "parse"
               /\ root \in BOOLEAN
               /\ object \in {"none", "other's"}
               /\ sent = FALSE
               /\ conf_file \in {"none", "good", "bad"}
               /\ conf_file = "none" => enabled = Kinds

Moves(to) == /\ pc' = to
             /\ UNCHANGED root /\ UNCHANGED parserVars /\ UNCHANGED ruleVars

Goes(to) == Moves(to) /\ UNCHANGED conf_file

(* argument_value::operator bool                                           *)
Flag(a) == values[a] = True

Parse == /\ pc = "parse" /\ ParserNext
         /\ UNCHANGED ruleVars /\ UNCHANGED mainVars

(* The error, --help (or nothing but the name of the program), --version   *)
Refuse == /\ pc = "parse" /\ ~Parsing /\ return_result
          /\ Goes("failure") /\ UNCHANGED <<object, sent>>

Inform == /\ pc = "parse" /\ ~Parsing /\ ~return_result
          /\ Flag("help") \/ Len(params) < 2 \/ Flag("version")
          /\ Goes("success") /\ UNCHANGED <<object, sent>>

(* Mutant: a request is looked at before the error is.                     *)
MutRequested(a) == pc = "parse" /\ ~Parsing /\ Flag(a)

Requested(a) == /\ pc = "parse" /\ ~Parsing /\ ~return_result
                /\ ~Flag("help") /\ Len(params) >= 2 /\ ~Flag("version")
                /\ Flag(a)

(* shm_unlink: only root creates the object, and only root may remove it.  *)
ForceRemove == /\ Requested("force-remove-semaphore")
               /\ IF object # "none" /\ root
                  THEN Goes("success") /\ object' = "none"
                  ELSE Goes("failure") /\ UNCHANGED object
               /\ UNCHANGED sent

(* try_open, then try_write, whose failure (there may be no segment) is    *)
(* ignored                                                                 *)
Reload == /\ Requested("reload") /\ ~Flag("force-remove-semaphore")
          /\ IF object = "none" THEN Goes("failure") /\ UNCHANGED sent
                                ELSE Goes("success") /\ sent' \in BOOLEAN
          /\ UNCHANGED object

(* Nobody catches the exceptions of stoull and of stoul (check_freq).      *)
CountThrows == values["benchmark-count"] \notin {Absent, Word("1")}
FreqThrows == Flag("manual-scanning") /\ conf_file = "bad"

(* Config::Config: a file that is missing is written, with the defaults,   *)
(* if its directory lets it be.  The options come after it.                *)
ReadOptions == /\ pc = "parse" /\ ~Parsing /\ ~return_result
               /\ ~Flag("help") /\ Len(params) >= 2 /\ ~Flag("version")
               /\ ~Flag("force-remove-semaphore") /\ ~Flag("reload")
               /\ conf_file' \in {conf_file} \cup IF conf_file = "none" THEN {"default"} ELSE {}
               /\ Moves(IF CountThrows \/ FreqThrows THEN "aborted" ELSE "rules")
               /\ UNCHANGED <<object, sent>>

LoadRules == /\ pc = "rules" /\ RulesNext
             /\ UNCHANGED parserVars /\ UNCHANGED mainVars

Action(w) == values["action"] = Word(w)
SubActions == {Word(w) : w \in {"rules", "types", "cgroups", "proc", "autogroup"}}

NoAction == /\ pc = "rules" /\ ~Loading
            /\ values["action"] = Absent
            /\ Goes("failure") /\ UNCHANGED <<object, sent>>

Dump == /\ pc = "rules" /\ ~Loading /\ Action("dump")
        /\ Goes(IF values["sub-action"] = Word("rules") /\ GetRuleThrows THEN "aborted"
                ELSE IF values["sub-action"] \in SubActions THEN "success"
                ELSE "failure")
        /\ UNCHANGED <<object, sent>>

Debug == /\ pc = "rules" /\ ~Loading /\ Action("debug")
         /\ Goes(IF values["sub-action"] = Absent THEN "failure" ELSE "success")
         /\ UNCHANGED <<object, sent>>

(* "start", and any other action: "Unknown action requested" is only said. *)
(* Then the privilege.                                                     *)
Proceed == /\ pc = "rules" /\ ~Loading
           /\ values["action"] # Absent /\ ~Action("dump") /\ ~Action("debug")
           /\ Goes(IF root THEN "create" ELSE "failure")
           /\ UNCHANGED <<object, sent>>

TryCreate == /\ pc = "create"
             /\ IF object = "none" THEN Goes("created") /\ object' = "own"
                                   ELSE Goes("failure") /\ UNCHANGED object
             /\ UNCHANGED sent

CreateCgroups == /\ pc = "created"
                 /\ Goes(IF CreateCgroupsThrows THEN "aborted" ELSE "listener")
                 /\ UNCHANGED <<object, sent>>

(* Main has ended, or goes on in Daemon.                                   *)
Ended == pc \in Ends \cup {"listener"} /\ UNCHANGED startupVars

StartupNext == \/ Parse \/ Refuse \/ Inform \/ ForceRemove \/ Reload \/ ReadOptions
               \/ LoadRules \/ NoAction \/ Dump \/ Debug \/ Proceed
               \/ TryCreate \/ CreateCgroups
               \/ Ended

StartupSpec == StartupInit /\ [][StartupNext]_startupVars

-----------------------------------------------------------------------------

(* Every variable keeps its type.                                          *)
StartupTypeOK ==
    /\ params \in Argvs /\ at \in 1..(Len(params) + 1)
    /\ DOMAIN values = Arguments
    /\ Len(positional_args) <= Len(Positionals)
    /\ return_result \in BOOLEAN
    /\ files \in Directories /\ unloaded \subseteq DOMAIN files
    /\ enabled \subseteq Kinds
    /\ pc \in Ends \cup {"parse", "rules", "create", "created", "listener"}
    /\ root \in BOOLEAN /\ object \in {"none", "other's", "own"} /\ sent \in BOOLEAN
    /\ conf_file \in {"none", "default", "good", "bad"}

(* What the command line asks for, read without the parser.                *)
Asked(a) == Mentions(a) # {}
ActionAsked == Given(2)

(* An invocation touches the daemon that runs, or becomes one, only if its *)
(* command line says so: it creates the object only as root, when there is *)
(* none and an action is asked for that is neither a dump nor a debugging  *)
(* aid; it removes one only as root and for --force-remove-semaphore, and  *)
(* sends a reload only for --reload and to an object that is there.  The   *)
(* configuration file is only ever written when there is none, and not by  *)
(* a request.  One with an error in its arguments, or that asks for help,  *)
(* has no effect at all.                                                   *)
Effects ==
    /\ object' # object =>
         \/ /\ object = "none" /\ object' = "own" /\ root
            /\ ~Asked("reload") /\ ~Asked("force-remove-semaphore")
            /\ ActionAsked \notin {Absent, Word("dump"), Word("debug")}
         \/ /\ object = "other's" /\ object' = "none"
            /\ root /\ Asked("force-remove-semaphore")
    /\ sent' # sent => object # "none" /\ Asked("reload")
                      /\ ~Asked("force-remove-semaphore")
    /\ conf_file' # conf_file => conf_file = "none" /\ ~Asked("reload")
                                /\ ~Asked("force-remove-semaphore")
    /\ object' # object \/ sent' # sent \/ conf_file' # conf_file
         => ~return_result /\ ~Asked("help") /\ ~Asked("version")

(* No step of main (main.cpp:96-228) has another effect.                   *)
EffectsAsAsked == [][Effects]_startupVars
=============================================================================
