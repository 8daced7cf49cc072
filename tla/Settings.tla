------------------------------ MODULE Settings ------------------------------
(***************************************************************************)
(* How one option of the configuration gets its value: ParseConfig of      *)
(* internal/config/config.go, step by step, and what App.New, the health   *)
(* check and the status tracker require of it.  Without -fg, ParseConfig   *)
(* runs twice: the process that was started hands its environment to the   *)
(* daemon, which begins again.                                             *)
(*                                                                         *)
(* A source says nothing about the option, or it names it with a text that *)
(* is empty, that does not parse ("junk"), that parses to a number of      *)
(* which the program cannot make use ("low", and "zero" where the help     *)
(* gives 0 a meaning), or that is as it should be: "good", or the word for *)
(* a boolean.                                                              *)
(***************************************************************************)
EXTENDS Naturals

VARIABLES
    option,     \* the option that is looked at
    flagText,   \* what the command line says, if it names the option
    cfText,     \* the same of -cf, the other name of -cloudflared
    envText,    \* what the environment says when the program is started
    fileText,   \* what the .env file says
    process,    \* "foreground" (-fg), "parent", or its "child", the daemon
    environ,    \* what os.Getenv says, and who has set it
    default,    \* the default of the flag, as far as it is known
    value,      \* the field of cfg
    step        \* the next step of ParseConfig

sources == <<option, flagText, cfText, envText, fileText>>
settings == <<sources, process, environ, default, value, step>>

Words == {"true", "false"}
Texts == {"unset", "empty", "junk", "low", "zero", "good"} \cup Words
Origins == {"flag", "environment", "file", "program"}
Found == [from : Origins, is : Texts]

(* Options that differ in nothing but their name are represented by one.   *)
Names == {"BIND_ADDR", "KEY_FILE"}
Choices == {"SELECT_STRATEGY", "MODE"}
Numbers == {"MAX_ACTIVE_UPSTREAMS", "TARGET_RETRY_UPSTREAMS", "TARGET_FAIL_THRESHOLD",
            "MAX_CONNECTIONS", "STATUS_FLUSH_SEC", "TARGET_PORT"}
Durations == {"TARGET_FAIL_TTL", "HEALTH_INTERVAL"}
Booleans == {"STATUS_LOG", "CLOUDFLARED", "SHOW_UPSTREAM_STATS"}
Options == Names \cup Choices \cup Numbers \cup Durations \cup Booleans

(* Their defaults are taken before the .env file is read.                  *)
ReadEarly == {"CLOUDFLARED", "SHOW_UPSTREAM_STATS"}

(* Their variables are never read.                                         *)
FlagOnly == Durations

(* What a text can be for an option: every text is a name.  The words of a *)
(* boolean are those that the flag and the variable read alike.            *)
TextsOf(o) ==
    CASE o \in Names -> {"unset", "empty", "good"}
      [] o \in Choices -> {"unset", "empty", "junk", "good"}
      [] o \in Booleans -> {"unset", "empty", "junk"} \cup Words
      [] o = "MAX_CONNECTIONS" -> Texts \ Words
      [] OTHER -> Texts \ (Words \cup {"zero"})

(* The value without any source.                                           *)
BuiltIn ==
    [from |-> "program",
     is |-> IF option \notin Booleans THEN "good"
            ELSE IF option = "STATUS_LOG" THEN "true" ELSE "false"]
Unset == [from |-> "program", is |-> "unset"]

SettingsInit ==
    /\ option \in Options
    /\ flagText \in TextsOf(option)
    /\ cfText \in IF option = "CLOUDFLARED" THEN TextsOf(option) ELSE {"unset"}
    /\ fileText \in TextsOf(option)
    /\ envText \in TextsOf(option)
    /\ process \in {"foreground", "parent"}
    /\ environ = [from |-> "environment", is |-> envText]
    /\ default = BuiltIn
    /\ value = Unset
    /\ step = "early"

-----------------------------------------------------------------------------
(* getEnv, getEnvInt and getEnvBool; any text but "true" is a false.       *)
GetEnv(o, otherwise) ==
    IF environ.is \in {"unset", "empty"} THEN otherwise
    ELSE IF environ.is = "junk" /\ o \in Numbers THEN otherwise
    ELSE IF environ.is = "junk" /\ o \in Booleans THEN [environ EXCEPT !.is = "false"]
    ELSE environ

Goto(from, to) == step = from /\ step' = to

EarlyDefaults ==
    /\ Goto("early", "load")
    /\ default' = IF option \in ReadEarly THEN GetEnv(option, BuiltIn) ELSE default
    /\ UNCHANGED <<sources, process, environ, value>>

(* Mutant: the file replaces what the environment says.                    *)
LoadEnvFileOverwrites ==
    /\ Goto("load", "define")
    /\ environ' = IF fileText # "unset" THEN [from |-> "file", is |-> fileText] ELSE environ
    /\ UNCHANGED <<sources, process, default, value>>

(* godotenv.Load leaves a variable alone that exists, an empty one too.    *)
LoadEnvFile ==
    /\ Goto("load", "define")
    /\ environ' = IF environ.is = "unset" /\ fileText # "unset"
                  THEN [from |-> "file", is |-> fileText] ELSE environ
    /\ UNCHANGED <<sources, process, default, value>>

DefineFlags ==
    /\ Goto("define", "parse")
    /\ default' = IF option \in ReadEarly \cup FlagOnly THEN default
                  ELSE GetEnv(option, BuiltIn)
    /\ UNCHANGED <<sources, process, environ, value>>

(* What a flag is worth after flag.Parse.                                  *)
Said(text) == IF text = "unset" THEN default ELSE [from |-> "flag", is |-> text]

(* Mutant: -cf is not looked at.                                           *)
EitherLast(a, b) == b

(* cloudflaredShort || cloudflaredLong                                     *)
Either(a, b) == IF a.is = "true" THEN a ELSE b

(* A flag that does not parse as its type ends the program.                *)
ParseFlags ==
    /\ UNCHANGED <<sources, process, environ, default>>
    /\ IF {flagText, cfText} \cap {"empty", "junk"} # {} /\ option \notin Names \cup Choices
       THEN Goto("parse", "exit") /\ UNCHANGED value
       ELSE /\ Goto("parse", "validate")
            /\ value' = IF option = "CLOUDFLARED" THEN Either(Said(cfText), Said(flagText))
                        ELSE Said(flagText)

(* Mutant: a choice that is not one of the choices is let through.         *)
ValidateNumbers ==
    /\ UNCHANGED <<sources, process, environ, default>>
    /\ Goto("validate", "override")
    /\ value' = IF value.is = "low" /\ option \in {"MAX_ACTIVE_UPSTREAMS",
                      "TARGET_RETRY_UPSTREAMS", "TARGET_FAIL_THRESHOLD", "TARGET_FAIL_TTL"}
                THEN BuiltIn ELSE value

(* validateStrategy and validateMode, and the numbers that are replaced.   *)
Validate ==
    /\ UNCHANGED <<sources, process, environ, default>>
    /\ IF option \in Choices /\ value.is = "junk"
       THEN Goto("validate", "exit") /\ UNCHANGED value
       ELSE /\ Goto("validate", "override")
            /\ value' =
                 IF option \in Choices /\ value.is = "empty" THEN BuiltIn
                 ELSE IF value.is = "low" /\ option \in {"MAX_ACTIVE_UPSTREAMS",
                      "TARGET_RETRY_UPSTREAMS", "TARGET_FAIL_THRESHOLD", "TARGET_FAIL_TTL"}
                 THEN BuiltIn ELSE value

(* TARGET_PORT alone is read once more, the value being its default.       *)
Override ==
    /\ Goto("override", "use")
    /\ value' = IF option = "TARGET_PORT" THEN GetEnv(option, value) ELSE value
    /\ UNCHANGED <<sources, process, environ, default>>

(* Mutant: the daemon gets the environment the parent was started with.    *)
DaemonizeClean ==
    /\ Goto("use", "early")
    /\ process = "parent" /\ process' = "child"
    /\ environ' = [from |-> "environment", is |-> envText]
    /\ default' = BuiltIn /\ value' = Unset
    /\ UNCHANGED sources

(* The parent starts the daemon with its own command line and os.Environ(),*)
(* in which godotenv.Load has put what the .env file says, and ends.       *)
Daemonize ==
    /\ Goto("use", "early")
    /\ process = "parent" /\ process' = "child"
    /\ default' = BuiltIn /\ value' = Unset
    /\ UNCHANGED <<sources, environ>>

(* App.New and NewServerStatusTracker have defaults of their own; a ticker *)
(* without a positive interval panics, in the goroutine of the health      *)
(* check.                                                                  *)
Use ==
    /\ process # "parent"
    /\ UNCHANGED <<sources, process, environ, default>>
    /\ IF option = "HEALTH_INTERVAL" /\ value.is = "low"
       THEN Goto("use", "panic") /\ UNCHANGED value
       ELSE /\ Goto("use", "ready")
            /\ value' = IF /\ value.is \in {"low", "zero"}
                           /\ option \in {"MAX_CONNECTIONS", "STATUS_FLUSH_SEC"}
                        THEN BuiltIn ELSE value

SettingsNext == EarlyDefaults \/ LoadEnvFile \/ DefineFlags \/ ParseFlags \/ Validate
                \/ Override \/ Daemonize \/ Use

-----------------------------------------------------------------------------
(* Properties *)

SettingsTypeOK ==
    /\ option \in Options
    /\ {flagText, cfText, envText, fileText} \subseteq Texts
    /\ process \in {"foreground", "parent", "child"}
    /\ {environ, default, value} \subseteq Found
    /\ step \in {"early", "load", "define", "parse", "validate", "override", "use",
                 "ready", "exit", "panic"}

Ready == step = "ready"
Usable(text) == text \in {"good"} \cup Words

(* Whatever the sources say, the program runs with values that the other   *)
(* modules assume: a strategy and a mode there are, at least one upstream, *)
(* failure and connection (RoundRobin's PoolAssumption), a time to block.  *)
(* Nobody looks at the port, and -health-interval 0 is found out too late. *)
(* Usable is not always what was asked for: 0 connections, "unlimited" in  *)
(* the help of the flag (config.go:104), are the built-in limit of 100     *)
(* (app.go:31-33).                                                         *)
ValuesUsable ==
    /\ Ready /\ option \notin Names \cup {"TARGET_PORT"} => Usable(value.is)
    /\ Ready /\ option = "MAX_CONNECTIONS" /\ flagText = "zero" => value = BuiltIn
    /\ step = "panic" => option = "HEALTH_INTERVAL"

(* Which source is in force.  The command line has the last word, but for  *)
(* TARGET_PORT, of which a variable that holds a number beats the flag.    *)
(* What .env sets counts where nobody else says anything, an empty         *)
(* variable of the environment included, never for an option whose         *)
(* variable is not read, and for one whose default is taken before the     *)
(* file is read only in the daemon, which finds it in the environment its  *)
(* parent left it.                                                         *)
OneFlagRanked ==
    /\ Usable(flagText) => \/ value.from = "flag"
                           \/ option = "TARGET_PORT" /\ environ.is \in {"low", "good"}
    /\ Usable(fileText) =>
          (value.from = "file" <=> /\ option \notin FlagOnly
                                   /\ option \in ReadEarly => process = "child"
                                   /\ envText = "unset"
                                   /\ flagText = "unset" \/ option = "TARGET_PORT")

(* Of the two flags for Cloudflare one that says true is enough: a false   *)
(* of the other does not undo it, nor does -cf=false alone undo the        *)
(* default, which each of them has by itself.                              *)
CloudflaredDefault ==
    envText = "true" \/ (envText = "unset" /\ fileText = "true" /\ process = "child")
EitherFlagCounts ==
    value.is = "true" <=> \/ "true" \in {flagText, cfText}
                          \/ "unset" \in {flagText, cfText} /\ CloudflaredDefault

SourcesRanked ==
    Ready => IF option = "CLOUDFLARED" THEN EitherFlagCounts ELSE OneFlagRanked
=============================================================================
