----------------------------- MODULE ConfigParse -----------------------------
(***************************************************************************)
(* How one field of the configuration gets its value (util/conf/parse.go,  *)
(* util/cliflags/provider.go, the flags in cmd/).  koanf loads the         *)
(* environment and then the flags over it, given or not; no caller sets    *)
(* defaults, a file or a prefix.  Every field of config.Config and of the  *)
(* two application configs has a flag, and flags do not share a field, so  *)
(* one flag is looked at, any of them.                                     *)
(***************************************************************************)
EXTENDS TLC, FiniteSets

\* The flags, by where they are declared, and what is special about some.
DurationFlags == {"worker-stop-timeout", "worker-send-timeout"}
RootFlags == DurationFlags \cup
    {"log-level", "log-format", "auth-key", "interface", "command", "cwd", "arg", "env",
     "max-workers", "rpc-transport", "rpc-transport-ipc-endpoint",
     "rpc-transport-http-url", "rpc-transport-ws-url", "rpc-transport-tcp-address"}
ServeFlags == {"host", "port", "h2c"}
LambdaFlags == {"lambda-proxy-source"}
Flags == RootFlags \cup ServeFlags \cup LambdaFlags
Required == {"command"}

\* The flags whose variable is named like their field as well.
SameName == {"log-level", "log-format", "lambda-proxy-source"}

\* The fields of parseRootConfig; the other flags are named like their fields,
\* but for "_" instead of "-".
CliMap ==
    "auth-key" :> "auth.key" @@ "max-workers" :> "runtime.max_workers"
    @@ "command" :> "runtime.cmd" @@ "cwd" :> "runtime.cwd"
    @@ "arg" :> "runtime.arg" @@ "env" :> "runtime.env"
    @@ "interface" :> "runtime.io.interface"
    @@ "rpc-transport" :> "runtime.io.rpc.transport"
    @@ "rpc-transport-ipc-endpoint" :> "runtime.io.rpc.ipc.endpoint"
    @@ "rpc-transport-http-url" :> "runtime.io.rpc.http.url"
    @@ "rpc-transport-ws-url" :> "runtime.io.rpc.ws.url"
    @@ "rpc-transport-tcp-address" :> "runtime.io.rpc.tcp.address"
    @@ "worker-send-timeout" :> "runtime.send.timeout"
    @@ "worker-stop-timeout" :> "runtime.stop.timeout"

Field(f) == IF f \in DOMAIN CliMap THEN CliMap[f] ELSE f

\* transformFlag maps no two flags to one field.
ASSUME FieldsDistinct == \A f, g \in Flags : Field(f) = Field(g) => f = g

VARIABLES
    flag,       \* the flag that is looked at
    given,      \* where it is given: "cmdline", its "variable", "nested" variable
    k,          \* the field in koanf: where its value comes from
    loaded      \* what has been loaded: "nothing", "environment", "flags"

configVars == <<flag, given, k, loaded>>

Sources == {"cmdline", "variable", "nested"}

ConfigTypeOK ==
    /\ flag \in Flags
    /\ given \subseteq Sources
    /\ k \in Sources \cup {"default", "zero"}
    /\ loaded \in {"nothing", "environment", "flags"}

ConfigInit ==
    /\ flag \in Flags
    /\ given \in SUBSET Sources
    /\ flag \in Required => given \cap {"cmdline", "variable"} # {}
    /\ flag \in SameName => ("variable" \in given <=> "nested" \in given)
    /\ k = "zero"
    /\ loaded = "nothing"

\* urfave/cli fills a flag from the command line, else from its variable, else
\* with its default; but of a DurationFlag getFlagValue reads the field Value,
\* which holds the variable or the default.
FlagValue ==
    IF "cmdline" \in given /\ flag \notin DurationFlags THEN "cmdline"
    ELSE IF "variable" \in given THEN "variable" ELSE "default"

\* A variable named like the field, "__" for a dot.  What it gives does not stay:
\* each field has a flag, which is loaded after it.
LoadEnvironment ==
    /\ loaded = "nothing"
    /\ k' = IF "nested" \in given THEN "nested" ELSE k
    /\ loaded' = "environment"
    /\ UNCHANGED <<flag, given>>

\* Mutant of LoadFlags: what is loaded already is kept.
LoadMissingFlags ==
    /\ loaded = "environment"
    /\ k' = IF k = "nested" THEN k ELSE FlagValue
    /\ loaded' = "flags"
    /\ UNCHANGED <<flag, given>>

LoadFlags ==
    /\ loaded = "environment"
    /\ k' = FlagValue
    /\ loaded' = "flags"
    /\ UNCHANGED <<flag, given>>
=============================================================================
