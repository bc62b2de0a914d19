------------------------------- MODULE Config -------------------------------
(***************************************************************************)
(* The settings of a process (parseFlags of cmd/gomock/main.go, and        *)
(* internal/app/config_file.go and config.go).  The arguments are read     *)
(* twice: configPathFromArgs looks for the config file, which is loaded    *)
(* over the defaults, and then the flag package parses all of them over    *)
(* the result.  The scan knows -config and "--", the parser every flag.    *)
(*                                                                         *)
(* An argument is its text, the flag it is when it stands where a flag     *)
(* may, and the value after its "=".  Names that Lifecycle has too begin   *)
(* with a C.                                                               *)
(***************************************************************************)
EXTENDS Integers, Sequences, FiniteSets

CONSTANTS
    Args,       \* bound: the arguments there may be
    MaxArgs,    \* bound: arguments of a command line
    Texts,      \* the values a setting may be given
    Nil,        \* no flag, no value, no file
    Kind,       \* Kind[f]: "bool", "int" or "string", for each flag f
    Default,    \* DefaultConfig
    Numbers,    \* the texts strconv.Atoi accepts
    Files,      \* Files[p]: the settings in the config file p, if it decodes
    Legal,      \* Legal[s]: the values Validate accepts of s, if not all
    Readable    \* the files that can be opened

Empty == ""     \* the zero value of a string

Settings == DOMAIN Default
Booleans == {"true", "false"}

ASSUME ConfigAssumption ==
    /\ \A a \in Args : /\ DOMAIN a = {"text", "flag", "value"}
                       /\ a.text \in Texts /\ a.value \in Texts \cup {Nil}
                       /\ a.flag = Nil => a.value = Nil
                       /\ a.text = "--" => a.flag = Nil
    /\ MaxArgs \in Nat
    /\ {Empty, "--", "true", "false"} \subseteq Texts
    /\ Nil \notin Texts \cup {"serve", "version", "usage"}
    /\ Settings \cup {"config", "version"} = DOMAIN Kind
    /\ {"config", "version"} \cap Settings = {}
    /\ Kind["config"] = "string" /\ Kind["version"] = "bool"
    /\ \A f \in DOMAIN Kind : Kind[f] \in {"bool", "int", "string"}
    /\ Default \in [Settings -> Texts]
    /\ Numbers \subseteq Texts
    /\ DOMAIN Files \subseteq Texts \ {Empty}
    /\ \A p \in DOMAIN Files : /\ DOMAIN Files[p] \subseteq Settings
                               /\ \A s \in DOMAIN Files[p] : Files[p][s] \in Texts
    /\ {"tls", "tls-cert-file", "tls-key-file"} \subseteq Settings
    /\ DOMAIN Legal \subseteq Settings

VARIABLES
    args,       \* os.Args[1:]
    pc,         \* "scan", "load", "parse", "validate", "end"
    at,         \* the index of the next argument
    path,       \* configPath
    config,     \* the settings so far
    flags,      \* the flags the parser has set, with their last value
    taken,      \* the indices the parser took as the value of a flag
    outcome     \* Nil before the end; "serve", "version" or "usage"

cvars == <<args, pc, at, path, config, flags, taken, outcome>>

CInit ==
    /\ args \in UNION {[1 .. n -> Args] : n \in 0 .. MaxArgs}
    /\ pc = "scan"
    /\ at = 1
    /\ path = Empty
    /\ config = Default
    /\ flags = [f \in {} |-> Empty]
    /\ taken = {}
    /\ outcome = Nil

End(how) == pc' = "end" /\ outcome' = how

(***************************************************************************)
(* configPathFromArgs                                                      *)
(***************************************************************************)
ArgsEnded == IF at > Len(args) THEN TRUE ELSE args[at].text = "--"

ScanEnds ==
    /\ pc = "scan" /\ ArgsEnded
    /\ pc' = "load"
    /\ UNCHANGED <<args, at, path, config, flags, taken, outcome>>

Scanning == pc = "scan" /\ ~ArgsEnded /\ UNCHANGED <<args, config, flags, taken>>

\* Fault: the first path counts.
ScanInlineFirst ==
    /\ Scanning /\ args[at].flag = "config" /\ args[at].value # Nil
    /\ path' = IF path = Empty THEN args[at].value ELSE path
    /\ at' = at + 1
    /\ UNCHANGED <<pc, outcome>>

\* inlineConfigPath
ScanInline ==
    /\ Scanning /\ args[at].flag = "config" /\ args[at].value # Nil
    /\ path' = args[at].value
    /\ at' = at + 1
    /\ UNCHANGED <<pc, outcome>>

\* isConfigFlag
ScanFlag ==
    /\ Scanning /\ args[at].flag = "config" /\ args[at].value = Nil
    /\ IF at = Len(args)
       THEN End("usage") /\ UNCHANGED <<at, path>>
       ELSE path' = args[at + 1].text /\ at' = at + 2 /\ UNCHANGED <<pc, outcome>>

ScanOther ==
    /\ Scanning /\ args[at].flag # "config"
    /\ at' = at + 1
    /\ UNCHANGED <<pc, path, outcome>>

(***************************************************************************)
(* loadOptionalConfig                                                      *)
(***************************************************************************)
\* Fault: a value that is empty, or false, does not override.
applyNonZero(base, raw) ==
    [s \in Settings |-> IF s \in DOMAIN raw /\ raw[s] \notin {Empty, "false", "0"}
                        THEN raw[s] ELSE base[s]]

\* applyRawConfig: what the file mentions, whatever its value.
applyRawConfig(base, raw) ==
    [s \in Settings |-> IF s \in DOMAIN raw THEN raw[s] ELSE base[s]]

Load ==
    /\ pc = "load"
    /\ at' = 1
    /\ \/ /\ path = Empty
          /\ pc' = "parse"
          /\ UNCHANGED <<config, outcome>>
       \/ /\ path \in DOMAIN Files
          /\ config' = applyRawConfig(config, Files[path])
          /\ pc' = "parse"
          /\ UNCHANGED outcome
       \/ /\ path \notin DOMAIN Files \cup {Empty}
          /\ End("usage")
          /\ UNCHANGED config
    /\ UNCHANGED <<args, path, flags, taken>>

(***************************************************************************)
(* flags.Parse, of the standard library                                    *)
(***************************************************************************)
\* The first argument that is no flag, or "--", ends the flags.
AtFlag == IF at > Len(args) THEN FALSE ELSE args[at].flag # Nil

ParseEnds ==
    /\ pc = "parse" /\ ~AtFlag
    /\ pc' = "validate"
    /\ UNCHANGED <<args, at, path, config, flags, taken, outcome>>

Parsing == pc = "parse" /\ AtFlag

Bool(f) == Kind[f] = "bool"

Understood(f, value) ==
    CASE Kind[f] = "bool" -> value \in Booleans
      [] Kind[f] = "int"  -> value \in Numbers
      [] OTHER            -> TRUE

\* The flag at the next index has a value of its own, needs none, or is
\* followed by an argument, which is taken whatever it looks like.
OwnValue == args[at].value # Nil \/ Bool(args[at].flag)

ValueHere ==
    IF args[at].value # Nil THEN args[at].value
    ELSE IF Bool(args[at].flag) THEN "true"
    ELSE args[at + 1].text

Parsable ==
    /\ args[at].flag \in DOMAIN Kind
    /\ OwnValue \/ at < Len(args)
    /\ Understood(args[at].flag, ValueHere)

\* The variable of the flag is one of config, or another.
ParseFlag ==
    /\ Parsing /\ Parsable
    /\ LET f == args[at].flag IN
       /\ config' = IF f \in Settings THEN [config EXCEPT ![f] = ValueHere] ELSE config
       /\ flags' = [g \in DOMAIN flags \cup {f} |-> IF g = f THEN ValueHere ELSE flags[g]]
    /\ at' = IF OwnValue THEN at + 1 ELSE at + 2
    /\ taken' = IF OwnValue THEN taken ELSE taken \cup {at + 1}
    /\ UNCHANGED <<args, pc, path, outcome>>

\* An unknown flag, a value that is missing or not understood.
ParseFails ==
    /\ Parsing /\ ~Parsable
    /\ End("usage")
    /\ UNCHANGED <<args, at, path, config, flags, taken>>

(***************************************************************************)
(* run                                                                     *)
(***************************************************************************)
ShowVersion == "version" \in DOMAIN flags /\ flags["version"] = "true"

\* Config.Validate returns nil: every range by itself, and the certificate
\* and its key when TLS is on.
Valid(c) ==
    /\ \A s \in DOMAIN Legal : c[s] \in Legal[s]
    /\ c["tls"] = "true" => {c["tls-cert-file"], c["tls-key-file"]} \subseteq Readable

Validate ==
    /\ pc = "validate"
    /\ End(CASE ShowVersion   -> "version"
             [] Valid(config) -> "serve"
             [] OTHER         -> "usage")
    /\ UNCHANGED <<args, at, path, config, flags, taken>>

CNext ==
    \/ ScanEnds \/ ScanInline \/ ScanFlag \/ ScanOther
    \/ Load
    \/ ParseEnds \/ ParseFlag \/ ParseFails
    \/ Validate

CSpec == CInit /\ [][CNext]_cvars

(***************************************************************************)
(* Properties                                                              *)
(***************************************************************************)
Parsed == pc = "validate" \/ outcome \in {"serve", "version"}

\* The config file the flag package understood the arguments to ask for.
Asked == IF "config" \in DOMAIN flags THEN flags["config"] ELSE Empty

\* "Omitted values keep the built-in defaults, and explicitly provided CLI
\* flags override config-file values" (README.md:110), also values that are
\* empty or false, and flags that repeat the default.
Precedence ==
    Parsed => \A s \in Settings :
        config[s] = IF s \in DOMAIN flags THEN flags[s]
                    ELSE IF path # Empty /\ s \in DOMAIN Files[path] THEN Files[path][s]
                    ELSE Default[s]

\* Where the scan and the parser read the arguments alike: no flag is given
\* "--", or something that looks like -config, as its value, and no -config
\* comes after the argument that ended the flags.
Plain ==
    /\ \A i \in taken : args[i].text # "--" /\ args[i].flag # "config"
    /\ at <= Len(args) => \/ args[at].text = "--"
                          \/ \A i \in at .. Len(args) : args[i].flag # "config"

\* On every such command line the file that is loaded is the one -config names
\* to the flag package, however often it is given.
ScanAgrees == Parsed /\ Plain => path = Asked
=============================================================================
