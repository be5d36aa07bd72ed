------------------------------ MODULE ConfigV1 ------------------------------
(***************************************************************************)
(* How saltnitor finds its configuration and its control token             *)
(* (config_v1.rs), as operators on a world: what the command line, the     *)
(* environment and the disk hold when it starts.                           *)
(*                                                                         *)
(* An optional value is a set of at most one.  A file that is no TOML, has *)
(* an unknown key or a value of the wrong type is "malformed"; of the      *)
(* settings those remain that validate, the token or the gate look at.     *)
(***************************************************************************)
EXTENDS FiniteSets, Naturals

\* A setup: the daemon has a configuration and maybe a token, or refuses to start.
Refused == [ok |-> FALSE]

DefaultConf ==
    [schema |-> "none", base |-> "none", expands |-> TRUE, literal |-> {},
     sources |-> {}, allow_query |-> FALSE]

\* --config, else $XDG_CONFIG_HOME, if that is set and not empty, else ~/.config.
ResolvePath(w) == IF w.flag THEN "Flag" ELSE IF w.xdg THEN "Xdg" ELSE "Home"

\* router_base, the schema's version, and `$VAR` in paths.
Valid(conf) ==
    /\ conf.schema \in {"none", "1"}
    /\ conf.base \in {"none", "http"}
    /\ conf.expands

\* Mutant: any file that cannot be used is passed over for the defaults.
LoadLeniently(w) ==
    LET file == w.disk[ResolvePath(w)]
    IN  IF file.kind = "config" /\ Valid(file.conf)
        THEN [ok |-> TRUE, conf |-> file.conf]
        ELSE [ok |-> TRUE, conf |-> DefaultConf]

Load(w) ==
    LET source == ResolvePath(w)
        file == w.disk[source]
    IN  IF file.kind = "absent" /\ source # "Flag"
        THEN [ok |-> TRUE, conf |-> DefaultConf]
        ELSE IF file.kind = "config" /\ Valid(file.conf)
        THEN [ok |-> TRUE, conf |-> file.conf]
        ELSE Refused

\* A token file must be a regular file of our own that no one else can read.
ValidKeyFile(k) == k.exists /\ k.regular /\ k.private /\ k.owned

\* Exactly one source, if any; from the environment or a file, never empty.
ResolveControlToken(conf, w) ==
    IF Cardinality(conf.sources) > 1 THEN Refused
    ELSE IF conf.sources = {} THEN [ok |-> TRUE, token |-> {}]
    ELSE IF "literal" \in conf.sources THEN [ok |-> TRUE, token |-> conf.literal]
    ELSE IF "env" \in conf.sources
    THEN IF w.env \ {""} = {} THEN Refused ELSE [ok |-> TRUE, token |-> w.env]
    ELSE IF ValidKeyFile(w.key) /\ w.key.content \ {""} # {}
    THEN [ok |-> TRUE, token |-> w.key.content]
    ELSE Refused
==============================================================================
