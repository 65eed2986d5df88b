---------------------------- MODULE Configuration ---------------------------
(***************************************************************************)
(* load_config (amiweak/config.py): a YAML document is overlaid on a copy  *)
(* of DEFAULTS, environment variables are written into that, in the order  *)
(* of their names, each coerced to the type of the value it replaces, and  *)
(* what results is validated key by key into a frozen Config.              *)
(*                                                                         *)
(* A few keys stand for all: one of each kind of value and of each rule    *)
(* that relates two of them.  A process may load more than once (the tests *)
(* do), so what a load leaves behind in DEFAULTS matters.                  *)
(***************************************************************************)
EXTENDS Integers, Sequences, FiniteSets

CONSTANTS
    Files,          \* the documents an operator may have written
    Environments    \* the variables in the environment, sorted by name

-----------------------------------------------------------------------------
(* Python values, by type.  A text of size 0 is empty; of a list of        *)
(* algorithms only the number of entries counts, -1 if one is unknown.     *)

None == [type |-> "none", n |-> 0]
Bool(b) == [type |-> "bool", n |-> IF b THEN 1 ELSE 0]
Whole(n) == [type |-> "int", n |-> n]
Float(n) == [type |-> "float", n |-> n]
NaN == [type |-> "nan", n |-> 0]
Text(n) == [type |-> "text", n |-> n]
List(n) == [type |-> "list", n |-> n]
Map == [type |-> "map", n |-> 0]
Value == [type : {"bool", "int", "float", "text", "list"}, n : Int] \cup {None, NaN, Map}

\* A coercion that raises ConfigError.
Invalid == [type |-> "invalid", n |-> 0]

Flags == {"checks.hibp.enabled", "checks.denylist.enabled", "cache.enabled"}
Numbers == {"http.timeout", "cache.ttl_seconds"}
Nullable == {"checks.hibp.timeout"}
Counts == {"cache.max_entries"}
Texts == {"denylist.path"}
Lists == {"checks.hibp.algorithms"}
Leaves == Flags \cup Numbers \cup Nullable \cup Counts \cup Texts \cup Lists

\* The mappings, and the one each leaf is in.
Sections == {"http", "checks.hibp", "checks.denylist", "denylist", "cache"}
SectionOf(k) ==
    CASE k = "http.timeout" -> "http"
      [] k \in {"checks.hibp.enabled", "checks.hibp.timeout", "checks.hibp.algorithms"} -> "checks.hibp"
      [] k = "checks.denylist.enabled" -> "checks.denylist"
      [] k = "denylist.path" -> "denylist"
      [] OTHER -> "cache"
Keys == Leaves \cup Sections

DEFAULTS ==
    [k \in Keys |->
        CASE k \in Sections -> Map
          [] k \in Flags -> Bool(TRUE)
          [] k \in Numbers -> Float(1)
          [] k \in Counts -> Whole(2)
          [] k \in Lists -> List(2)
          [] OTHER -> None]

\* What a document sets: some leaves, or a whole section; a name that is no
\* key is a typo.  "absent" covers the empty document and the missing file.
DocumentKinds == {"absent", "mapping", "scalar", "malformed"}
ASSUME FilesAssumption ==
    \A f \in Files :
        /\ f.kind \in DocumentKinds
        /\ f.kind # "mapping" => DOMAIN f.sets = {}
        /\ \A k \in DOMAIN f.sets : f.sets[k] \in Value

\* A variable: the path its name spells, or a name of ENV_RESERVED or foreign.
Raws == {"", "0", "1", "1.0", "nan", "yes", "sha1", "word"}
ASSUME EnvironmentsAssumption ==
    Environments \subseteq Seq([name : STRING, raw : Raws])

VARIABLES
    defaults,   \* the dict DEFAULTS, as it is by now
    shared,     \* sections of `data` that are DEFAULTS' own dicts
    phase,      \* where load_config is, or how it ended
    file,       \* the document it reads
    environ,    \* the environment it applies
    applied,    \* how many variables of it are done
    data,       \* the merged mapping
    config      \* the Config, once accepted

configVars == <<defaults, shared, phase, file, environ, applied, data, config>>

NoFile == [kind |-> "absent", sets |-> <<>>]
NoData == <<>>
NoConfig == <<>>

ConfigInit ==
    /\ defaults = DEFAULTS
    /\ shared = {}
    /\ phase = "idle"
    /\ file = NoFile
    /\ environ = <<>>
    /\ applied = 0
    /\ data = NoData
    /\ config = NoConfig

-----------------------------------------------------------------------------
(* The file. *)

\* Fault: unknown keys are ignored.
MergeableInPart(f) ==
    /\ f.kind \in {"absent", "mapping"}
    /\ \A k \in DOMAIN f.sets : k \in Sections => f.sets[k] = None

\* A section may be left null, and is then that of DEFAULTS; anything else in
\* its place, or an unknown name, ends the load.
Mergeable(f) ==
    /\ f.kind \in {"absent", "mapping"}
    /\ \A k \in DOMAIN f.sets : k \in Leaves \/ (k \in Sections /\ f.sets[k] = None)

\* Fault: dict(defaults), whose sections are those of DEFAULTS.
ShallowCopy(f) == {s \in Sections : \A k \in DOMAIN f.sets : k \in Leaves => SectionOf(k) # s}

\* copy.deepcopy(defaults)
SharedAfterCopy(f) == {}

Open ==
    /\ phase = "idle"
    /\ file' \in Files
    /\ environ' \in Environments
    /\ phase' = "file"
    /\ UNCHANGED <<defaults, shared, applied, data, config>>

Merge ==
    /\ phase = "file"
    /\ IF Mergeable(file)
       THEN /\ data' = [k \in Keys |-> IF k \in DOMAIN file.sets \cap Leaves
                                       THEN file.sets[k]
                                       ELSE defaults[k]]
            /\ shared' = SharedAfterCopy(file)
            /\ phase' = "environment"
       ELSE /\ phase' = "rejected"
            /\ UNCHANGED <<data, shared>>
    /\ UNCHANGED <<defaults, file, environ, applied, config>>

-----------------------------------------------------------------------------
(* The environment. *)

AsBool(raw) ==
    CASE raw \in {"yes", "1"} -> Bool(TRUE) [] raw = "0" -> Bool(FALSE) [] OTHER -> Invalid
AsInt(raw) ==
    CASE raw = "1" -> Whole(1) [] raw = "0" -> Whole(0) [] OTHER -> Invalid
AsFloat(raw) ==
    CASE raw \in {"1", "1.0"} -> Float(1) [] raw = "0" -> Float(0) [] raw = "nan" -> NaN
      [] OTHER -> Invalid
AsList(raw) ==
    CASE raw = "" -> List(0) [] raw = "sha1" -> List(1) [] OTHER -> List(-1)
AsText(raw) == IF raw = "" THEN None ELSE Text(1)

\* It goes by the last part of the name: also a timeout that may not be null.
NUMERIC_WHEN_UNSET == {"http.timeout", "checks.hibp.timeout"}

\* _coerce_like
Coerced(current, raw, leaf) ==
    CASE current = None /\ leaf \in NUMERIC_WHEN_UNSET -> AsFloat(raw)
      [] current.type = "list" -> AsList(raw)
      [] current.type = "bool" -> AsBool(raw)
      [] current.type = "int" -> AsInt(raw)
      [] current.type \in {"float", "nan"} -> AsFloat(raw)
      [] OTHER -> AsText(raw)

\* Names outside the prefix, and ENV_RESERVED.
Foreign(name) == name = "AMIWEAK_WORKERS"

\* A path that runs into nothing, or through something that is no mapping.
Reachable(name) == name \in Keys /\ (name \in Leaves => data[SectionOf(name)] = Map)

\* What a variable writes into a dict that is still one of DEFAULTS' own is
\* written into DEFAULTS.
ApplyVariable ==
    /\ phase = "environment"
    /\ applied < Len(environ)
    /\ LET v == environ[applied + 1]
           new == Coerced(data[v.name], v.raw, v.name)
       IN  IF Foreign(v.name)
           THEN UNCHANGED <<data, defaults, phase>>
           ELSE IF ~Reachable(v.name) \/ new = Invalid
           THEN /\ phase' = "rejected"
                /\ UNCHANGED <<data, defaults>>
           ELSE /\ data' = [data EXCEPT ![v.name] = new]
                /\ defaults' = IF v.name \in Leaves /\ SectionOf(v.name) \in shared
                               THEN [defaults EXCEPT ![v.name] = new]
                               ELSE defaults
                /\ UNCHANGED phase
    /\ applied' = applied + 1
    /\ UNCHANGED <<shared, file, environ, config>>

-----------------------------------------------------------------------------
(* The validation. *)

\* `number <= 0`, which no NaN is.
AtMostZero(v) == v.type # "nan" /\ v.n <= 0

\* Fault: zero counts as positive.
NotNegative(v) == v.type = "int" /\ v.n >= 0

PositiveNumber(v) == v.type \in {"int", "float", "nan"} /\ ~AtMostZero(v)
PositiveInt(v) == v.type = "int" /\ ~AtMostZero(v)

Acceptable(k, v) ==
    CASE k \in Flags -> v.type = "bool"
      [] k \in Numbers -> PositiveNumber(v)
      [] k \in Nullable -> v = None \/ PositiveNumber(v)
      [] k \in Counts -> PositiveInt(v)
      [] k \in Texts -> v.type \in {"none", "text"}
      [] OTHER -> v.type = "list" /\ v.n > 0

\* The order _build goes in.
BuildOrder ==
    <<"http.timeout", "checks.hibp.enabled", "checks.hibp.timeout", "checks.hibp.algorithms",
      "checks.denylist.enabled", "denylist.path", "cache.enabled", "cache.max_entries",
      "cache.ttl_seconds">>

\* A section that a variable put a text or None in the place of cannot be
\* subscripted: a TypeError, not a ConfigError.
Subscriptable(k) == data[SectionOf(k)] = Map

FirstProblem ==
    LET bad == {i \in DOMAIN BuildOrder :
                   ~Subscriptable(BuildOrder[i]) \/ ~Acceptable(BuildOrder[i], data[BuildOrder[i]])}
    IN  IF bad = {} THEN 0 ELSE CHOOSE i \in bad : \A j \in bad : i <= j

\* float(number)
ToFloat(v) == IF v.type = "int" THEN Float(v.n) ELSE v

\* Fault: no path, and yet enabled.
AsConfigured(d) == d["checks.denylist.enabled"]

\* "path is the single master switch for the denylist feature".
DenylistEnabled(d) ==
    IF d["denylist.path"] = None THEN Bool(FALSE) ELSE d["checks.denylist.enabled"]

Built(d) ==
    [k \in Leaves |->
        CASE k \in Numbers -> ToFloat(d[k])
          [] k \in Nullable -> ToFloat(IF d[k] = None THEN d["http.timeout"] ELSE d[k])
          [] k = "checks.denylist.enabled" -> DenylistEnabled(d)
          [] OTHER -> d[k]]

Build ==
    /\ phase = "environment"
    /\ applied = Len(environ)
    /\ IF FirstProblem = 0
       THEN phase' = "accepted" /\ config' = Built(data)
       ELSE /\ phase' = IF Subscriptable(BuildOrder[FirstProblem]) THEN "rejected" ELSE "raised"
            /\ UNCHANGED config
    /\ UNCHANGED <<defaults, shared, file, environ, applied, data>>

LoadEnded == phase \in {"accepted", "rejected", "raised"}

Dropped ==
    /\ file' = NoFile
    /\ environ' = <<>>
    /\ applied' = 0
    /\ data' = NoData
    /\ config' = NoConfig
    /\ shared' = {}

\* The same process may load again, from another document and environment.
Forgotten ==
    /\ LoadEnded
    /\ phase' = "idle"
    /\ Dropped
    /\ UNCHANGED defaults

LoadConfig == Open \/ Merge \/ ApplyVariable \/ Build

-----------------------------------------------------------------------------
(* What the configuration promises. *)

\* What the operator means by a text in the environment, by the key it is for.
\* An empty one unsets what may be unset.
Meant(k, raw) ==
    CASE k \in Nullable /\ raw = "" -> None
      [] k \in Flags -> AsBool(raw)
      [] k \in Numbers \/ (k \in Nullable /\ raw # "") -> AsFloat(raw)
      [] k \in Counts -> AsInt(raw)
      [] k \in Texts -> AsText(raw)
      [] OTHER -> AsList(raw)

\* The last word of the operator on a key: the environment's, the file's, or
\* the shipped default.
LastWord(k) ==
    LET said == {i \in DOMAIN environ : environ[i].name = k}
    IN  IF said # {}
        THEN Meant(k, environ[CHOOSE i \in said : \A j \in said : j <= i].raw)
        ELSE IF k \in DOMAIN file.sets THEN file.sets[k] ELSE DEFAULTS[k]

\* An accepted configuration is what this file and this environment say, key by
\* key, and nothing else: not what an earlier load was told, not a text where a
\* number was meant; a check that sets no timeout has the one http.timeout ends
\* up with, and a denylist without a path is off.  _merge, _apply_env, _build.
ConfigIsWhatWasSet ==
    config # NoConfig =>
        \A k \in Leaves :
            config[k] =
                CASE k \in Nullable /\ LastWord(k) = None -> ToFloat(LastWord("http.timeout"))
                  [] k = "checks.denylist.enabled" /\ LastWord("denylist.path") = None -> Bool(FALSE)
                  [] OTHER -> IF k \in Numbers \cup Nullable THEN ToFloat(LastWord(k)) ELSE LastWord(k)

\* "Unknown keys are rejected rather than ignored": a process that serves was
\* given no name, in the file or under the prefix, that means nothing.
NoTypoSurvives ==
    config # NoConfig =>
        /\ DOMAIN file.sets \subseteq Keys
        /\ \A i \in DOMAIN environ :
              environ[i].name \in Leaves \/ Foreign(environ[i].name)

=============================================================================
