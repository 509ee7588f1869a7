-------------------------------- MODULE Imports --------------------------------
(***************************************************************************)
(* Reading the configuration: a file imports others, which import others,  *)
(* up to a depth, and the tables are merged into one value (config/mod.rs, *)
(* config/serde_utils.rs).  TOML values are kept as far as merging tells   *)
(* them apart: tables, arrays and anything else.                           *)
(***************************************************************************)
EXTENDS Naturals, Sequences, SequencesExt

CONSTANTS
    IMPORT_RECURSION_LIMIT,
    FileSystems \* what may be on the disk; "main" is the file that is loaded

VARIABLE files  \* path |-> [read: "ok", "missing" or "broken"; own table; import; whether it is an array]

ImportsInit == files \in FileSystems

Scalar(v) == [kind |-> "scalar", of |-> v]

Array(s) == [kind |-> "array", of |-> s]

Table(f) == [kind |-> "table", of |-> f]

EmptyTable == Table([k \in {} |-> Scalar("")])

-----------------------------------------------------------------------------
RECURSIVE merge(_, _)

(* Both functions of serde_utils.rs: merge_tables is the case of two tables. *)
merge(base, replacement) ==
    IF base.kind = "array" /\ replacement.kind = "array" THEN Array(base.of \o replacement.of)
    ELSE IF base.kind = "table" /\ replacement.kind = "table"
    THEN LET B == DOMAIN base.of
             R == DOMAIN replacement.of
         IN Table([k \in B \cup R |->
                IF k \notin R THEN base.of[k]
                ELSE IF k \in B THEN merge(base.of[k], replacement.of[k]) ELSE replacement.of[k]])
    ELSE replacement

(* The paths a file imports; "invalid" stands for an element that is no     *)
(* string.                                                                  *)
imports(file, recursion_limit) ==
    IF ~file.array \/ (file.import # <<>> /\ recursion_limit = 0) THEN <<>>
    ELSE file.import

(* Whether the error is returned, the value, and what was pushed on        *)
(* config_paths.                                                           *)
RECURSIVE parse_config(_, _)

(* An import that cannot be read is reported and left out. *)
MergeImport(merged, config) ==
    IF config.ok THEN merge(merged, config.value) ELSE merged

load_imports(file, recursion_limit) ==
    LET parsed == [i \in DOMAIN imports(file, recursion_limit) |->
                      IF file.import[i] = "invalid" THEN [ok |-> FALSE, value |-> EmptyTable, paths |-> <<>>]
                      ELSE parse_config(file.import[i], recursion_limit - 1)]
    IN [value |-> FoldLeft(MergeImport, EmptyTable, parsed),
        paths |-> FoldLeft(LAMBDA paths, config : paths \o config.paths, <<>>, parsed)]

parse_config(path, recursion_limit) ==
    IF files[path].read # "ok" THEN [ok |-> FALSE, value |-> EmptyTable, paths |-> <<path>>]
    ELSE LET loaded == load_imports(files[path], recursion_limit) IN
        [ok |-> TRUE, value |-> merge(loaded.value, files[path].own), paths |-> <<path>> \o loaded.paths]

read_config(path) == parse_config(path, IMPORT_RECURSION_LIMIT)

-----------------------------------------------------------------------------
(* The files in the order in which their values take precedence, the last *)
(* one strongest: what a file imports comes before the file.              *)
RECURSIVE Precedence(_, _)

Precedence(path, depth) ==
    IF path = "invalid" \/ files[path].read # "ok" THEN <<>>
    ELSE FlattenSeq([i \in DOMAIN (IF ~files[path].array \/ depth = 0 THEN <<>>
                                   ELSE files[path].import)
                     |-> Precedence(files[path].import[i], depth - 1)]) \o <<path>>

(* The settings at a key, weakest first. *)
Settings(order, key) ==
    LET set == SelectSeq(order, LAMBDA p : key \in DOMAIN files[p].own.of)
    IN [i \in DOMAIN set |-> files[set[i]].own.of[key]]

(* The merged configuration is what reading the files one after the other  *)
(* in the order of precedence gives, however the imports are nested,       *)
(* repeated or circular: the last setting of a key wins, arrays are        *)
(* concatenated and tables merged key by key -- as long as a key has the   *)
(* same type everywhere; the files are those read on the way               *)
(* (config/mod.rs parse_config, load_imports; serde_utils.rs merge).       *)
ImportsLayered ==
    LET config == read_config("main")
        order == Precedence("main", IMPORT_RECURSION_LIMIT)
        Keys == UNION {DOMAIN files[order[i]].own.of : i \in DOMAIN order}
    IN config.ok =>
        /\ DOMAIN config.value.of = Keys
        /\ \A key \in Keys :
            LET s == Settings(order, key) IN
            /\ Last(s).kind = "scalar" => config.value.of[key] = Last(s)
            /\ Last(s).kind = "array" => config.value.of[key].of = FlattenSeq([i \in DOMAIN s |-> s[i].of])
            /\ Last(s).kind = "table" => \A k \in DOMAIN config.value.of[key].of :
                \E i \in DOMAIN s : /\ k \in DOMAIN s[i].of /\ config.value.of[key].of[k] = s[i].of[k]
                                    /\ \A j \in i + 1..Len(s) : k \notin DOMAIN s[j].of
        /\ {order[i] : i \in DOMAIN order} \subseteq ToSet(config.paths)

=============================================================================
