--------------------------- MODULE SuricataConfig ---------------------------
(***************************************************************************)
(* read_config (src/src/infra/suricata_config): HOME_NET as the program    *)
(* understands it, from suricata.yaml and the files it includes.  Pure     *)
(* functions.                                                              *)
(*                                                                         *)
(* The text of an address group is the groups it refers to, with and       *)
(* without a '!', and the addresses of the networks it lists.  Negated     *)
(* networks, "any" and text that is no network contribute nothing, as in   *)
(* _parse_address_value, and are left out.  A list in a list is outside    *)
(* the model: the code splits at every comma, loses the entries a bracket  *)
(* or '!' touches and keeps those between them, of a negated list too.     *)
(* Names of groups are [A-Z0-9_]+; the code expands no others.             *)
(***************************************************************************)
EXTENDS Integers, Sequences, FiniteSets, SequencesExt

CONSTANTS MaxIncludeDepth,   \* _MAX_INCLUDE_DEPTH
          MaxPasses          \* _MAX_VAR_EXPANSION_PASSES

ASSUME ConfigAssumption == {MaxIncludeDepth, MaxPasses} \subseteq Nat

Value(refs, negated, nets) == [refs |-> refs, negated |-> negated, nets |-> nets]

ParseError == [error |-> TRUE]
Parsed(groups) == [error |-> FALSE, groups |-> groups]

Override(base, over) ==
    [g \in DOMAIN base \cup DOMAIN over |-> IF g \in DOMAIN over THEN over[g] ELSE base[g]]

\* load_yaml_with_includes, for every file at once: Load(files)[n] allows n more levels.
\* An included file wins over the one that includes it, and a later one over an earlier.
Load(files) ==
    LET load[n \in 0 .. (MaxIncludeDepth + 1)] ==
          [f \in DOMAIN files |->
             IF n = 0 THEN ParseError
             ELSE LET parts == [i \in DOMAIN files[f].include |-> load[n - 1][files[f].include[i]]]
                  IN IF \E i \in DOMAIN parts : parts[i].error THEN ParseError
                     ELSE Parsed(FoldLeft(LAMBDA base, part : Override(base, part.groups),
                                          files[f].groups, parts))]
    IN load[MaxIncludeDepth + 1]

-----------------------------------------------------------------------------
\* _expand_vars_in_string: a reference is replaced by the present text of its group, an
\* unknown one stays.  A '!' goes to every entry of the text.
Expand(value, groups) ==
    LET known == value.refs \cap DOMAIN groups
        knownNegated == value.negated \cap DOMAIN groups
    IN Value((value.refs \ known) \cup UNION {groups[r].refs : r \in known},
             (value.negated \ knownNegated)
               \cup UNION {groups[r].negated : r \in known}
               \cup UNION {groups[r].refs \cup groups[r].negated : r \in knownNegated},
             value.nets \cup UNION {groups[r].nets : r \in known})

\* One turn of the inner loop: group g gets its new text, at once.
ExpandIn(groups, g) ==
    IF g \in DOMAIN groups THEN [groups EXCEPT ![g] = Expand(@, groups)] ELSE groups

\* One pass over the groups in the order of the dictionary, each seeing the new text of
\* the ones before it.
Pass(order, groups) ==
    LET done[n \in 0 .. Len(order)] ==
          IF n = 0 THEN groups ELSE ExpandIn(done[n - 1], order[n])
    IN done[Len(order)]

Resolve_Once(order, groups) == Pass(order, groups)

\* _resolve_variable_references
Resolve(order, groups) ==
    LET after[n \in 0 .. MaxPasses] == IF n = 0 THEN groups ELSE Pass(order, after[n - 1])
    IN after[MaxPasses]

Refused == [ok |-> FALSE]

\* extract_address_groups and validate_home_net.  References that are left over are
\* skipped, and an empty HOME_NET is refused.
read_config(config) ==
    LET loaded == Load(config.files)["suricata.yaml"]
        nets == Resolve(config.order, loaded.groups)["HOME_NET"].nets
    IN IF loaded.error THEN Refused
       ELSE IF "HOME_NET" \notin DOMAIN loaded.groups THEN Refused
       ELSE IF nets = {} THEN Refused
       ELSE [ok |-> TRUE, home_net |-> nets]

-----------------------------------------------------------------------------
\* Every pass at least doubles the length of the chains of references a text has taken in,
\* so this (2^MaxPasses) is the length up to which the passes are sure to be enough.
Span ==
    LET span[n \in 0 .. MaxPasses] == IF n = 0 THEN 1 ELSE 2 * span[n - 1]
    IN span[MaxPasses]

\* A configuration the reader is made for: its order is a list of all the groups the files
\* define, and there are fewer of them than the passes can follow.
IsConfig(config) ==
    LET loaded == Load(config.files)["suricata.yaml"]
        groups == DOMAIN loaded.groups
    IN ~loaded.error =>
         /\ config.order \in Seq(ToSet(config.order))
         /\ groups \subseteq ToSet(config.order)
         /\ IsFiniteSet(groups)
         /\ Cardinality(groups) < Span
=============================================================================
