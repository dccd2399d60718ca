-------------------------------- MODULE Rules --------------------------------
(***************************************************************************)
(* Rules (src/rules.cpp): the lines of the rule files, loaded into three   *)
(* maps, and get_rule, which completes the rule of a program with its type.*)
(*                                                                         *)
(* A JSON object is a function from keys to values.  A value is a string,  *)
(* NotString (a number, an array, ...) or Null, which merge_patch (RFC     *)
(* 7396) takes for a removal.  The directory iterator returns the files in *)
(* an unspecified order.                                                   *)
(***************************************************************************)
EXTENDS Naturals, Sequences, FiniteSets

CONSTANTS Directories,  \* contents the directory may have: lines of each file
          FileKind,     \* the extension of each file
          NotString, Null

ASSUME LinesAssumption ==
    \A d \in Directories : \A f \in DOMAIN d : d[f] \in Seq({d[f][i] : i \in DOMAIN d[f]})

VARIABLES files,        \* the directory
          enabled,      \* kinds of files the configuration lets in
          unloaded,     \* files the iterator has still to return
          lines,        \* lines of the present file still to be loaded
          m_program_rules, m_type_rules, m_cgroup_rules

ruleVars == <<files, enabled, unloaded, lines, m_program_rules, m_type_rules,
              m_cgroup_rules>>
rulesets == <<m_program_rules, m_type_rules, m_cgroup_rules>>

Kinds == {"cgroups", "types", "rules"}
NoRule == [k \in {} |-> Null]

RulesInit == /\ files \in Directories
             /\ enabled \in SUBSET Kinds
             /\ unloaded = DOMAIN files
             /\ lines = <<>>
             /\ m_program_rules = NoRule /\ m_type_rules = NoRule
             /\ m_cgroup_rules = NoRule

Loading == unloaded # {} \/ lines # <<>>

(* load_rules_from_directory: the next file                                *)
OpenFile == /\ lines = <<>>
            /\ \E f \in unloaded :
                  /\ unloaded' = unloaded \ {f}
                  /\ lines' = IF FileKind[f] \in enabled THEN files[f] ELSE <<>>
            /\ UNCHANGED <<files, enabled>> /\ UNCHANGED rulesets

(* A line is kept if it has both brackets and what remains of it is JSON.  *)
(* The length of what remains is counted from the start of the line, so as *)
(* many characters after the closing bracket remain as there were before   *)
(* the opening one.                                                        *)
Remains(line) == {line.after[i] : i \in 1..line.before \cap DOMAIN line.after}

Parses(line) == line.brackets /\ Remains(line) \subseteq {" "}

Has(rule, key) == key \in DOMAIN rule /\ rule[key] \notin {NotString, Null}

insert_or_assign(ruleset, key, rule) ==
    [k \in DOMAIN ruleset \cup {key} |-> IF k = key THEN rule ELSE ruleset[k]]

(* Mutant: a rule with a type is a type.                                   *)
MutKindOf(rule) == IF Has(rule, "type") THEN "type"
                   ELSE IF Has(rule, "name") THEN "name"
                   ELSE IF Has(rule, "cgroup") THEN "cgroup" ELSE "none"

(* What a rule is about: the first of the three that is there.             *)
KindOf(rule) == IF Has(rule, "name") THEN "name"
                ELSE IF Has(rule, "type") THEN "type"
                ELSE IF Has(rule, "cgroup") THEN "cgroup" ELSE "none"

(* load_rule_from_string                                                   *)
LoadLine ==
    /\ lines # <<>>
    /\ lines' = Tail(lines)
    /\ LET line == Head(lines)
           Put(kind, ruleset) == IF Parses(line) /\ KindOf(line.rule) = kind
                                 THEN insert_or_assign(ruleset, line.rule[kind], line.rule)
                                 ELSE ruleset
       IN /\ m_program_rules' = Put("name", m_program_rules)
          /\ m_type_rules' = Put("type", m_type_rules)
          /\ m_cgroup_rules' = Put("cgroup", m_cgroup_rules)
    /\ UNCHANGED <<files, enabled, unloaded>>

RulesNext == OpenFile \/ LoadLine

-----------------------------------------------------------------------------

(* json::merge_patch, for objects without objects in them                  *)
merge_patch(target, patch) ==
    [k \in {k \in DOMAIN target \cup DOMAIN patch :
               k \in DOMAIN patch => patch[k] # Null}
        |-> IF k \in DOMAIN patch THEN patch[k] ELSE target[k]]

HasType(rule) == "type" \in DOMAIN rule /\ rule["type"] \in DOMAIN m_type_rules

(* Mutant: the rule is patched with the type.                              *)
MutCompleted(rule, type_rule) == merge_patch(rule, type_rule)

Completed(rule, type_rule) == merge_patch(rule, merge_patch(type_rule, rule))

get_rule(name) ==
    IF name \notin DOMAIN m_program_rules THEN NoRule
    ELSE LET rule == m_program_rules[name]
         IN IF HasType(rule) THEN Completed(rule, m_type_rules[rule["type"]]) ELSE rule

(* get_rule is noexcept, and looks a type up under a value that must be a  *)
(* string; create_cgroups is, and takes a CPUQuota for a number (written   *)
(* NotString).                                                             *)
GetRuleThrows == \E n \in DOMAIN m_program_rules :
                    /\ "type" \in DOMAIN m_program_rules[n]
                    /\ ~Has(m_program_rules[n], "type")

CreateCgroupsThrows == \E n \in DOMAIN m_cgroup_rules :
                          /\ "CPUQuota" \in DOMAIN m_cgroup_rules[n]
                          /\ m_cgroup_rules[n]["CPUQuota"] # NotString

-----------------------------------------------------------------------------

(* "overriding parameters from the type with those explicitly specified in *)
(* the rule" (rules.cpp:174-177): a program has every parameter of its     *)
(* rule, and those of its type that the rule does not mention, however the *)
(* patches go back and forth and whatever is null.                         *)
RuleOverridesType ==
    \A n \in DOMAIN m_program_rules :
        LET rule == m_program_rules[n]
            own == DOMAIN rule
            type_rule == m_type_rules[rule["type"]]
            inherited == {k \in DOMAIN type_rule \ own : type_rule[k] # Null}
        IN HasType(rule) =>
              /\ DOMAIN get_rule(n) = own \cup inherited
              /\ \A k \in own : get_rule(n)[k] = rule[k]
              /\ \A k \in inherited : get_rule(n)[k] = type_rule[k]

(* The lines of a file that tell of a program, whatever stands around the  *)
(* rule: "Remove trailing characters" (rules.cpp:59).                      *)
Telling(f, n) == {i \in DOMAIN files[f] :
                     /\ files[f][i].brackets
                     /\ Has(files[f][i].rule, "name")
                     /\ files[f][i].rule["name"] = n}

(* Lines the removal does not reach: with something before the rule and    *)
(* more than blanks behind it.                                             *)
Unremoved(line) == line.before # 0 /\ \E i \in DOMAIN line.after : line.after[i] # " "

(* The order in which the directory is read does not matter to a program   *)
(* that only one file tells of: it has the rule of the last line that does,*)
(* if what stands behind each of these lines can be removed.               *)
RulesAsWritten ==
    ~Loading =>
        \A f \in DOMAIN files : \A i \in DOMAIN files[f] :
            LET n == files[f][i].rule["name"]
            IN FileKind[f] \in enabled /\ "name" \in DOMAIN files[f][i].rule
               /\ Telling(f, n) # {} /\ (\A g \in DOMAIN files \ {f} : Telling(g, n) = {})
               /\ (\A j \in Telling(f, n) : ~Unremoved(files[f][j]))
               => /\ n \in DOMAIN m_program_rules
                  /\ m_program_rules[n] = files[f][CHOOSE j \in Telling(f, n) :
                                             \A h \in Telling(f, n) : h <= j].rule
=============================================================================
