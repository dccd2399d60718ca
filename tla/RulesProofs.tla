----------------------------- MODULE RulesProofs -----------------------------
(***************************************************************************)
(* The rules from the files to the processes: what the loader makes of any *)
(* files and get_rule of any rule and type; what the parser makes of any   *)
(* command line, and main, which loads the rules, does of what it says;    *)
(* and what the worker makes of the rules, for any processes and reports.  *)
(***************************************************************************)
EXTENDS Startup, RuleApplication, FiniteSetTheorems, TLAPS

(* The keys of a rule merged into its type: its own, unless they are null, *)
(* and those of the type.  No null of the rule is left to be seen.         *)
LEMMA Patched ==
    ASSUME NEW rule, NEW type_rule
    PROVE  LET patched == merge_patch(type_rule, rule)
           IN /\ \A k \in DOMAIN rule : k \in DOMAIN patched <=> rule[k] # Null
              /\ \A k \in DOMAIN patched \cap DOMAIN rule : patched[k] = rule[k]
              /\ \A k : k \notin DOMAIN rule =>
                           (k \in DOMAIN patched <=> k \in DOMAIN type_rule)
              /\ \A k \in DOMAIN patched \ DOMAIN rule : patched[k] = type_rule[k]
  BY DEF merge_patch

(* The keys a program has from its type alone                              *)
Inherited(rule, type_rule) ==
    {k \in DOMAIN type_rule \ DOMAIN rule : type_rule[k] # Null}

(* Completed, the two patches of rules.cpp:174-177, keeps every key of the *)
(* rule, null or not, and adds those of the type that the rule does not    *)
(* have and that are not null.                                             *)
LEMMA CompletedOverrides ==
    \A rule, type_rule :
        /\ DOMAIN Completed(rule, type_rule) = DOMAIN rule \cup Inherited(rule, type_rule)
        /\ \A k \in DOMAIN rule : Completed(rule, type_rule)[k] = rule[k]
        /\ \A k \in Inherited(rule, type_rule) :
              Completed(rule, type_rule)[k] = type_rule[k]
  <1> TAKE rule, type_rule
  <1> DEFINE own == DOMAIN rule
             inherited == {k \in DOMAIN type_rule \ own : type_rule[k] # Null}
             patched == merge_patch(type_rule, rule)
             completed == merge_patch(rule, patched)
  <1>1. /\ \A k \in own : k \in DOMAIN patched <=> rule[k] # Null
        /\ \A k \in DOMAIN patched \cap own : patched[k] = rule[k]
        /\ \A k : k \notin own => (k \in DOMAIN patched <=> k \in DOMAIN type_rule)
        /\ \A k \in DOMAIN patched \ own : patched[k] = type_rule[k]
    BY Patched
  <1> HIDE DEF patched
  <1>2. DOMAIN completed = {k \in own \cup DOMAIN patched :
                               k \in DOMAIN patched => patched[k] # Null}
    BY DEF merge_patch
  <1>3. \A k \in DOMAIN completed :
           completed[k] = IF k \in DOMAIN patched THEN patched[k] ELSE rule[k]
    BY DEF merge_patch
  <1> HIDE DEF completed
  <1>4. \A k : k \in DOMAIN completed <=> k \in own \cup inherited
    BY <1>1, <1>2
  <1>5. \A k \in own : completed[k] = rule[k]
    BY <1>1, <1>3, <1>4
  <1>6. \A k \in inherited : completed[k] = type_rule[k]
    BY <1>1, <1>3, <1>4
  <1>7. Completed(rule, type_rule) = completed
    BY DEF Completed, completed, patched
  <1>8. inherited = Inherited(rule, type_rule)
    BY DEF Inherited
  <1>9. QED
    BY <1>4, <1>5, <1>6, <1>7, <1>8

(* Whatever the rules are, and in whatever order they were loaded, what    *)
(* get_rule returns for a program with a type is its rule, completed with  *)
(* what only the type says.                                                *)
THEOREM GetRuleOverridesType == RuleOverridesType
  <1> SUFFICES ASSUME NEW n \in DOMAIN m_program_rules, HasType(m_program_rules[n])
               PROVE  LET rule == m_program_rules[n]
                          own == DOMAIN rule
                          type_rule == m_type_rules[rule["type"]]
                          inherited == {k \in DOMAIN type_rule \ own : type_rule[k] # Null}
                      IN /\ DOMAIN get_rule(n) = own \cup inherited
                         /\ \A k \in own : get_rule(n)[k] = rule[k]
                         /\ \A k \in inherited : get_rule(n)[k] = type_rule[k]
    BY DEF RuleOverridesType
  <1>1. PICK rule, type_rule : /\ rule = m_program_rules[n]
                               /\ type_rule = m_type_rules[rule["type"]]
    OBVIOUS
  <1>2. get_rule(n) = Completed(rule, type_rule)
    BY <1>1 DEF get_rule
  <1>3. DOMAIN Completed(rule, type_rule) = DOMAIN rule \cup Inherited(rule, type_rule)
    BY CompletedOverrides
  <1>4. \A k \in DOMAIN rule : Completed(rule, type_rule)[k] = rule[k]
    BY CompletedOverrides
  <1>5. \A k \in Inherited(rule, type_rule) :
           Completed(rule, type_rule)[k] = type_rule[k]
    BY CompletedOverrides
  <1>6. QED
    BY <1>1, <1>2, <1>3, <1>4, <1>5 DEF Inherited

-----------------------------------------------------------------------------
(* Loading *)

(* How much of file g has been loaded, when f is the file last opened      *)
LoadedOf(g, f) == IF g \in unloaded THEN 0
                  ELSE IF g = f THEN Len(files[g]) - Len(lines) ELSE Len(files[g])

OnlyTeller(g, n) == /\ \A h \in DOMAIN files \ {g} : Telling(h, n) = {}
                    /\ \A i \in Telling(g, n) : ~Unremoved(files[g][i])

(* A line with nothing left behind its rule is kept, if it has brackets.   *)
LEMMA RemovedParses ==
    ASSUME NEW line, line.brackets, ~Unremoved(line) PROVE Parses(line)
<1>1. CASE line.before = 0
  BY <1>1 DEF Parses, Remains
<1>2. CASE \A i \in DOMAIN line.after : line.after[i] = " "
  BY <1>2 DEF Parses, Remains
<1> QED
  BY <1>1, <1>2 DEF Unremoved

(* The last of the first lines of g that tells of n, if one does, stands.  *)
Told(g, n, loaded) == {i \in Telling(g, n) : i <= loaded}
Stands(g, n, loaded) ==
    Told(g, n, loaded) # {} =>
        \E j \in Told(g, n, loaded) : /\ \A h \in Told(g, n, loaded) : h <= j
                                      /\ n \in DOMAIN m_program_rules
                                      /\ m_program_rules[n] = files[g][j].rule

(* What is still to be loaded of f is its end, and all that was loaded     *)
(* stands.                                                                 *)
LoadedFrom(f) ==
    /\ lines # <<>> => /\ f \in DOMAIN files \ unloaded
                       /\ Len(lines) <= Len(files[f])
                       /\ \A i \in 1..Len(lines) :
                             lines[i] = files[f][Len(files[f]) - Len(lines) + i]
    /\ \A n : \A g \in DOMAIN files :
          FileKind[g] \in enabled /\ OnlyTeller(g, n) => Stands(g, n, LoadedOf(g, f))

RulesTypes == /\ files \in Directories /\ unloaded \subseteq DOMAIN files
              /\ enabled \subseteq Kinds
              /\ \E S : lines \in Seq(S)

LoadedSoFar == RulesTypes /\ \E f : LoadedFrom(f)

LEMMA LoadedInit == RulesInit => LoadedSoFar
<1> SUFFICES ASSUME RulesInit PROVE LoadedSoFar
  OBVIOUS
<1>1. RulesTypes
  <2>1. lines \in Seq({})
    BY DEF RulesInit
  <2> QED
    BY <2>1 DEF RulesInit, RulesTypes
<1>2. ASSUME NEW g \in DOMAIN files, NEW n, NEW f PROVE Stands(g, n, LoadedOf(g, f))
  <2>1. files[g] \in Seq({files[g][i] : i \in DOMAIN files[g]}) /\ LoadedOf(g, f) = 0
    BY LinesAssumption DEF RulesInit, LoadedOf
  <2>2. Telling(g, n) \subseteq 1..Len(files[g])
    BY <2>1 DEF Telling
  <2> QED
    BY <2>1, <2>2 DEF Stands, Told
<1>3. \E f : LoadedFrom(f)
  BY <1>2 DEF LoadedFrom, RulesInit
<1> QED
  BY <1>1, <1>3 DEF LoadedSoFar

LEMMA OpenFileLoaded == LoadedSoFar /\ OpenFile => LoadedSoFar'
<1> SUFFICES ASSUME LoadedSoFar, OpenFile PROVE LoadedSoFar'
  OBVIOUS
<1> USE DEF rulesets
<1>1. PICK f : LoadedFrom(f)
  BY DEF LoadedSoFar
<1>2. PICK opened \in unloaded :
         /\ lines = <<>> /\ unloaded' = unloaded \ {opened}
         /\ lines' = IF FileKind[opened] \in enabled THEN files[opened] ELSE <<>>
         /\ UNCHANGED <<files, enabled, m_program_rules>>
  BY DEF OpenFile
<1>3. \A g \in DOMAIN files : files[g] \in Seq({files[g][i] : i \in DOMAIN files[g]})
  BY LinesAssumption DEF LoadedSoFar, RulesTypes
<1>4. opened \in DOMAIN files
  BY <1>2 DEF LoadedSoFar, RulesTypes
<1>5. RulesTypes'
  <2>1. \E S : lines' \in Seq(S)
    <3>1. <<>> \in Seq({})
      OBVIOUS
    <3> QED
      BY <1>2, <1>3, <1>4, <3>1 DEF LoadedSoFar, RulesTypes
  <2> QED
    BY <1>2, <2>1 DEF LoadedSoFar, RulesTypes
<1>6. lines' # <<>> =>
         /\ opened \in DOMAIN files' \ unloaded'
         /\ Len(lines') <= Len(files'[opened])
         /\ \A i \in 1..Len(lines') :
               lines'[i] = files'[opened][Len(files'[opened]) - Len(lines') + i]
  <2>1. Len(files[opened]) \in Nat
    BY <1>3, <1>4
  <2>2. PICK n \in Nat : n = Len(files[opened])
    BY <2>1
  <2>3. lines' # <<>> => lines' = files[opened] /\ opened \notin unloaded'
    BY <1>2
  <2> SUFFICES ASSUME lines' # <<>>
               PROVE  /\ opened \in DOMAIN files' \ unloaded'
                      /\ Len(lines') <= Len(files'[opened])
                      /\ \A i \in 1..Len(lines') :
                            lines'[i] = files'[opened][Len(files'[opened]) - Len(lines') + i]
    OBVIOUS
  <2>4. Len(lines') = n /\ Len(files'[opened]) = n /\ lines' = files'[opened]
    BY <1>2, <2>2, <2>3
  <2>5. \A i \in 1..Len(lines') :
           lines'[i] = files'[opened][Len(files'[opened]) - Len(lines') + i]
    <3>1. \A i \in 1..n : n - n + i = i
      OBVIOUS
    <3> QED
      BY <2>4, <3>1
  <2>6. opened \in DOMAIN files' \ unloaded'
    BY <1>2, <1>4, <2>3
  <2>7. Len(lines') <= Len(files'[opened])
    BY <2>4
  <2> QED
    BY <2>5, <2>6, <2>7
<1>7. ASSUME NEW g \in DOMAIN files', NEW n, FileKind[g] \in enabled', OnlyTeller(g, n)'
      PROVE  Stands(g, n, LoadedOf(g, opened))'
  <2>1. OnlyTeller(g, n) /\ FileKind[g] \in enabled /\ g \in DOMAIN files
    BY <1>2, <1>7 DEF OnlyTeller, Telling
  <2>2. Stands(g, n, LoadedOf(g, f))
    BY <1>1, <2>1 DEF LoadedFrom
  <2>3. Len(files[g]) \in Nat /\ Len(<<>>) = 0
    BY <1>3, <2>1
  <2>4. LoadedOf(g, f) = IF g \in unloaded THEN 0 ELSE Len(files[g])
    BY <1>2, <2>3 DEF LoadedOf
  <2>5. LoadedOf(g, opened)' = LoadedOf(g, f)
    <3>1. CASE g = opened
      <4>1. lines' = files[g] /\ g \notin unloaded'
        BY <1>2, <2>1, <3>1
      <4> QED
        BY <1>2, <2>3, <2>4, <3>1, <4>1 DEF LoadedOf
    <3>2. CASE g # opened
      BY <1>2, <2>3, <2>4, <3>2 DEF LoadedOf
    <3> QED
      BY <3>1, <3>2
  <2>6. PICK loaded : loaded = LoadedOf(g, f)
    OBVIOUS
  <2>7. Stands(g, n, loaded)'
    BY <1>2, <2>2, <2>6 DEF Stands, Told, Telling
  <2> QED
    BY <2>5, <2>6, <2>7 DEF Stands, Told
<1>8. LoadedFrom(opened)'
  BY <1>2, <1>6, <1>7 DEF LoadedFrom
<1> QED
  BY <1>5, <1>8 DEF LoadedSoFar

LEMMA LoadLineLoaded == LoadedSoFar /\ LoadLine => LoadedSoFar'
<1> SUFFICES ASSUME LoadedSoFar, LoadLine PROVE LoadedSoFar'
  OBVIOUS
<1> USE DEF rulesets
<1>1. PICK f : LoadedFrom(f)
  BY DEF LoadedSoFar
<1>2. /\ lines # <<>> /\ lines' = Tail(lines)
      /\ UNCHANGED <<files, enabled, unloaded>>
      /\ m_program_rules' =
            IF Parses(Head(lines)) /\ KindOf(Head(lines).rule) = "name"
            THEN insert_or_assign(m_program_rules, Head(lines).rule["name"], Head(lines).rule)
            ELSE m_program_rules
  BY DEF LoadLine
<1>3. \A g \in DOMAIN files : files[g] \in Seq({files[g][i] : i \in DOMAIN files[g]})
  BY LinesAssumption DEF LoadedSoFar, RulesTypes
<1>4. PICK S : lines \in Seq(S)
  BY DEF LoadedSoFar, RulesTypes
<1>5. PICK left \in Nat, all \in Nat : left = Len(lines) /\ all = Len(files[f])
  BY <1>1, <1>2, <1>3, <1>4 DEF LoadedFrom
<1>6. /\ f \in DOMAIN files \ unloaded /\ left \in 1..all
      /\ \A i \in 1..left : lines[i] = files[f][all - left + i]
  BY <1>1, <1>2, <1>4, <1>5 DEF LoadedFrom
<1>7. /\ lines' \in Seq(S) /\ Len(lines') = left - 1
      /\ \A i \in 1..(left - 1) : lines'[i] = lines[i + 1]
      /\ Head(lines) = lines[1]
  BY <1>2, <1>4, <1>5
<1>8. PICK k \in 1..all : k = all - left + 1 /\ Head(lines) = files[f][k]
  BY <1>6, <1>7
<1>9. RulesTypes'
  BY <1>2, <1>7 DEF LoadedSoFar, RulesTypes
<1>10. lines' # <<>> =>
         /\ f \in DOMAIN files' \ unloaded'
         /\ Len(lines') <= Len(files'[f])
         /\ \A i \in 1..Len(lines') :
               lines'[i] = files'[f][Len(files'[f]) - Len(lines') + i]
  <2>1. \A i \in 1..(left - 1) : lines'[i] = files[f][all - (left - 1) + i]
    <3> TAKE i \in 1..(left - 1)
    <3>1. i + 1 \in 1..left /\ all - left + (i + 1) = all - (left - 1) + i
      OBVIOUS
    <3> QED
      BY <1>6, <1>7, <3>1
  <2> QED
    BY <1>2, <1>5, <1>6, <1>7, <2>1
<1>11. ASSUME NEW n, NEW g \in DOMAIN files', FileKind[g] \in enabled', OnlyTeller(g, n)'
       PROVE  Stands(g, n, LoadedOf(g, f))'
  <2>1. OnlyTeller(g, n) /\ FileKind[g] \in enabled /\ g \in DOMAIN files
    BY <1>2, <1>11 DEF OnlyTeller, Telling
  <2>2. Stands(g, n, LoadedOf(g, f)) /\ Telling(g, n)' = Telling(g, n)
    BY <1>1, <1>2, <2>1 DEF LoadedFrom, Telling
  <2>3. ASSUME Parses(Head(lines)), KindOf(Head(lines).rule) = "name",
               Head(lines).rule["name"] = n
        PROVE  k \in Telling(f, n)
    <3>1. k \in DOMAIN files[f]
      BY <1>3, <1>5, <1>6
    <3>2. Head(lines).brackets /\ Has(Head(lines).rule, "name")
      BY <2>3 DEF Parses, KindOf
    <3> QED
      BY <1>8, <2>3, <3>1, <3>2 DEF Telling
  <2>4. k \notin Telling(f, n) => /\ (n \in DOMAIN m_program_rules' <=> n \in DOMAIN m_program_rules)
                                 /\ (n \in DOMAIN m_program_rules
                                       => m_program_rules'[n] = m_program_rules[n])
    BY <1>2, <2>3 DEF insert_or_assign
  <2>5. CASE g # f
    <3>1. k \notin Telling(f, n)
      BY <1>6, <2>1, <2>5 DEF OnlyTeller
    <3>2. PICK loaded : loaded = LoadedOf(g, f) /\ loaded = LoadedOf(g, f)'
      BY <1>2, <2>5 DEF LoadedOf
    <3>3. Told(g, n, loaded)' = Told(g, n, loaded) /\ Stands(g, n, loaded)
      BY <2>2, <3>2 DEF Told
    <3>4. ASSUME Told(g, n, loaded) # {}
          PROVE  \E j \in Told(g, n, loaded) : /\ \A h \in Told(g, n, loaded) : h <= j
                                               /\ n \in DOMAIN m_program_rules'
                                               /\ m_program_rules'[n] = files'[g][j].rule
      BY <1>2, <2>4, <3>1, <3>3, <3>4 DEF Stands
    <3>5. Stands(g, n, loaded)'
      BY <3>3, <3>4 DEF Stands
    <3> QED
      BY <3>2, <3>5 DEF Stands, Told
  <2>6. CASE g = f
    <3>1. LoadedOf(g, f) = k - 1 /\ LoadedOf(g, f)' = k
      BY <1>2, <1>5, <1>6, <1>7, <1>8, <2>6 DEF LoadedOf
    <3>2. Telling(f, n) \subseteq Nat
      BY <1>3, <1>5, <1>6 DEF Telling
    <3>3. Stands(g, n, k)'
      <4>1. CASE k \in Telling(f, n)
        <5>1. /\ Head(lines).brackets /\ KindOf(Head(lines).rule) = "name"
              /\ Head(lines).rule["name"] = n
          BY <1>8, <4>1 DEF Telling, KindOf
        <5>2. Parses(Head(lines))
          BY <1>8, <2>1, <2>6, <4>1, <5>1, RemovedParses DEF OnlyTeller
        <5>3. n \in DOMAIN m_program_rules' /\ m_program_rules'[n] = files[f][k].rule
          BY <1>2, <1>8, <5>1, <5>2 DEF insert_or_assign
        <5> QED
          BY <1>2, <2>2, <2>6, <3>2, <4>1, <5>3 DEF Stands, Told
      <4>2. CASE k \notin Telling(f, n)
        <5>1. Told(g, n, k)' = Told(g, n, k - 1)
          BY <2>2, <2>6, <3>2, <4>2 DEF Told
        <5>2. Stands(g, n, k - 1)
          BY <2>2, <3>1
        <5>3. ASSUME Told(g, n, k - 1) # {}
              PROVE  \E j \in Told(g, n, k - 1) : /\ \A h \in Told(g, n, k - 1) : h <= j
                                                  /\ n \in DOMAIN m_program_rules'
                                                  /\ m_program_rules'[n] = files'[g][j].rule
          BY <1>2, <2>4, <4>2, <5>2, <5>3 DEF Stands
        <5> QED
          BY <5>1, <5>3 DEF Stands
      <4> QED
        BY <4>1, <4>2
    <3> QED
      BY <3>1, <3>3 DEF Stands, Told
  <2> QED
    BY <2>5, <2>6
<1>12. LoadedFrom(f)'
  BY <1>2, <1>10, <1>11 DEF LoadedFrom
<1> QED
  BY <1>9, <1>12 DEF LoadedSoFar

LEMMA LoadedStep == LoadedSoFar /\ [RulesNext]_ruleVars => LoadedSoFar'
<1> SUFFICES ASSUME LoadedSoFar, [RulesNext]_ruleVars PROVE LoadedSoFar'
  OBVIOUS
<1>1. CASE UNCHANGED ruleVars
  <2>1. UNCHANGED <<files, enabled, unloaded, lines, m_program_rules>>
    BY <1>1 DEF ruleVars
  <2>2. \A f : LoadedFrom(f)' = LoadedFrom(f)
    BY <2>1 DEF LoadedFrom, LoadedOf, OnlyTeller, Stands, Told, Telling
  <2> QED
    BY <2>1, <2>2 DEF LoadedSoFar, RulesTypes
<1> QED
  BY <1>1, OpenFileLoaded, LoadLineLoaded DEF RulesNext

(* With nothing left to load, the last line that tells of a program is the *)
(* last one loaded.                                                        *)
LEMMA LoadedAll == LoadedSoFar => RulesAsWritten
<1> SUFFICES ASSUME LoadedSoFar, ~Loading, NEW n, NEW f \in DOMAIN files,
                    FileKind[f] \in enabled, Telling(f, n) # {}, OnlyTeller(f, n)
             PROVE  /\ n \in DOMAIN m_program_rules
                    /\ m_program_rules[n] = files[f][CHOOSE j \in Telling(f, n) :
                                               \A h \in Telling(f, n) : h <= j].rule
  BY ZenonT(30) DEF RulesAsWritten, OnlyTeller
<1>1. PICK g : LoadedFrom(g)
  BY DEF LoadedSoFar
<1>2. files[f] \in Seq({files[f][k] : k \in DOMAIN files[f]})
  BY LinesAssumption DEF LoadedSoFar, RulesTypes
<1>3. PICK all \in Nat : all = Len(files[f])
  BY <1>2
<1>4. Telling(f, n) \subseteq 1..all
  BY <1>2, <1>3 DEF Telling
<1>5. LoadedOf(f, g) = all
  BY <1>3 DEF LoadedOf, Loading
<1>6. Stands(f, n, all)
  BY <1>1, <1>5 DEF LoadedFrom
<1>7. {k \in Telling(f, n) : k <= all} = Telling(f, n)
  BY <1>4
<1>8. PICK j \in Telling(f, n) : /\ \A h \in Telling(f, n) : h <= j
                                /\ n \in DOMAIN m_program_rules
                                /\ m_program_rules[n] = files[f][j].rule
  BY <1>6, <1>7 DEF Stands, Told
<1>9. PICK last : last = CHOOSE k \in Telling(f, n) : \A h \in Telling(f, n) : h <= k
  OBVIOUS
<1>10. last \in Telling(f, n) /\ \A h \in Telling(f, n) : h <= last
  BY <1>8, <1>9
<1>11. last = j
  BY <1>4, <1>8, <1>10
<1> QED
  BY <1>8, <1>9, <1>11

(* Main loads rules with the steps of the loader and touches them with no  *)
(* other.                                                                  *)
LEMMA StartupLoads == [StartupNext]_startupVars => [RulesNext]_ruleVars
  BY DEF StartupNext, startupVars, Parse, Refuse, Inform, ForceRemove, Reload, ReadOptions,
         LoadRules, NoAction, Dump, Debug, Proceed, TryCreate, CreateCgroups, Ended, Moves, Goes

(* load_rules_from_directory and load_rule_from_string (rules.cpp:32-160),  *)
(* for any files, read in any order: a program that only one of the files  *)
(* let in tells of has the rule of the last line of it that does.          *)
THEOREM LoadedAsWritten == StartupSpec => []RulesAsWritten
<1>1. StartupInit => LoadedSoFar
  BY LoadedInit DEF StartupInit
<1>2. LoadedSoFar /\ [StartupNext]_startupVars => LoadedSoFar'
  BY LoadedStep, StartupLoads
<1> QED
  BY <1>1, <1>2, LoadedAll, PTL DEF StartupSpec

-----------------------------------------------------------------------------
(* Parsing: elements and what they take *)

(* At most one option of an element takes a value.                         *)
LEMMA WantingOne == \A param : Wanting(param) \in {{}, {param.of}}
<1> TAKE param
<1>1. CASE param.kind = "short"
  BY <1>1, DeclarationsAssumption DEF Wanting
<1>2. CASE param.kind # "short"
  BY <1>2 DEF Wanting, NamesIn
<1> QED
  BY <1>1, <1>2

LEMMA Skips == Skipped = IF HasValue /\ TakesNext(params[at]) THEN 1 ELSE 0
<1>1. Cardinality({}) = 0 /\ Cardinality({params[at].of}) = 1
  BY FS_EmptySet, FS_Singleton
<1> QED
  BY <1>1, WantingOne DEF Skipped, TakesNext

LEMMA WordsTakeNothing ==
    \A param : param.kind = "word" => Named(param) = {} /\ ~TakesNext(param)
  BY DEF Named, TakesNext, Wanting, NamesIn

(* An element that names an option with a value takes one, and none names  *)
(* a positional argument.                                                  *)
LEMMA NamedTakes ==
    \A param : \A a \in Named(param) :
        /\ a \in Valued => TakesNext(param)
        /\ \A i \in DOMAIN Positionals : a # Positionals[i]
<1> TAKE param
<1> TAKE a \in Named(param)
<1>1. PICK n \in NamesIn(param) \ Unknown(param) : a = ArgumentOf(param, n)
  BY DEF Named
<1>2. CASE param.kind = "long"
  <2>1. n \in DOMAIN LongNames /\ a = LongNames[n]
    BY <1>1, <1>2 DEF Unknown, ArgumentOf
  <2>2. a \in Valued => n \in Wanting(param)
    BY <1>1, <1>2, <2>1 DEF Wanting
  <2> QED
    BY <2>1, <2>2, DeclarationsAssumption DEF TakesNext
<1>3. CASE param.kind # "long"
  <2>1. n \in DOMAIN ShortNames /\ a = ShortNames[n]
    BY <1>1, <1>3 DEF Unknown, ArgumentOf
  <2> QED
    BY <2>1, DeclarationsAssumption
<1> QED
  BY <1>2, <1>3

(* The element after one that takes nothing is read; the one after one     *)
(* that takes a value is read if that one is a value itself.               *)
LEMMA Runs ==
    /\ ReadAt(1)
    /\ \A i \in Nat \ {0} : ReadAt(i + 1) <=> ~TakesNext(params[i]) \/ ~ReadAt(i)
<1>1. ReadAt(1)
  <2>1. RunBefore(1) = {}
    BY DEF RunBefore
  <2>2. Cardinality({}) = 0
    BY FS_EmptySet
  <2> QED
    BY <2>1, <2>2 DEF ReadAt
<1>2. ASSUME NEW i \in Nat \ {0} PROVE ReadAt(i + 1) <=> ~TakesNext(params[i]) \/ ~ReadAt(i)
  <2>1. CASE ~TakesNext(params[i])
    <3>1. RunBefore(i + 1) = {}
      <4>1. \A j \in 1..((i + 1) - 1) : i \in j..((i + 1) - 1)
        OBVIOUS
      <4> QED
        BY <2>1, <4>1 DEF RunBefore
    <3>2. Cardinality({}) = 0
      BY FS_EmptySet
    <3> QED
      BY <2>1, <3>1, <3>2 DEF ReadAt
  <2>2. CASE TakesNext(params[i])
    <3>1. RunBefore(i + 1) = RunBefore(i) \cup {i}
      <4>1. (i + 1) - 1 = i
        OBVIOUS
      <4>2. \A j \in 1..i : j..i = (j..(i - 1)) \cup {i}
        OBVIOUS
      <4>3. i..(i - 1) = {} /\ 1..i = (1..(i - 1)) \cup {i}
        OBVIOUS
      <4> QED
        BY <2>2, <4>1, <4>2, <4>3 DEF RunBefore
    <3>2. IsFiniteSet(RunBefore(i)) /\ i \notin RunBefore(i)
      <4>1. IsFiniteSet(1..(i - 1)) /\ i \notin 1..(i - 1)
        BY FS_Interval
      <4>2. RunBefore(i) \subseteq 1..(i - 1)
        BY DEF RunBefore
      <4> QED
        BY <4>1, <4>2, FS_Subset
    <3>3. PICK length \in Nat : length = Cardinality(RunBefore(i))
      BY <3>2, FS_CardinalityType
    <3>4. Cardinality(RunBefore(i + 1)) = length + 1
      BY <3>1, <3>2, <3>3, FS_AddElement
    <3>5. (length + 1) % 2 = 0 <=> length % 2 # 0
      OBVIOUS
    <3> QED
      BY <2>2, <3>3, <3>4, <3>5 DEF ReadAt
  <2> QED
    BY <2>1, <2>2
<1> QED
  BY <1>1, <1>2
-----------------------------------------------------------------------------
(* Parsing: what was read so far *)

ParserTypes == /\ params \in Argvs /\ at \in 1..(Len(params) + 1)
               /\ DOMAIN values = Arguments
               /\ positional_args \in Seq(Arguments)
               /\ Len(positional_args) <= Len(Positionals)
               /\ return_result \in BOOLEAN

(* The place of a word among the words                                     *)
Rank(i) == Cardinality({j \in Words : j <= i})

Options == Arguments \ {Positionals[i] : i \in DOMAIN Positionals}

Mentioned(a, before) == {i \in Mentions(a) : i < before}

(* Each option has the value that goes with its last mention so far.       *)
OptionsSoFar(before) ==
    \A a \in Options :
       IF Mentioned(a, before) = {} THEN values[a] = Absent
       ELSE \E i \in Mentioned(a, before) :
               /\ \A j \in Mentioned(a, before) : j <= i
               /\ values[a] = IF a \in Valued THEN params[i + 1] ELSE True

WordsBefore(before) == {i \in Words : i < before}

(* The words so far are the values of the first positional arguments.      *)
WordsSoFar(before, count) ==
    /\ count = Cardinality(WordsBefore(before))
    /\ Len(positional_args) = Len(Positionals) - count
    /\ \A i \in 1..Len(positional_args) : positional_args[i] = Positionals[count + i]
    /\ \A i \in WordsBefore(before) :
          Rank(i) \in 1..count /\ values[Positionals[Rank(i)]] = params[i]
    /\ \A n \in 1..count : \E i \in WordsBefore(before) : Rank(i) = n
    /\ \A n \in (count + 1)..Len(Positionals) : values[Positionals[n]] = Absent

ParsedSoFar == /\ ParserTypes
               /\ Parsing => ReadAt(at)
               /\ ~return_result => /\ OptionsSoFar(at)
                                    /\ \E count \in 0..Len(Positionals) : WordsSoFar(at, count)

LEMMA ParsedInit == ParserInit => ParsedSoFar
<1> SUFFICES ASSUME ParserInit PROVE ParsedSoFar
  OBVIOUS
<1>1. Len(params) \in Nat
  BY ArgvsAssumption DEF ParserInit
<1>2. Positionals \in Seq(Arguments) /\ Len(Positionals) \in Nat
  BY ArgumentsAssumption
<1>3. ParserTypes
  <2>1. at \in 1..(Len(params) + 1)
    BY <1>1 DEF ParserInit
  <2>2. params \in Argvs /\ DOMAIN values = Arguments /\ return_result \in BOOLEAN
    BY DEF ParserInit
  <2>3. positional_args \in Seq(Arguments) /\ Len(positional_args) <= Len(Positionals)
    BY <1>2 DEF ParserInit
  <2> QED
    BY <2>1, <2>2, <2>3 DEF ParserTypes
<1>4. OptionsSoFar(1)
  <2>1. \A a : Mentioned(a, 1) = {}
    BY <1>1 DEF Mentioned, Mentions
  <2> QED
    BY <2>1 DEF OptionsSoFar, ParserInit, Options
<1>5. WordsSoFar(1, 0)
  <2>1. WordsBefore(1) = {}
    BY <1>1 DEF WordsBefore, Words
  <2>2. Cardinality({}) = 0
    BY FS_EmptySet
  <2>3. \A n \in 1..Len(Positionals) : values[Positionals[n]] = Absent
    BY <1>2 DEF ParserInit
  <2>4. \A i \in 1..Len(Positionals) : 0 + i = i
    BY <1>2
  <2>5. positional_args = Positionals
    BY DEF ParserInit
  <2>6. PICK all \in Nat : all = Len(Positionals)
    BY <1>2
  <2>7. /\ all - 0 = all /\ 1..0 = {} /\ 0 + 1 = 1
        /\ \A i \in 1..all : positional_args[i] = Positionals[0 + i]
    BY <2>4, <2>5, <2>6
  <2> QED
    BY <2>1, <2>2, <2>3, <2>5, <2>6, <2>7 DEF WordsSoFar
<1> QED
  BY <1>2, <1>3, <1>4, <1>5, Runs DEF ParsedSoFar, ParserInit
LEMMA SameLine ==
    params' = params =>
        /\ \A i : ReadAt(i)' = ReadAt(i) /\ Rank(i)' = Rank(i)
        /\ \A a, before : Mentioned(a, before)' = Mentioned(a, before)
        /\ \A before : WordsBefore(before)' = WordsBefore(before)
  BY DEF ReadAt, RunBefore, Rank, Words, Mentioned, Mentions, WordsBefore

LEMMA WordsFinite == params \in Argvs => IsFiniteSet(Words)
<1> SUFFICES ASSUME params \in Argvs PROVE IsFiniteSet(Words)
  OBVIOUS
<1>1. Len(params) \in Nat
  BY ArgvsAssumption
<1>2. IsFiniteSet(1..Len(params)) /\ Words \subseteq 1..Len(params)
  BY <1>1, FS_Interval DEF Words
<1> QED
  BY <1>2, FS_Subset

(* What the element at `here' adds when the parser comes to `next'         *)
LEMMA Advance ==
    ASSUME params \in Argvs, NEW here \in 1..Len(params), ReadAt(here), NEW next,
           \/ next = here + 1
           \/ next = here + 2 /\ here < Len(params) /\ ~ReadAt(here + 1)
    PROVE  /\ \A a : Mentioned(a, next) = Mentioned(a, here)
                        \cup IF a \in Named(params[here]) THEN {here} ELSE {}
           /\ WordsBefore(next) = WordsBefore(here)
                        \cup IF params[here].kind = "word" THEN {here} ELSE {}
<1>1. PICK all \in Nat : all = Len(params)
  BY ArgvsAssumption
<1>2. \A i \in 1..all : ReadAt(i) => (i < next <=> i < here \/ i = here)
  BY <1>1
<1>3. \A a : Mentioned(a, next) = Mentioned(a, here)
                        \cup IF a \in Named(params[here]) THEN {here} ELSE {}
  BY <1>1, <1>2 DEF Mentioned, Mentions
<1>4. WordsBefore(next) = WordsBefore(here)
                        \cup IF params[here].kind = "word" THEN {here} ELSE {}
  BY <1>1, <1>2 DEF WordsBefore, Words
<1> QED
  BY <1>3, <1>4

LEMMA OptionParsed == ParsedSoFar /\ ParseOption => ParsedSoFar'
<1> SUFFICES ASSUME ParsedSoFar, ParseOption PROVE ParsedSoFar'
  OBVIOUS
<1>1. PICK here \in Nat, all \in Nat : here = at /\ all = Len(params) /\ here \in 1..all
  BY ArgvsAssumption DEF ParsedSoFar, ParserTypes, ParseOption, Parsing
<1>2. /\ params \in Argvs /\ params' = params /\ positional_args' = positional_args
      /\ ReadAt(here) /\ params[here].kind \in {"long", "short"}
      /\ return_result' = (return_result \/ Unknown(params[here]) # {}
                           \/ (~(here < all) /\ TakesNext(params[here])))
  BY <1>1 DEF ParsedSoFar, ParserTypes, ParseOption, HasValue, TakesNext
<1>3. PICK next \in Nat : /\ next = at'
                         /\ next = here + 1 + IF here < all /\ TakesNext(params[here]) THEN 1 ELSE 0
  BY <1>1, Skips DEF ParseOption, HasValue
<1>4. ReadAt(here + 1) <=> ~TakesNext(params[here])
  <2>1. here \in Nat \ {0}
    BY <1>1
  <2>2. ReadAt(here + 1) <=> ~TakesNext(params[here]) \/ ~ReadAt(here)
    BY <2>1, Runs
  <2> QED
    BY <1>2, <2>2
<1>5. \/ next = here + 1 /\ (~TakesNext(params[here]) \/ here = all)
      \/ next = here + 2 /\ here < all /\ ~ReadAt(here + 1)
  BY <1>1, <1>3, <1>4
<1>6. next \in 1..(all + 1)
  BY <1>1, <1>5
<1>7. next <= all => ReadAt(next)
  <2>1. (here + 1) + 1 = here + 2 /\ here + 1 \in Nat \ {0}
    OBVIOUS
  <2>2. ~ReadAt(here + 1) => ReadAt(here + 2)
    BY <2>1, Runs
  <2> QED
    BY <1>1, <1>4, <1>5, <2>2
<1>8. ParserTypes'
  <2>1. DOMAIN values' = Arguments
    BY DEF ParseOption
  <2>2. return_result' \in BOOLEAN
    BY <1>2
  <2> QED
    BY <1>1, <1>2, <1>3, <1>6, <2>1, <2>2 DEF ParsedSoFar, ParserTypes
<1>9. /\ \A a : Mentioned(a, next) = Mentioned(a, here)
                    \cup IF a \in Named(params[here]) THEN {here} ELSE {}
      /\ WordsBefore(next) = WordsBefore(here)
  BY <1>1, <1>2, <1>5, Advance
<1>10. ASSUME ~return_result' PROVE OptionsSoFar(next)'
  <2>1. OptionsSoFar(here) /\ (TakesNext(params[here]) => here < all)
    BY <1>1, <1>2, <1>10 DEF ParsedSoFar
  <2>2. ASSUME NEW a \in Options
        PROVE  IF Mentioned(a, next) = {} THEN values'[a] = Absent
               ELSE \E i \in Mentioned(a, next) :
                       /\ \A j \in Mentioned(a, next) : j <= i
                       /\ values'[a] = IF a \in Valued THEN params[i + 1] ELSE True
    <3>1. CASE a \in Named(params[here])
      <4>1. values'[a] = IF a \in Valued THEN params[here + 1] ELSE True
        BY <1>1, <2>1, <3>1, NamedTakes DEF ParseOption, HasValue, Options
      <4>2. here \in Mentioned(a, next) /\ \A j \in Mentioned(a, next) : j <= here
        <5>1. \A j \in Mentioned(a, here) : j <= here
          BY <1>1 DEF Mentioned, Mentions
        <5> QED
          BY <1>9, <3>1, <5>1
      <4> QED
        BY <4>1, <4>2
    <3>2. CASE a \notin Named(params[here])
      <4>1. values'[a] = values[a] /\ Mentioned(a, next) = Mentioned(a, here)
        BY <1>1, <1>9, <3>2 DEF ParseOption, Options
      <4> QED
        BY <2>1, <4>1 DEF OptionsSoFar
    <3> QED
      BY <3>1, <3>2
  <2> QED
    BY <1>2, <2>2, SameLine DEF OptionsSoFar
<1>11. ASSUME ~return_result' PROVE \E count \in 0..Len(Positionals) : WordsSoFar(next, count)'
  <2>1. PICK count \in 0..Len(Positionals) : WordsSoFar(here, count)
    BY <1>1, <1>2, <1>11 DEF ParsedSoFar
  <2>2. \A i \in DOMAIN Positionals : values'[Positionals[i]] = values[Positionals[i]]
    BY <1>1, NamedTakes, ArgumentsAssumption DEF ParseOption
  <2>3. PICK ids \in Nat : ids = Len(Positionals) /\ DOMAIN Positionals = 1..ids
    BY ArgumentsAssumption
  <2>4. /\ \A i \in WordsBefore(here) :
              Rank(i) \in 1..count /\ values'[Positionals[Rank(i)]] = params[i]
        /\ \A n \in (count + 1)..Len(Positionals) : values'[Positionals[n]] = Absent
    <3>1. 1..count \subseteq DOMAIN Positionals /\ (count + 1)..ids \subseteq DOMAIN Positionals
      BY <2>1, <2>3
    <3> QED
      BY <2>1, <2>2, <2>3, <3>1 DEF WordsSoFar
  <2>5. /\ WordsBefore(next)' = WordsBefore(here)
        /\ \A i : Rank(i)' = Rank(i)
    BY <1>2, <1>9, SameLine
  <2>6. \A i \in WordsBefore(next)' :
           Rank(i)' \in 1..count /\ values'[Positionals[Rank(i)']] = params'[i]
    BY <1>2, <2>4, <2>5
  <2>7. WordsSoFar(next, count)'
    BY <1>2, <2>1, <2>4, <2>5, <2>6 DEF WordsSoFar
  <2> QED
    BY <2>1, <2>7
<1>12. Parsing' => ReadAt(at)'
  BY <1>1, <1>2, <1>3, <1>7 DEF Parsing, ReadAt, RunBefore
<1>13. ~return_result' => OptionsSoFar(at)'
  BY <1>3, <1>10 DEF OptionsSoFar, Mentioned
<1>14. ~return_result' => \E count \in 0..Len(Positionals) : WordsSoFar(at, count)'
  BY <1>3, <1>11 DEF WordsSoFar, WordsBefore
<1> QED
  BY <1>8, <1>12, <1>13, <1>14 DEF ParsedSoFar
LEMMA Tails ==
    \A s \in Seq(Arguments) : s # <<>> =>
        /\ Tail(s) \in Seq(Arguments) /\ Len(Tail(s)) = Len(s) - 1
        /\ \A i \in 1..(Len(s) - 1) : Tail(s)[i] = s[i + 1]
  OBVIOUS

LEMMA WordParsed == ParsedSoFar /\ ParseWord => ParsedSoFar'
<1> SUFFICES ASSUME ParsedSoFar, ParseWord PROVE ParsedSoFar'
  OBVIOUS
<1>1. PICK here \in Nat, all \in Nat : here = at /\ all = Len(params) /\ here \in 1..all
  BY ArgvsAssumption DEF ParsedSoFar, ParserTypes, ParseWord, Parsing
<1>2. /\ params \in Argvs /\ params' = params /\ at' = here + 1
      /\ ReadAt(here) /\ params[here].kind = "word"
      /\ positional_args \in Seq(Arguments) /\ Len(positional_args) <= Len(Positionals)
      /\ DOMAIN values = Arguments /\ return_result \in BOOLEAN
  BY <1>1 DEF ParsedSoFar, ParserTypes, ParseWord
<1>3. Named(params[here]) = {} /\ ~TakesNext(params[here]) /\ ReadAt(here + 1)
  <2>1. Named(params[here]) = {} /\ ~TakesNext(params[here])
    <3>1. PICK param : param = params[here]
      OBVIOUS
    <3> QED
      BY <1>2, <3>1, WordsTakeNothing
  <2>2. here \in Nat \ {0}
    BY <1>1
  <2>3. ReadAt(here + 1) <=> ~TakesNext(params[here]) \/ ~ReadAt(here)
    BY <2>2, Runs
  <2> QED
    BY <2>1, <2>3
<1>4. \/ /\ positional_args = <<>> /\ return_result' = TRUE
         /\ values' = values /\ positional_args' = positional_args
      \/ /\ positional_args # <<>> /\ return_result' = return_result
         /\ values' = [values EXCEPT ![Head(positional_args)] = params[here]]
         /\ positional_args' = Tail(positional_args)
  BY <1>1 DEF ParseWord
<1>5. ParserTypes'
  <2>1. here + 1 \in 1..(all + 1)
    BY <1>1
  <2>2. Len(Positionals) \in Nat
    BY ArgumentsAssumption
  <2>3. positional_args' \in Seq(Arguments) /\ Len(positional_args') <= Len(Positionals)
    <3>1. CASE positional_args' = positional_args
      BY <1>2, <3>1
    <3>2. CASE positional_args # <<>> /\ positional_args' = Tail(positional_args)
      <4>1. Len(positional_args) \in Nat
        BY <1>2
      <4>2. positional_args' \in Seq(Arguments) /\ Len(positional_args') = Len(positional_args) - 1
        BY <1>2, <3>2, Tails
      <4> QED
        BY <1>2, <2>2, <4>1, <4>2
    <3> QED
      BY <1>4, <3>1, <3>2
  <2>4. DOMAIN values' = Arguments /\ return_result' \in BOOLEAN
    BY <1>2, <1>4
  <2> QED
    BY <1>1, <1>2, <2>1, <2>3, <2>4 DEF ParserTypes
<1>6. /\ \A a : Mentioned(a, here + 1) = Mentioned(a, here)
      /\ WordsBefore(here + 1) = WordsBefore(here) \cup {here}
  <2>1. /\ \A a : Mentioned(a, here + 1) = Mentioned(a, here)
                        \cup IF a \in Named(params[here]) THEN {here} ELSE {}
        /\ WordsBefore(here + 1) = WordsBefore(here)
                        \cup IF params[here].kind = "word" THEN {here} ELSE {}
    BY <1>1, <1>2, Advance
  <2> QED
    BY <1>2, <1>3, <2>1
<1>7. ASSUME ~return_result'
      PROVE  OptionsSoFar(here + 1)' /\ \E count \in 0..Len(Positionals) : WordsSoFar(here + 1, count)'
  <2>1. /\ OptionsSoFar(here) /\ positional_args # <<>>
        /\ values' = [values EXCEPT ![Head(positional_args)] = params[here]]
        /\ positional_args' = Tail(positional_args)
    BY <1>1, <1>2, <1>4, <1>7 DEF ParsedSoFar
  <2>2. PICK count \in 0..Len(Positionals) : WordsSoFar(here, count)
    BY <1>1, <1>2, <1>4, <1>7 DEF ParsedSoFar
  <2>3. PICK ids \in Nat : ids = Len(Positionals) /\ DOMAIN Positionals = 1..ids
    BY ArgumentsAssumption
  <2>4. PICK left \in Nat : left = Len(positional_args)
    BY <1>2
  <2>5. /\ left = ids - count /\ left > 0 /\ count + 1 \in 1..ids
        /\ Head(positional_args) = Positionals[count + 1]
    <3>1. left = ids - count /\ left > 0
      BY <1>2, <2>1, <2>2, <2>3, <2>4 DEF WordsSoFar
    <3>2. count + 1 \in 1..ids /\ 1 \in 1..left
      BY <2>2, <2>3, <3>1
    <3>3. Head(positional_args) = positional_args[1]
      BY <1>2, <2>1
    <3> QED
      BY <2>2, <2>4, <3>1, <3>2, <3>3 DEF WordsSoFar
  <2>6. /\ values'[Positionals[count + 1]] = params[here]
        /\ \A n \in 1..ids : n # count + 1 => values'[Positionals[n]] = values[Positionals[n]]
        /\ \A a \in Options : values'[a] = values[a]
    <3>1. \A n \in 1..ids : Positionals[n] \in Arguments
                            /\ (n # count + 1 => Positionals[n] # Positionals[count + 1])
      BY <2>3, <2>5, ArgumentsAssumption, DeclarationsAssumption
    <3> QED
      BY <1>2, <2>1, <2>3, <2>5, <3>1 DEF Options
  <2>7. OptionsSoFar(here + 1)'
    BY <1>2, <1>6, <2>1, <2>6, SameLine DEF OptionsSoFar
  <2>8. WordsSoFar(here + 1, count + 1)'
    <3>1. Cardinality(WordsBefore(here)) = count
      BY <2>2 DEF WordsSoFar
    <3>2. Cardinality(WordsBefore(here) \cup {here}) = count + 1
      <4>1. WordsBefore(here) \subseteq Words /\ here \notin WordsBefore(here)
        BY <1>1 DEF WordsBefore
      <4>2. IsFiniteSet(WordsBefore(here))
        BY <1>2, <4>1, WordsFinite, FS_Subset
      <4> QED
        BY <3>1, <4>1, <4>2, FS_AddElement
    <3>3. Rank(here) = count + 1
      <4>1. {j \in Words : j <= here} = WordsBefore(here) \cup {here}
        BY <1>1, <1>2 DEF WordsBefore, Words
      <4> QED
        BY <3>2, <4>1 DEF Rank
    <3>4. /\ Len(positional_args') = ids - (count + 1)
          /\ \A i \in 1..Len(positional_args') :
                positional_args'[i] = Positionals[(count + 1) + i]
      <4>1. Len(positional_args') = left - 1
            /\ \A i \in 1..(left - 1) : positional_args'[i] = positional_args[i + 1]
        BY <1>2, <2>1, <2>4, Tails
      <4>2. \A i \in 1..(left - 1) : i + 1 \in 1..left /\ count + (i + 1) = (count + 1) + i
        OBVIOUS
      <4>3. \A i \in 1..left : positional_args[i] = Positionals[count + i]
        BY <2>2, <2>4 DEF WordsSoFar
      <4>4. left - 1 = ids - (count + 1)
        BY <2>5
      <4> QED
        BY <4>1, <4>2, <4>3, <4>4
    <3>5. \A i \in WordsBefore(here) \cup {here} :
             Rank(i) \in 1..(count + 1) /\ values'[Positionals[Rank(i)]] = params[i]
      <4>1. \A i \in WordsBefore(here) :
               Rank(i) \in 1..count /\ values[Positionals[Rank(i)]] = params[i]
        BY <2>2 DEF WordsSoFar
      <4>2. \A n \in 1..count : n \in 1..(count + 1) /\ n \in 1..ids /\ n # count + 1
        BY <2>2, <2>3
      <4>3. count + 1 \in 1..(count + 1)
        OBVIOUS
      <4> QED
        BY <2>6, <3>3, <4>1, <4>2, <4>3
    <3>6. \A n \in 1..(count + 1) : \E i \in WordsBefore(here) \cup {here} : Rank(i) = n
      <4>1. \A n \in 1..count : \E i \in WordsBefore(here) : Rank(i) = n
        BY <2>2 DEF WordsSoFar
      <4>2. \A n \in 1..(count + 1) : n \in 1..count \/ n = count + 1
        OBVIOUS
      <4> QED
        BY <3>3, <4>1, <4>2
    <3>7. \A n \in ((count + 1) + 1)..ids : values'[Positionals[n]] = Absent
      <4>1. \A n \in (count + 1)..ids : values[Positionals[n]] = Absent
        BY <2>2, <2>3 DEF WordsSoFar
      <4>2. \A n \in ((count + 1) + 1)..ids :
               n \in (count + 1)..ids /\ n \in 1..ids /\ n # count + 1
        OBVIOUS
      <4> QED
        BY <2>6, <4>1, <4>2
    <3>8. /\ WordsBefore(here + 1)' = WordsBefore(here) \cup {here}
          /\ \A i : Rank(i)' = Rank(i)
      BY <1>2, <1>6, SameLine
    <3>9. \A i \in WordsBefore(here + 1)' :
             Rank(i)' \in 1..(count + 1) /\ values'[Positionals[Rank(i)']] = params'[i]
      BY <1>2, <3>5, <3>8
    <3> QED
      BY <2>3, <3>2, <3>4, <3>6, <3>7, <3>8, <3>9 DEF WordsSoFar
  <2>9. count + 1 \in 0..Len(Positionals)
    BY <2>3, <2>5
  <2> QED
    BY <2>7, <2>8, <2>9
<1>8. Parsing' => ReadAt(at)'
  BY <1>2, <1>3 DEF ReadAt, RunBefore
<1>9. ~return_result' => OptionsSoFar(at)'
  BY <1>2, <1>7 DEF OptionsSoFar, Mentioned
<1>10. ~return_result' => \E count \in 0..Len(Positionals) : WordsSoFar(at, count)'
  BY <1>2, <1>7 DEF WordsSoFar, WordsBefore
<1> QED
  BY <1>5, <1>8, <1>9, <1>10 DEF ParsedSoFar

LEMMA ParsedStep == ParsedSoFar /\ [ParserNext]_parserVars => ParsedSoFar'
<1> SUFFICES ASSUME ParsedSoFar, [ParserNext]_parserVars PROVE ParsedSoFar'
  OBVIOUS
<1>1. CASE UNCHANGED parserVars
  <2>1. UNCHANGED <<params, at, values, positional_args, return_result>>
    BY <1>1 DEF parserVars
  <2>2. OptionsSoFar(at)' = OptionsSoFar(at) /\ \A n : WordsSoFar(at, n)' = WordsSoFar(at, n)
    BY <2>1, SameLine DEF OptionsSoFar, WordsSoFar
  <2>3. ParserTypes' /\ Parsing' = Parsing /\ ReadAt(at)' = ReadAt(at)
    BY <2>1 DEF ParsedSoFar, ParserTypes, Parsing, ReadAt, RunBefore
  <2> QED
    BY <2>1, <2>2, <2>3 DEF ParsedSoFar
<1> QED
  BY <1>1, OptionParsed, WordParsed DEF ParserNext

LEMMA ParsedAll == ParsedSoFar => ParsedAsWritten
<1> SUFFICES ASSUME ParsedSoFar, ~Parsing, ~return_result
             PROVE  /\ \A a \in Options :
                          values[a] = IF Mentions(a) = {} THEN Absent
                                      ELSE IF a \notin Valued THEN True
                                      ELSE params[1 + CHOOSE i \in Mentions(a) :
                                                         \A j \in Mentions(a) : j <= i]
                    /\ Cardinality(Words) <= Len(Positionals)
                    /\ \A n \in DOMAIN Positionals : values[Positionals[n]] = Given(n)
  BY DEF ParsedAsWritten, Options
<1>1. PICK all \in Nat : all = Len(params) /\ at = all + 1
  BY ArgvsAssumption DEF ParsedSoFar, ParserTypes, Parsing
<1>2. WordsBefore(at) = Words /\ \A a : Mentioned(a, at) = Mentions(a) /\ Mentions(a) \subseteq 1..all
  BY <1>1 DEF WordsBefore, Words, Mentioned, Mentions
<1>3. PICK count \in 0..Len(Positionals) : WordsSoFar(at, count)
  BY DEF ParsedSoFar
<1>4. ASSUME NEW a \in Options
      PROVE  values[a] = IF Mentions(a) = {} THEN Absent
                         ELSE IF a \notin Valued THEN True
                         ELSE params[1 + CHOOSE i \in Mentions(a) :
                                            \A j \in Mentions(a) : j <= i]
  <2>1. PICK last : last = CHOOSE i \in Mentions(a) : \A j \in Mentions(a) : j <= i
    OBVIOUS
  <2>2. CASE Mentions(a) = {}
    BY <1>2, <2>2 DEF ParsedSoFar, OptionsSoFar
  <2>3. CASE Mentions(a) # {}
    <3>1. PICK i \in Mentions(a) : /\ \A j \in Mentions(a) : j <= i
                                  /\ values[a] = IF a \in Valued THEN params[i + 1] ELSE True
      BY <1>2, <2>3 DEF ParsedSoFar, OptionsSoFar
    <3>2. last \in Mentions(a) /\ \A j \in Mentions(a) : j <= last
      BY <2>1, <3>1
    <3>3. last = i /\ 1 + last = i + 1
      BY <1>2, <3>1, <3>2
    <3> QED
      BY <2>1, <2>3, <3>1, <3>3
  <2> QED
    BY <2>2, <2>3
<1>5. PICK ids \in Nat : ids = Len(Positionals) /\ DOMAIN Positionals = 1..ids
  BY ArgumentsAssumption
<1>6. Cardinality(Words) <= Len(Positionals)
  BY <1>2, <1>3, <1>5 DEF WordsSoFar
<1>7. ASSUME NEW n \in DOMAIN Positionals PROVE values[Positionals[n]] = Given(n)
  <2>1. Nth(n) = {i \in Words : Rank(i) = n}
    BY DEF Nth, Rank
  <2>2. CASE n \in 1..count
    <3>1. Nth(n) # {}
      BY <1>2, <1>3, <2>1, <2>2 DEF WordsSoFar
    <3>2. PICK i \in Nth(n) : i = CHOOSE j \in Nth(n) : TRUE
      BY <3>1
    <3> QED
      BY <1>2, <1>3, <2>1, <3>1, <3>2 DEF WordsSoFar, Given
  <2>3. CASE n \notin 1..count
    <3>1. Nth(n) = {} /\ n \in (count + 1)..Len(Positionals)
      BY <1>2, <1>3, <1>5, <2>1, <2>3 DEF WordsSoFar
    <3> QED
      BY <1>3, <3>1 DEF WordsSoFar, Given
  <2> QED
    BY <2>2, <2>3
<1> QED
  BY <1>4, <1>6, <1>7

-----------------------------------------------------------------------------
(* Main, from the arguments to the listener *)

(* Nor does it touch what the parser read.                                 *)
LEMMA StartupParses == [StartupNext]_startupVars => [ParserNext]_parserVars
  BY DEF StartupNext, startupVars, Parse, Refuse, Inform, ForceRemove, Reload, ReadOptions,
         LoadRules, NoAction, Dump, Debug, Proceed, TryCreate, CreateCgroups, Ended, Moves, Goes

(* parse_args, on every command line and for every set of declarations     *)
(* main may make: the loop, which sees one element at a time and moves its *)
(* index on while it reads a value, gives each argument what the line says *)
(* as a whole.                                                             *)
THEOREM ParsedCorrectly == StartupSpec => []ParsedAsWritten
<1>1. StartupInit => ParsedSoFar
  BY ParsedInit DEF StartupInit
<1>2. ParsedSoFar /\ [StartupNext]_startupVars => ParsedSoFar'
  BY ParsedStep, StartupParses
<1> QED
  BY <1>1, <1>2, ParsedAll, PTL DEF StartupSpec

MainTypes == /\ pc \in Ends \cup {"parse", "rules", "create", "created", "listener"}
             /\ root \in BOOLEAN /\ object \in {"none", "other's", "own"} /\ sent \in BOOLEAN
             /\ conf_file \in {"none", "default", "good", "bad"}

LEMMA MainTypesStep == MainTypes /\ [StartupNext]_startupVars => MainTypes'
<1> SUFFICES ASSUME MainTypes, [StartupNext]_startupVars PROVE MainTypes'
  OBVIOUS
<1> USE DEF MainTypes, Ends, Moves, Goes, mainVars
<1>1. CASE UNCHANGED startupVars
  BY <1>1 DEF startupVars
<1>2. CASE Parse \/ LoadRules \/ Ended
  BY <1>2 DEF Parse, LoadRules, Ended, startupVars
<1>3. CASE Refuse \/ Inform
  BY <1>3 DEF Refuse, Inform
<1>4. CASE ForceRemove \/ Reload
  BY <1>4 DEF ForceRemove, Reload
<1>5. CASE ReadOptions
  BY <1>5 DEF ReadOptions
<1>6. CASE NoAction \/ Dump \/ Debug \/ Proceed
  BY <1>6 DEF NoAction, Dump, Debug, Proceed
<1>7. CASE TryCreate \/ CreateCgroups
  BY <1>7 DEF TryCreate, CreateCgroups
<1> QED
  BY <1>1, <1>2, <1>3, <1>4, <1>5, <1>6, <1>7 DEF StartupNext

(* Types of the parser, the loader and main together: the index never goes *)
(* past the end of the command line, whatever takes a value.               *)
THEOREM StartupTypeCorrect == StartupSpec => []StartupTypeOK
<1>1. StartupInit => ParsedSoFar /\ LoadedSoFar /\ MainTypes
  BY ParsedInit, LoadedInit DEF StartupInit, MainTypes
<1>2. ParsedSoFar /\ LoadedSoFar /\ MainTypes /\ [StartupNext]_startupVars
        => ParsedSoFar' /\ LoadedSoFar' /\ MainTypes'
  BY ParsedStep, StartupParses, LoadedStep, StartupLoads, MainTypesStep
<1>3. ParsedSoFar /\ LoadedSoFar /\ MainTypes => StartupTypeOK
  BY DEF ParsedSoFar, ParserTypes, LoadedSoFar, RulesTypes, MainTypes, StartupTypeOK
<1> QED
  BY <1>1, <1>2, <1>3, PTL DEF StartupSpec

Requests == {"help", "version", "force-remove-semaphore", "reload"}

(* What main has seen of the command line by the time it is at a point     *)
(* beyond the arguments                                                    *)
SeenSoFar ==
    /\ pc \in {"rules", "create", "created", "listener"} =>
          ~Parsing /\ ~return_result /\ \A a \in Requests : ~Flag(a)
    /\ pc \in {"create", "created", "listener"} =>
          root /\ values["action"] \notin {Absent, Word("dump"), Word("debug")}
    /\ pc \in {"parse", "rules", "create"} => object # "own"
    /\ pc = "parse" => ~sent

LEMMA SeenStep == MainTypes /\ SeenSoFar /\ [StartupNext]_startupVars => SeenSoFar'
<1> SUFFICES ASSUME MainTypes, SeenSoFar, [StartupNext]_startupVars PROVE SeenSoFar'
  OBVIOUS
<1> USE DEF SeenSoFar, Ends, Moves, Goes, mainVars, parserVars
<1>1. CASE UNCHANGED startupVars
  BY <1>1 DEF startupVars, Parsing, Flag
<1>2. CASE Parse \/ Ended
  BY <1>2 DEF Parse, Ended, startupVars, Parsing, Flag
<1>3. CASE Refuse \/ Inform \/ ForceRemove \/ Reload
  BY <1>3 DEF Refuse, Inform, ForceRemove, Reload, MainTypes
<1>4. CASE ReadOptions
  BY <1>4 DEF ReadOptions, Requests, Parsing, Flag
<1>5. CASE LoadRules
  BY <1>5 DEF LoadRules, Parsing, Flag
<1>6. CASE NoAction \/ Dump \/ Debug
  BY <1>6 DEF NoAction, Dump, Debug
<1>7. CASE Proceed
  BY <1>7 DEF Proceed, Action, Parsing, Flag
<1>8. CASE TryCreate \/ CreateCgroups
  BY <1>8 DEF TryCreate, CreateCgroups, Parsing, Flag
<1> QED
  BY <1>1, <1>2, <1>3, <1>4, <1>5, <1>6, <1>7, <1>8 DEF StartupNext

(* A request that the parser does not report was not made.                 *)
LEMMA RequestsHeard ==
    ParsedAsWritten /\ ~Parsing /\ ~return_result => \A a \in Requests : Flag(a) <=> Asked(a)
<1> SUFFICES ASSUME ParsedAsWritten, ~Parsing, ~return_result, NEW a \in Requests
             PROVE  Flag(a) <=> Asked(a)
  OBVIOUS
<1>1. /\ a \in Arguments \ {Positionals[i] : i \in DOMAIN Positionals}
      /\ a \notin Valued /\ Absent # True
  BY MainAssumption, RequestsAssumption DEF Requests
<1>2. values[a] = IF Mentions(a) = {} THEN Absent ELSE True
  BY <1>1 DEF ParsedAsWritten
<1> QED
  BY <1>1, <1>2 DEF Flag, Asked

LEMMA StepEffects ==
    MainTypes /\ SeenSoFar /\ ParsedAsWritten /\ [StartupNext]_startupVars => Effects
<1> SUFFICES ASSUME MainTypes, SeenSoFar, ParsedAsWritten, [StartupNext]_startupVars
             PROVE  Effects
  OBVIOUS
<1> USE DEF Moves, Goes, mainVars
<1>1. CASE UNCHANGED <<object, sent, conf_file>>
  BY <1>1 DEF Effects
<1>2. CASE ForceRemove
  <2>1. /\ ~Parsing /\ ~return_result /\ Flag("force-remove-semaphore")
        /\ ~Flag("help") /\ ~Flag("version") /\ object # "own"
        /\ UNCHANGED <<sent, conf_file>>
        /\ object' # object => object' = "none" /\ root
    BY <1>2 DEF ForceRemove, Requested, SeenSoFar
  <2>2. Asked("force-remove-semaphore") /\ ~Asked("help") /\ ~Asked("version")
    BY <2>1, RequestsHeard DEF Requests
  <2> QED
    BY <2>1, <2>2 DEF Effects, MainTypes
<1>3. CASE Reload
  <2>1. /\ ~Parsing /\ ~return_result /\ Flag("reload") /\ ~Flag("force-remove-semaphore")
        /\ ~Flag("help") /\ ~Flag("version") /\ ~sent
        /\ sent' # sent => object # "none"
        /\ UNCHANGED <<object, conf_file>>
    BY <1>3 DEF Reload, Requested, SeenSoFar
  <2>2. Asked("reload") /\ ~Asked("force-remove-semaphore") /\ ~Asked("help") /\ ~Asked("version")
    BY <2>1, RequestsHeard DEF Requests
  <2> QED
    BY <2>1, <2>2 DEF Effects, MainTypes
<1>4. CASE ReadOptions
  <2>1. /\ ~Parsing /\ ~return_result /\ ~Flag("reload") /\ ~Flag("force-remove-semaphore")
        /\ ~Flag("help") /\ ~Flag("version") /\ UNCHANGED <<object, sent>>
        /\ conf_file' # conf_file => conf_file = "none"
    BY <1>4 DEF ReadOptions
  <2>2. ~Asked("reload") /\ ~Asked("force-remove-semaphore") /\ ~Asked("help") /\ ~Asked("version")
    BY <2>1, RequestsHeard DEF Requests
  <2> QED
    BY <2>1, <2>2 DEF Effects
<1>5. CASE TryCreate
  <2>1. /\ ~Parsing /\ ~return_result /\ \A a \in Requests : ~Flag(a)
        /\ root /\ values["action"] \notin {Absent, Word("dump"), Word("debug")}
        /\ UNCHANGED <<sent, conf_file>>
        /\ object' # object => object = "none" /\ object' = "own"
    BY <1>5 DEF TryCreate, SeenSoFar
  <2>2. ~Asked("reload") /\ ~Asked("force-remove-semaphore") /\ ~Asked("help") /\ ~Asked("version")
    BY <2>1, RequestsHeard DEF Requests
  <2>3. values["action"] = ActionAsked
    BY <2>1, RequestsAssumption DEF ParsedAsWritten, ActionAsked
  <2> QED
    BY <2>1, <2>2, <2>3 DEF Effects
<1> QED
  BY <1>1, <1>2, <1>3, <1>4, <1>5
  DEF StartupNext, startupVars, Parse, Refuse, Inform, LoadRules, NoAction, Dump, Debug, Proceed,
      CreateCgroups, Ended

(* main.cpp:96-228, for every command line: an invocation changes the      *)
(* shared memory object, the segment and the configuration file only as    *)
(* its command line asks it to, read without the parser.                   *)
THEOREM OnlyAsAsked == StartupSpec => EffectsAsAsked
<1>1. StartupInit => ParsedSoFar /\ MainTypes /\ SeenSoFar
  BY ParsedInit DEF StartupInit, MainTypes, SeenSoFar
<1>2. ParsedSoFar /\ MainTypes /\ SeenSoFar /\ [StartupNext]_startupVars
        => /\ ParsedSoFar' /\ MainTypes' /\ SeenSoFar'
           /\ Effects
  BY ParsedStep, StartupParses, MainTypesStep, SeenStep, ParsedAll, StepEffects
<1>3. Effects => [Effects]_startupVars
  OBVIOUS
<1> QED
  BY <1>1, <1>2, <1>3, PTL DEF StartupSpec, EffectsAsAsked

-----------------------------------------------------------------------------
(* The worker: types *)

WorkerTypes == TypeOK /\ file \in [Keys -> BOOLEAN] \cup [FileKeys -> BOOLEAN]

LEMMA WorkerTypesInit == Init => WorkerTypes
<1> SUFFICES ASSUME Init PROVE WorkerTypes
  OBVIOUS
<1>1. process_queue \in Seq(Pids \X Names) /\ cur \in Pids \X Names
  <2>1. \A p \in Pids : <<p, name[p]>> \in Pids \X Names
    BY DEF Init
  <2>2. PICK p \in Pids, q \in Pids :
              process_queue \in {<<>>, <<<<p, name[p]>>>>, <<<<p, name[p]>>, <<q, name[q]>>>>}
    BY DEF Init
  <2>3. PICK e \in Pids \X Names, f \in Pids \X Names :
              e = <<p, name[p]>> /\ f = <<q, name[q]>>
    BY <2>1
  <2>4. process_queue \in Seq(Pids \X Names)
    <3>1. process_queue \in {<<>>, <<e>>, <<e, f>>}
      BY <2>2, <2>3
    <3>2. <<>> \in Seq(Pids \X Names) /\ <<e>> \in Seq(Pids \X Names)
      OBVIOUS
    <3>3. <<e, f>> \in Seq(Pids \X Names)
      OBVIOUS
    <3> QED
      BY <3>1, <3>2, <3>3
  <2> QED
    BY <2>1, <2>4 DEF Init
<1>2. config \in [Keys -> BOOLEAN] /\ file \in [Keys -> BOOLEAN] /\ supported \in BOOLEAN
  BY ConfigAssumption DEF Init
<1>3. changes \in 0..MaxChanges /\ reloads \in 0..MaxReloads
  BY BoundAssumption DEF Init
<1>4. attr \in [Pids -> [Attrs -> Names \cup {"own"}]]
  BY DEF Init
<1> QED
  BY <1>1, <1>2, <1>3, <1>4 DEF Init, WorkerTypes, TypeOK

LEMMA NextStepType == \A a \in Attrs \ {"cgroup"} : NextStep(a) \in Attrs
  BY DEF NextStep, Attrs

LEMMA WorkerTypesStep == WorkerTypes /\ [Next]_vars => WorkerTypes'
<1> SUFFICES ASSUME WorkerTypes, [Next]_vars PROVE WorkerTypes'
  OBVIOUS
<1> USE DEF WorkerTypes, TypeOK, configVars, workerVars, historyVars, processVars
<1>1. Pid \in Pids /\ cur[2] \in Names
  BY DEF Pid
<1>2. ASSUME NEW p \in Pids, Exec(p) PROVE WorkerTypes'
  <2>1. PICK n \in Names : /\ name' = [name EXCEPT ![p] = n]
                           /\ process_queue' = Append(process_queue, <<p, n>>)
    BY <1>2 DEF Exec
  <2>2. process_queue' \in Seq(Pids \X Names) /\ name' \in [Pids -> Names]
    BY <2>1
  <2>3. changes' \in 0..MaxChanges
    BY <1>2, BoundAssumption DEF Exec
  <2> QED
    BY <1>2, <2>2, <2>3 DEF Exec
<1>3. ASSUME NEW p \in Pids, Exit(p) PROVE WorkerTypes'
  BY <1>3 DEF Exit
<1>4. CASE BeginReload
  <2>1. reloads' \in 0..MaxReloads
    BY <1>4, BoundAssumption DEF BeginReload
  <2> QED
    BY <1>4, <2>1 DEF BeginReload
<1>5. ASSUME NEW k \in FileKeys, AssignLine(k) PROVE WorkerTypes'
  <2>1. k \in Keys /\ file[k] \in BOOLEAN
    BY ConfigAssumption
  <2>2. config' \in [Keys -> BOOLEAN]
    BY <1>5, <2>1 DEF AssignLine
  <2> QED
    BY <1>5, <2>2 DEF AssignLine
<1>6. CASE EndReload
  <2>1. config' \in [Keys -> BOOLEAN]
    BY <1>6 DEF EndReload
  <2> QED
    BY <1>6, <2>1 DEF EndReload
<1>7. CASE Poll
  <2>1. /\ cur' \in Pids \X Names /\ process_queue' \in Seq(Pids \X Names)
    BY <1>7 DEF Poll
  <2>2. is_realtime' \in BOOLEAN
    BY <1>7, <2>1 DEF Poll
  <2> QED
    BY <1>7, <2>1, <2>2 DEF Poll, Attrs
<1>8. CASE Skip
  BY <1>8, NextStepType DEF Skip
<1>9. CASE Apply
  <2>1. attr' \in [Pids -> [Attrs -> Names \cup {"own"}]]
    BY <1>1, <1>9 DEF Apply
  <2>2. realtime' \in [Pids -> BOOLEAN]
    BY <1>1, <1>9 DEF Apply
  <2> QED
    BY <1>9, <2>1, <2>2, NextStepType DEF Apply
<1>10. CASE ApplyGone \/ ApplyDenied \/ ApplyFails
  <2>1. handled' \in [Pids -> Names \cup {"none"}] /\ troubled' \subseteq Pids
    BY <1>1, <1>10 DEF ApplyGone, ApplyDenied, ApplyFails, Done
  <2>2. wpc' \in Attrs \cup {"poll", "rt_move"}
    BY <1>10, NextStepType DEF ApplyGone, ApplyDenied, ApplyFails, Done
  <2> QED
    BY <1>10, <2>1, <2>2 DEF ApplyGone, ApplyDenied, ApplyFails
<1>11. CASE SkipCgroup
  BY <1>11 DEF SkipCgroup
<1>12. CASE MoveToCgroup \/ RtMove
  <2>1. attr' \in [Pids -> [Attrs -> Names \cup {"own"}]]
    <3>1. ASSUME MoveToCgroup PROVE attr' = attr \/ attr' = [attr EXCEPT ![Pid]["cgroup"] = cur[2]]
      BY <3>1 DEF MoveToCgroup, add_pid_to_cgroup
    <3>2. ASSUME RtMove PROVE attr' = attr
      BY <3>2 DEF RtMove, add_pid_to_cgroup, Accepts
    <3>3. [attr EXCEPT ![Pid]["cgroup"] = cur[2]] \in [Pids -> [Attrs -> Names \cup {"own"}]]
      BY <1>1
    <3> QED
      BY <1>12, <3>1, <3>2, <3>3
  <2>2. handled' \in [Pids -> Names \cup {"none"}] /\ wpc' \in Attrs \cup {"poll", "rt_move"}
    BY <1>1, <1>12 DEF MoveToCgroup, RtMove, Done
  <2> QED
    BY <1>12, <2>1, <2>2 DEF MoveToCgroup, RtMove
<1>13. CASE UNCHANGED vars
  BY <1>13 DEF vars
<1> QED
  BY <1>2, <1>3, <1>4, <1>5, <1>6, <1>7, <1>8, <1>9, <1>10, <1>11, <1>12, <1>13
     DEF Next, Worker

(* The variables of the worker, the processes and the configuration keep   *)
(* their types.                                                            *)
THEOREM WorkerTypeCorrect == Spec => []TypeOK
<1>1. WorkerTypes => TypeOK
  BY DEF WorkerTypes
<1> QED
  BY <1>1, WorkerTypesInit, WorkerTypesStep, PTL DEF Spec

(* Config::reload assigns the lines of the file first and looks at the     *)
(* kernel after them (config.cpp): when it returns, and until the next     *)
(* one, the latency nice is on only if the kernel has it.                  *)
THEOREM LatniceFollowsKernel == Spec => []LatniceSettled
<1>1. Init => LatniceSettled
  BY DEF Init, LatniceSettled
<1>2. WorkerTypes /\ LatniceSettled /\ [Next]_vars => LatniceSettled'
  <2> SUFFICES ASSUME WorkerTypes, LatniceSettled, [Next]_vars PROVE LatniceSettled'
    OBVIOUS
  <2>1. CASE EndReload
    <3>1. config \in [Keys -> BOOLEAN] /\ "latnice" \in Keys
      BY DEF WorkerTypes, TypeOK, Keys, Attrs
    <3>2. config'["latnice"] = (config["latnice"] /\ supported)
      BY <2>1, <3>1 DEF EndReload
    <3> QED
      BY <2>1, <3>2 DEF EndReload, LatniceSettled, processVars
  <2>2. CASE BeginReload \/ \E k \in FileKeys : AssignLine(k)
    BY <2>2 DEF BeginReload, AssignLine, LatniceSettled
  <2>3. CASE UNCHANGED <<config, reloading, supported>>
    BY <2>3 DEF LatniceSettled
  <2>4. \/ EndReload \/ BeginReload \/ \E k \in FileKeys : AssignLine(k)
        \/ UNCHANGED <<config, reloading, supported>>
    BY DEF Next, Worker, vars, configVars, processVars, Exec, Exit, Poll, Skip, Apply, ApplyGone,
           ApplyDenied, ApplyFails, SkipCgroup, MoveToCgroup, RtMove
  <2> QED
    BY <2>1, <2>2, <2>3, <2>4
<1> QED
  BY <1>1, <1>2, WorkerTypesInit, WorkerTypesStep, PTL DEF Spec

-----------------------------------------------------------------------------
(* The worker: the rule of the present name *)

(* The worker has the process p in hand                                    *)
Busy(p) == wpc # "poll" /\ Pid = p

(* The last report of a process in the queue is about its present name;    *)
(* when there is none, the worker has it in hand under that name or has    *)
(* handled it under that name last, if ever.                               *)
LastReport ==
    \A i \in 1..Len(process_queue) :
        (\A j \in 1..Len(process_queue) : j > i => process_queue[j][1] # process_queue[i][1])
        => process_queue[i][2] = name[process_queue[i][1]]

LastHandled ==
    \A p \in Pids : ~Reported(p) => /\ Busy(p) => cur[2] = name[p]
                                    /\ ~Busy(p) => handled[p] \in {"none", name[p]}

Reports == LastReport /\ LastHandled

LEMMA ReportsInit == Init => Reports
<1> SUFFICES ASSUME Init PROVE Reports
  OBVIOUS
<1>1. LastReport
  <2>1. CASE process_queue = <<>>
    BY <2>1 DEF LastReport
  <2>2. ASSUME NEW p \in Pids, process_queue = <<<<p, name[p]>>>>
        PROVE  LastReport
    <3>1. /\ Len(process_queue) = 1 /\ process_queue[1][1] = p
          /\ process_queue[1][2] = name[p]
      BY <2>2
    <3> QED
      BY <3>1 DEF LastReport
  <2>3. ASSUME NEW p \in Pids, NEW q \in Pids,
               process_queue = <<<<p, name[p]>>, <<q, name[q]>>>>
        PROVE  LastReport
    <3>1. /\ Len(process_queue) = 2
          /\ process_queue[1][1] = p /\ process_queue[1][2] = name[p]
          /\ process_queue[2][1] = q /\ process_queue[2][2] = name[q]
      BY <2>3
    <3> QED
      BY <3>1 DEF LastReport
  <2> QED
    BY <2>1, <2>2, <2>3 DEF Init
<1>2. LastHandled
  BY DEF Init, LastHandled, Busy
<1> QED
  BY <1>1, <1>2 DEF Reports

LEMMA ExecReports ==
    ASSUME WorkerTypes, Reports, NEW p \in Pids, Exec(p) PROVE Reports'
<1>1. PICK n \in Names : /\ name' = [name EXCEPT ![p] = n]
                         /\ process_queue' = Append(process_queue, <<p, n>>)
  BY DEF Exec
<1>2. /\ process_queue \in Seq(Pids \X Names) /\ name \in [Pids -> Names]
      /\ UNCHANGED <<wpc, cur, handled>>
  BY DEF WorkerTypes, TypeOK, Exec, workerVars, historyVars
<1>3. PICK last \in Nat : last = Len(process_queue)
  BY <1>2
<1>4. /\ Len(process_queue') = last + 1
      /\ \A i \in 1..last : process_queue'[i] = process_queue[i]
      /\ process_queue'[last + 1] = <<p, n>>
  BY <1>1, <1>2, <1>3
<1>5. name'[p] = n /\ \A q \in Pids : q # p => name'[q] = name[q]
  BY <1>1, <1>2
<1>6. LastReport'
  <2> SUFFICES ASSUME NEW i \in 1..(last + 1),
                      \A j \in 1..(last + 1) : j > i => process_queue'[j][1] # process_queue'[i][1]
               PROVE  process_queue'[i][2] = name'[process_queue'[i][1]]
    BY <1>4 DEF LastReport
  <2>1. CASE i = last + 1
    BY <1>4, <1>5, <2>1
  <2>2. CASE i # last + 1
    <3>1. i \in 1..last /\ last + 1 > i
      BY <2>2
    <3>2. process_queue'[i] = process_queue[i] /\ process_queue[i][1] # p
      BY <1>4, <3>1
    <3>3. \A j \in 1..last : j > i => process_queue[j][1] # process_queue[i][1]
      BY <1>4, <3>1
    <3>4. process_queue[i][2] = name[process_queue[i][1]] /\ process_queue[i][1] \in Pids
      BY <1>2, <1>3, <3>1, <3>3 DEF Reports, LastReport
    <3> QED
      BY <1>5, <3>2, <3>4
  <2> QED
    BY <2>1, <2>2
<1>7. \A q \in Pids : ~Reported(q)' => q # p /\ ~Reported(q)
  BY <1>3, <1>4 DEF Reported
<1>8. LastHandled'
  BY <1>2, <1>5, <1>7 DEF Reports, LastHandled, Busy, Pid
<1> QED
  BY <1>6, <1>8 DEF Reports

LEMMA PollReports ==
    ASSUME WorkerTypes, Reports, Poll PROVE Reports'
<1>1. /\ process_queue \in Seq(Pids \X Names) /\ process_queue # <<>> /\ wpc = "poll"
      /\ cur' = process_queue[1] /\ process_queue' = Tail(process_queue)
      /\ wpc' # "poll" /\ UNCHANGED <<name, handled>>
  BY DEF WorkerTypes, TypeOK, Poll, processVars, historyVars
<1>2. PICK last \in Nat : last = Len(process_queue) /\ last >= 1
  BY <1>1
<1>3. /\ Len(process_queue') = last - 1
      /\ \A i \in 1..(last - 1) : process_queue'[i] = process_queue[i + 1]
  BY <1>1, <1>2
<1>4. LastReport'
  <2> SUFFICES ASSUME NEW i \in 1..(last - 1),
                      \A j \in 1..(last - 1) : j > i => process_queue'[j][1] # process_queue'[i][1]
               PROVE  process_queue'[i][2] = name[process_queue'[i][1]]
    BY <1>1, <1>3 DEF LastReport
  <2>1. i + 1 \in 1..last /\ process_queue'[i] = process_queue[i + 1]
    BY <1>3
  <2>2. ASSUME NEW j \in 1..last, j > i + 1
        PROVE  process_queue[j][1] # process_queue[i + 1][1]
    <3>1. j - 1 \in 1..(last - 1) /\ j - 1 > i /\ (j - 1) + 1 = j
      BY <2>2
    <3> QED
      BY <1>3, <2>1, <3>1
  <2> QED
    BY <1>2, <2>1, <2>2 DEF Reports, LastReport
<1>5. ASSUME NEW p \in Pids, ~Reported(p)'
      PROVE  \A j \in 2..last : process_queue[j][1] # p
  <2> SUFFICES ASSUME NEW j \in 2..last PROVE process_queue[j][1] # p
    OBVIOUS
  <2>1. j - 1 \in 1..(last - 1) /\ (j - 1) + 1 = j
    OBVIOUS
  <2> QED
    BY <1>3, <1>5, <2>1 DEF Reported
<1>6. LastHandled'
  <2> SUFFICES ASSUME NEW p \in Pids, ~Reported(p)'
               PROVE  /\ cur'[1] = p => cur'[2] = name[p]
                      /\ cur'[1] # p => handled[p] \in {"none", name[p]}
    BY <1>1 DEF LastHandled, Busy, Pid
  <2>1. \A j \in 2..last : process_queue[j][1] # p
    BY <1>5
  <2>2. CASE process_queue[1][1] = p
    <3>1. 1 \in 1..last /\ \A j \in 1..last : j > 1 => process_queue[j][1] # process_queue[1][1]
      BY <1>2, <2>1, <2>2
    <3> QED
      BY <1>1, <1>2, <2>2, <3>1 DEF Reports, LastReport
  <2>3. CASE process_queue[1][1] # p
    <3>1. \A j \in 1..last : j = 1 \/ j \in 2..last
      OBVIOUS
    <3>2. ~Reported(p)
      BY <1>2, <2>1, <2>3, <3>1 DEF Reported
    <3> QED
      BY <1>1, <2>3, <3>2 DEF Reports, LastHandled, Busy
  <2> QED
    BY <2>2, <2>3
<1> QED
  BY <1>4, <1>6 DEF Reports

(* The other steps leave the queue alone, and finish with the process in   *)
(* hand or keep it.                                                        *)
LEMMA OtherSteps ==
    ASSUME WorkerTypes, [Next]_vars, ~Poll, \A p \in Pids : ~Exec(p)
    PROVE  /\ UNCHANGED <<process_queue, name, cur>>
           /\ \/ Done /\ wpc # "poll"
              \/ handled' = handled /\ (wpc' = "poll" <=> wpc = "poll")
<1> USE DEF processVars, configVars, workerVars, historyVars
<1>1. CASE \/ \E p \in Pids : Exit(p)
           \/ BeginReload \/ (\E k \in FileKeys : AssignLine(k)) \/ EndReload
           \/ UNCHANGED vars
  BY <1>1 DEF Exit, BeginReload, AssignLine, EndReload, vars
<1>2. CASE Skip \/ Apply \/ ApplyGone \/ ApplyDenied \/ ApplyFails
  <2>1. wpc # "poll" /\ NextStep(wpc) # "poll"
    BY <1>2, NextStepType DEF Skip, Apply, ApplyGone, ApplyDenied, ApplyFails, Attrs
  <2> QED
    BY <1>2, <2>1 DEF Skip, Apply, ApplyGone, ApplyDenied, ApplyFails
<1>3. CASE SkipCgroup \/ MoveToCgroup \/ RtMove
  BY <1>3 DEF SkipCgroup, MoveToCgroup, RtMove
<1> QED
  BY <1>1, <1>2, <1>3 DEF Next, Worker

LEMMA ReportsStep == WorkerTypes /\ Reports /\ [Next]_vars => Reports'
<1> SUFFICES ASSUME WorkerTypes, Reports, [Next]_vars, ~Poll, \A p \in Pids : ~Exec(p)
             PROVE  Reports'
  BY ExecReports, PollReports
<1>1. UNCHANGED <<process_queue, name, cur>>
  BY OtherSteps
<1>2. LastReport' /\ \A p : Reported(p)' = Reported(p)
  BY <1>1 DEF Reports, LastReport, Reported
<1>3. CASE Done /\ wpc # "poll"
  <2>1. \A p \in Pids : handled'[p] = IF p = Pid THEN cur[2] ELSE handled[p]
    BY <1>3 DEF Done, WorkerTypes, TypeOK
  <2>2. LastHandled'
    BY <1>1, <1>2, <1>3, <2>1 DEF Done, Reports, LastHandled, Busy, Pid
  <2> QED
    BY <1>2, <2>2 DEF Reports
<1>4. CASE handled' = handled /\ (wpc' = "poll" <=> wpc = "poll")
  <2>1. LastHandled'
    BY <1>1, <1>2, <1>4 DEF Reports, LastHandled, Busy, Pid
  <2> QED
    BY <1>2, <2>1 DEF Reports
<1> QED
  BY <1>3, <1>4, OtherSteps

(* What the configuration lets the rule of n set                           *)
RuleAsks(n, a) == config[a] /\ (a \in RuleOf[n] \/ (a = "latnice" /\ "nice" \in RuleOf[n]))

(* The attributes the worker has dealt with when it is at a step           *)
Past(step) == CASE step = "latnice" -> {"nice"}
              [] step = "sched" -> {"nice", "latnice"}
              [] step = "ionice" -> {"nice", "latnice", "sched"}
              [] step = "oom" -> {"nice", "latnice", "sched", "ionice"}
              [] step \in {"cgroup", "rt_move"} -> Attrs \ {"cgroup"}
              [] OTHER -> {}

Follows(p, n, attrs) == \A a \in attrs : RuleAsks(n, a) => attr[p][a] = n

(* Until the first reload, every process without trouble has what its rule *)
(* asks for: the one in hand, as far as the worker has come with it, and   *)
(* those that it has handled and that have not been reported again.        *)
Applied ==
    reloads = 0 =>
        /\ ~reloading
        /\ wpc # "poll" /\ alive[Pid] /\ Pid \notin troubled
              => Follows(Pid, cur[2], Past(wpc))
        /\ \A p \in Pids :
              /\ ~Busy(p) /\ ~Reported(p) /\ alive[p]
              /\ handled[p] # "none" /\ p \notin troubled
              => Follows(p, name[p], Attrs \ {"cgroup"})

LEMMA AppliedInit == Init => Applied
  BY DEF Init, Applied

(* Steps that change neither the attributes nor the place of the worker    *)
LEMMA AppliedKept ==
    ASSUME Applied, UNCHANGED <<process_queue, name, cur, wpc, attr, config, handled, reloading,
                                reloads, troubled>>,
           \A p \in Pids : alive'[p] => alive[p], Pid \in Pids
    PROVE  Applied'
<1>1. \A p, n, attrs : Follows(p, n, attrs)' = Follows(p, n, attrs)
  BY DEF Follows, RuleAsks
<1>2. Pid' = Pid /\ \A p : Busy(p)' = Busy(p) /\ Reported(p)' = Reported(p)
  BY DEF Pid, Busy, Reported
<1> QED
  BY <1>1, <1>2 DEF Applied

LEMMA PollApplied ==
    ASSUME WorkerTypes, Applied, Poll PROVE Applied'
<1>1. /\ UNCHANGED <<alive, name, attr, config, handled, troubled, reloading, reloads>>
      /\ wpc = "poll" /\ process_queue \in Seq(Pids \X Names) /\ process_queue # <<>>
      /\ cur' = Head(process_queue) /\ process_queue' = Tail(process_queue)
      /\ wpc' = IF RuleOf[cur'[2]] = {} THEN "rt_move" ELSE "nice"
  BY DEF Poll, processVars, configVars, historyVars, WorkerTypes, TypeOK
<1>2. \A p, n, attrs : Follows(p, n, attrs)' = Follows(p, n, attrs)
  BY <1>1 DEF Follows, RuleAsks
<1>3. Follows(Pid, cur[2], Past(wpc))'
  <2>1. CASE RuleOf[cur'[2]] = {}
    <3>1. \A a : ~RuleAsks(cur[2], a)'
      BY <2>1 DEF RuleAsks
    <3> QED
      BY <3>1 DEF Follows
  <2>2. CASE RuleOf[cur'[2]] # {}
    <3>1. Past(wpc)' = {}
      BY <1>1, <2>2 DEF Past
    <3> QED
      BY <3>1 DEF Follows
  <2> QED
    BY <2>1, <2>2
<1>4. ASSUME NEW p \in Pids, ~Reported(p)', p # Pid' PROVE ~Reported(p)
  <2>1. PICK last \in Nat : last = Len(process_queue) /\ last >= 1
    BY <1>1
  <2>2. /\ process_queue[1][1] # p /\ Len(process_queue') = last - 1
        /\ \A j \in 1..(last - 1) : process_queue'[j] = process_queue[j + 1]
    BY <1>1, <1>4, <2>1 DEF Pid
  <2>3. ASSUME NEW i \in 1..last, i # 1 PROVE process_queue[i][1] # p
    <3>1. i - 1 \in 1..(last - 1) /\ (i - 1) + 1 = i
      BY <2>3
    <3> QED
      BY <1>4, <2>2, <3>1 DEF Reported
  <2> QED
    BY <2>1, <2>2, <2>3 DEF Reported
<1>5. \A p : ~Busy(p) /\ (~Busy(p)' => p # Pid')
  BY <1>1 DEF Busy
<1> QED
  BY <1>1, <1>2, <1>3, <1>4, <1>5 DEF Applied

(* The worker leaves the process in hand: whatever it had to set is set,   *)
(* or the process has ended or had trouble.                                *)
LEMMA DoneApplied ==
    ASSUME WorkerTypes, Reports, Applied, wpc # "poll", Done,
           UNCHANGED <<process_queue, name, cur, config, reloading, reloads, alive>>,
           \A p \in Pids : p # Pid => attr'[p] = attr[p],
           \A a \in Attrs \ {"cgroup"} : attr'[Pid][a] = attr[Pid][a],
           troubled \subseteq troubled',
           \/ ~alive[Pid] \/ Pid \in troubled' \/ Past(wpc) = Attrs \ {"cgroup"}
    PROVE  Applied'
<1>1. /\ wpc' = "poll" /\ Pid \in Pids
      /\ \A p \in Pids : handled'[p] = IF p = Pid THEN cur[2] ELSE handled[p]
  BY DEF Done, WorkerTypes, TypeOK, Pid
<1>2. \A p : Reported(p)' = Reported(p)
  BY DEF Reported
<1>3. \A n : \A p \in Pids : Follows(p, n, Attrs \ {"cgroup"})' = Follows(p, n, Attrs \ {"cgroup"})
  BY <1>1 DEF Follows, RuleAsks
<1>4. SUFFICES ASSUME reloads = 0, NEW p \in Pids, ~Reported(p), alive[p], handled'[p] # "none",
                      p \notin troubled'
               PROVE  Follows(p, name[p], Attrs \ {"cgroup"})
  BY <1>1, <1>2, <1>3 DEF Applied
<1>5. CASE p = Pid
  <2>1. cur[2] = name[p]
    BY <1>4, <1>5 DEF Reports, LastHandled, Busy
  <2>2. Follows(Pid, cur[2], Past(wpc))
    BY <1>4, <1>5 DEF Applied
  <2> QED
    BY <1>4, <1>5, <2>1, <2>2
<1>6. CASE p # Pid
  BY <1>1, <1>4, <1>6 DEF Applied, Busy
<1> QED
  BY <1>5, <1>6

(* The worker goes on to the next attribute: the process has what its rule *)
(* asks of the present one, or had trouble.                                *)
LEMMA NextApplied ==
    ASSUME WorkerTypes, Applied, wpc # "poll", wpc' # "poll",
           UNCHANGED <<process_queue, name, cur, config, reloading, reloads, alive, handled>>,
           \A p \in Pids : p # Pid => attr'[p] = attr[p],
           \A a \in Attrs \ {wpc} : attr'[Pid][a] = attr[Pid][a],
           troubled \subseteq troubled',
           \/ Pid \in troubled'
           \/ Past(wpc') \subseteq Past(wpc)
           \/ /\ Past(wpc') \subseteq Past(wpc) \cup {wpc}
              /\ RuleAsks(cur[2], wpc) => attr'[Pid][wpc] = cur[2],
           wpc \notin Past(wpc)
    PROVE  Applied'
<1>1. Pid \in Pids /\ Pid' = Pid
  BY DEF WorkerTypes, TypeOK, Pid
<1>2. /\ \A p : Reported(p)' = Reported(p) /\ Busy(p)' = Busy(p)
      /\ \A n, a : RuleAsks(n, a)' = RuleAsks(n, a)
  BY <1>1 DEF Reported, Busy, RuleAsks
<1>3. SUFFICES ASSUME reloads = 0
               PROVE  /\ alive[Pid] /\ Pid \notin troubled'
                            => Follows(Pid, cur[2], Past(wpc))'
                      /\ \A p \in Pids :
                            /\ ~Busy(p) /\ ~Reported(p) /\ alive[p]
                            /\ handled[p] # "none" /\ p \notin troubled'
                            => Follows(p, name[p], Attrs \ {"cgroup"})'
  BY <1>1, <1>2 DEF Applied
<1>4. ASSUME alive[Pid], Pid \notin troubled'
      PROVE  Follows(Pid, cur[2], Past(wpc))'
  <2>1. \A a \in Past(wpc) : RuleAsks(cur[2], a) => attr[Pid][a] = cur[2]
    BY <1>3, <1>4 DEF Applied, Follows
  <2>2. Past(wpc) \subseteq Attrs
    BY DEF Past, Attrs
  <2>3. \A a \in Past(wpc) : RuleAsks(cur[2], a) => attr'[Pid][a] = cur[2]
    BY <2>1, <2>2
  <2>4. \A a \in Past(wpc') : RuleAsks(cur[2], a) => attr'[Pid][a] = cur[2]
    BY <1>4, <2>3
  <2>5. Past(wpc)' = Past(wpc')
    BY DEF Past
  <2> QED
    BY <1>1, <1>2, <2>4, <2>5 DEF Follows
<1>5. ASSUME NEW p \in Pids, ~Busy(p), ~Reported(p), alive[p], handled[p] # "none",
             p \notin troubled'
      PROVE  Follows(p, name[p], Attrs \ {"cgroup"})'
  <2>1. p # Pid /\ Follows(p, name[p], Attrs \ {"cgroup"})
    BY <1>3, <1>5 DEF Applied, Busy
  <2> QED
    BY <1>2, <2>1 DEF Follows
<1> QED
  BY <1>4, <1>5

LEMMA AppliedStep ==
    WorkerTypes /\ Reports /\ Applied /\ [Next]_vars => Applied'
<1> SUFFICES ASSUME WorkerTypes, Reports, Applied, [Next]_vars PROVE Applied'
  OBVIOUS
<1> USE DEF processVars, configVars, workerVars, historyVars
<1>1. /\ Pid \in Pids /\ reloads \in Nat
      /\ attr \in [Pids -> [Attrs -> Names \cup {"own"}]]
  BY BoundAssumption DEF WorkerTypes, TypeOK, Pid
<1>2. ASSUME NEW p \in Pids, Exec(p) PROVE Applied'
  <2>1. PICK n \in Names : /\ name' = [name EXCEPT ![p] = n]
                           /\ process_queue' = Append(process_queue, <<p, n>>)
    BY <1>2 DEF Exec
  <2>2. /\ process_queue \in Seq(Pids \X Names) /\ name \in [Pids -> Names]
        /\ UNCHANGED <<wpc, cur, attr, alive, config, handled, troubled, reloading, reloads>>
    BY <1>2 DEF WorkerTypes, TypeOK, Exec
  <2>3. \A q \in Pids : ~Reported(q)' => name'[q] = name[q] /\ ~Reported(q)
    <3>1. PICK last \in Nat : last = Len(process_queue)
      BY <2>2
    <3>2. /\ Len(process_queue') = last + 1 /\ process_queue'[last + 1] = <<p, n>>
          /\ \A i \in 1..last : process_queue'[i] = process_queue[i]
      BY <2>1, <2>2, <3>1
    <3> QED
      BY <2>1, <2>2, <3>1, <3>2 DEF Reported
  <2>4. /\ \A q, m, attrs : Follows(q, m, attrs)' = Follows(q, m, attrs)
        /\ \A q : Busy(q)' = Busy(q)
        /\ Pid' = Pid
    BY <2>2 DEF Follows, RuleAsks, Busy, Pid
  <2> QED
    BY <2>2, <2>3, <2>4 DEF Applied
<1>3. CASE (\E p \in Pids : Exit(p)) \/ UNCHANGED vars
  <2>1. /\ UNCHANGED <<process_queue, name, cur, wpc, attr, config, handled, reloading,
                       reloads, troubled>>
        /\ \A p \in Pids : alive'[p] => alive[p]
    BY <1>3 DEF Exit, vars, WorkerTypes, TypeOK
  <2> QED
    BY <1>1, <2>1, AppliedKept
<1>4. CASE BeginReload \/ (\E k \in FileKeys : AssignLine(k)) \/ EndReload
  <2>1. reloads' # 0
    <3>1. CASE BeginReload
      BY <1>1, <3>1 DEF BeginReload
    <3>2. CASE (\E k \in FileKeys : AssignLine(k)) \/ EndReload
      BY <3>2 DEF AssignLine, EndReload, Applied
    <3> QED
      BY <1>4, <3>1, <3>2
  <2> QED
    BY <2>1 DEF Applied
<1>5. CASE Skip
  <2>1. /\ wpc \in Attrs \ {"cgroup"} /\ wpc' = NextStep(wpc) /\ ~RuleAsks(cur[2], wpc)
        /\ UNCHANGED <<process_queue, name, cur, config, reloading, reloads, alive, handled,
                       attr, troubled>>
    BY <1>5 DEF Skip, Wanted, RuleAsks, Rule
  <2>2. /\ wpc # "poll" /\ wpc' # "poll" /\ wpc \notin Past(wpc)
        /\ Past(wpc') \subseteq Past(wpc) \cup {wpc}
    BY <2>1 DEF Attrs, NextStep, Past
  <2> QED
    BY <2>1, <2>2, NextApplied
<1>6. CASE Apply
  <2>1. /\ wpc \in Attrs \ {"cgroup"} /\ wpc' = NextStep(wpc)
        /\ attr' = [attr EXCEPT ![Pid][wpc] = cur[2]]
        /\ UNCHANGED <<process_queue, name, cur, config, reloading, reloads, alive, handled,
                       troubled>>
    BY <1>6 DEF Apply
  <2>2. /\ wpc # "poll" /\ wpc' # "poll" /\ wpc \notin Past(wpc)
        /\ Past(wpc') \subseteq Past(wpc) \cup {wpc}
    BY <2>1 DEF Attrs, NextStep, Past
  <2>3. /\ \A p \in Pids : p # Pid => attr'[p] = attr[p]
        /\ \A a \in Attrs \ {wpc} : attr'[Pid][a] = attr[Pid][a]
        /\ attr'[Pid][wpc] = cur[2]
    BY <1>1, <2>1
  <2> QED
    BY <2>1, <2>2, <2>3, NextApplied
<1>7. CASE ApplyGone
  <2>1. /\ wpc # "poll" /\ Done /\ troubled \subseteq troubled'
        /\ ~alive[Pid] \/ Pid \in troubled'
        /\ UNCHANGED <<process_queue, name, cur, config, reloading, reloads, alive, attr>>
    BY <1>7 DEF ApplyGone, Attrs
  <2> QED
    BY <2>1, DoneApplied
<1>8. CASE ApplyDenied \/ ApplyFails
  <2>1. /\ wpc \in Attrs \ {"cgroup"} /\ troubled' = troubled \cup {Pid}
        /\ \/ Done
           \/ wpc' \in {NextStep(wpc), "rt_move"} /\ handled' = handled
        /\ UNCHANGED <<process_queue, name, cur, config, reloading, reloads, alive, attr>>
    BY <1>8 DEF ApplyDenied, ApplyFails
  <2>2. wpc # "poll" /\ wpc \notin Past(wpc)
    BY <2>1 DEF Attrs, Past
  <2>3. CASE Done
    BY <2>1, <2>2, <2>3, DoneApplied
  <2>4. CASE wpc' \in {NextStep(wpc), "rt_move"} /\ handled' = handled
    <3>1. wpc' # "poll"
      BY <2>1, <2>4 DEF Attrs, NextStep
    <3> QED
      BY <2>1, <2>2, <2>4, <3>1, NextApplied
  <2> QED
    BY <2>1, <2>3, <2>4
<1>9. CASE SkipCgroup
  <2>1. /\ wpc = "cgroup" /\ wpc' = "rt_move"
        /\ UNCHANGED <<process_queue, name, cur, config, reloading, reloads, alive, handled,
                       attr, troubled>>
    BY <1>9 DEF SkipCgroup
  <2>2. Past(wpc') \subseteq Past(wpc) /\ wpc \notin Past(wpc)
    BY <2>1 DEF Past
  <2> QED
    BY <2>1, <2>2, NextApplied
<1>10. CASE MoveToCgroup
  <2>1. /\ wpc = "cgroup" /\ attr' \in {attr, [attr EXCEPT ![Pid]["cgroup"] = cur[2]]}
        /\ Done \/ (wpc' = "rt_move" /\ handled' = handled)
        /\ UNCHANGED <<process_queue, name, cur, config, reloading, reloads, alive, troubled>>
    BY <1>10 DEF MoveToCgroup, add_pid_to_cgroup
  <2>2. /\ Past(wpc) = Attrs \ {"cgroup"} /\ Past("rt_move") \subseteq Past(wpc)
        /\ wpc \notin Past(wpc)
    BY <2>1 DEF Past
  <2>3. /\ \A p \in Pids : p # Pid => attr'[p] = attr[p]
        /\ \A a \in Attrs \ {"cgroup"} : attr'[Pid][a] = attr[Pid][a]
    BY <1>1, <2>1
  <2>4. CASE Done
    BY <2>1, <2>2, <2>3, <2>4, DoneApplied
  <2>5. CASE wpc' = "rt_move" /\ handled' = handled
    BY <2>1, <2>2, <2>3, <2>5, NextApplied
  <2> QED
    BY <2>1, <2>4, <2>5
<1>11. CASE RtMove
  <2>1. /\ wpc = "rt_move" /\ Done /\ attr' = attr
        /\ UNCHANGED <<process_queue, name, cur, config, reloading, reloads, alive, troubled>>
    BY <1>11 DEF RtMove, add_pid_to_cgroup, Accepts
  <2>2. Past(wpc) = Attrs \ {"cgroup"}
    BY <2>1 DEF Past
  <2> QED
    BY <2>1, <2>2, DoneApplied
<1> QED
  BY <1>2, <1>3, <1>4, <1>5, <1>6, <1>7, <1>8, <1>9, <1>10, <1>11, PollApplied DEF Next, Worker

LEMMA CaughtUpApplied == WorkerTypes /\ Reports /\ Applied => LastRuleWins
<1> SUFFICES ASSUME WorkerTypes, Reports, Applied, CaughtUp, NEW p \in Pids,
                    alive[p], handled[p] # "none", p \notin troubled
             PROVE  /\ handled[p] = name[p]
                    /\ \A a \in RuleOf[name[p]] \ {"cgroup"} : config[a] => attr[p][a] = name[p]
                    /\ config["latnice"] /\ "nice" \in RuleOf[name[p]]
                          => attr[p]["latnice"] = name[p]
  BY DEF LastRuleWins
<1>1. ~Busy(p) /\ ~Reported(p)
  BY DEF CaughtUp, Busy, Reported
<1>2. Follows(p, name[p], Attrs \ {"cgroup"})
  BY <1>1 DEF CaughtUp, Applied
<1>3. handled[p] = name[p]
  BY <1>1 DEF Reports, LastHandled
<1>4. RuleOf[name[p]] \subseteq Attrs
  BY RulesAssumption DEF WorkerTypes, TypeOK
<1> QED
  BY <1>2, <1>3, <1>4 DEF Follows, RuleAsks, Attrs

(* Worker::work applies the attributes one by one (worker.cpp:67-133) to a *)
(* process that may exec into another program meanwhile, under whose name  *)
(* it is reported again: however many reports are in the queue, when it is *)
(* empty each process has what the rule of its present name asks for.      *)
THEOREM LastRuleStands == Spec => []LastRuleWins
  BY WorkerTypesInit, WorkerTypesStep, ReportsInit, ReportsStep, AppliedInit, AppliedStep,
     CaughtUpApplied, PTL DEF Spec
=============================================================================
