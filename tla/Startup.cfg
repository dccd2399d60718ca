CONSTANTS Argvs <- MCArgvs
          Arguments <- MCArguments
          LongNames <- MCLongNames
          ShortNames <- MCShortNames
          Positionals <- MCPositionals
          Valued <- MCValued
          Absent = Absent
          Directories <- MCDirectories
          FileKind <- MCFileKind
          NotString = NotString
          Null = Null
SPECIFICATION StartupSpec
INVARIANTS StartupTypeOK ParsedAsWritten RuleOverridesType RulesAsWritten
PROPERTIES EffectsAsAsked
