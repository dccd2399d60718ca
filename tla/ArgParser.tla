------------------------------ MODULE ArgParser ------------------------------
(***************************************************************************)
(* argparse::argument_parser::parse_args (argument_parser.cpp): one step   *)
(* per element of argv that the loop looks at.                             *)
(*                                                                         *)
(* An element of argv is a word, a long option ("--name") or a cluster of  *)
(* short ones ("-vh": a sequence of letters, empty for "-").  What a value *)
(* says is the element it was taken from.                                  *)
(***************************************************************************)
EXTENDS Naturals, Sequences, FiniteSets

CONSTANTS Argvs,        \* the command lines that may be given
          Arguments,    \* the arguments the program declares
          LongNames,    \* the argument of each long name
          ShortNames,   \* the argument of each letter
          Positionals,  \* the positional arguments, in the order of their ids
          Valued,       \* the options that take a value
          Absent        \* std::nullopt

ASSUME ArgumentsAssumption == /\ LongNames \in [DOMAIN LongNames -> Arguments]
                              /\ ShortNames \in [DOMAIN ShortNames -> Arguments]
                              /\ Positionals \in Seq(Arguments)
                              /\ Valued \subseteq Arguments

(* No argument is both positional and named (the first loop of parse_args  *)
(* continues past the names of a positional one), each id is queued once,  *)
(* and no argument with a value has a letter (main.cpp:43-94).             *)
ASSUME DeclarationsAssumption ==
    /\ \A i \in DOMAIN Positionals :
          /\ \A j \in DOMAIN Positionals \ {i} : Positionals[j] # Positionals[i]
          /\ \A n \in DOMAIN LongNames : LongNames[n] # Positionals[i]
          /\ \A c \in DOMAIN ShortNames : ShortNames[c] # Positionals[i]
    /\ \A c \in DOMAIN ShortNames : ShortNames[c] \notin Valued

ASSUME ArgvsAssumption == \A argv \in Argvs : argv \in Seq({argv[i] : i \in DOMAIN argv})

VARIABLES params,           \* argv
          at,               \* i, from 1
          values,           \* m_value of each argument
          positional_args,  \* positional arguments without a value
          return_result     \* there was an error

parserVars == <<params, at, values, positional_args, return_result>>

Word(w) == [kind |-> "word", of |-> w]
True == Word("true")

ParserInit == /\ params \in Argvs
              /\ at = 1
              /\ values = [a \in Arguments |-> Absent]
              /\ positional_args = Positionals
              /\ return_result = FALSE

Parsing == at <= Len(params)

(* The options an element names, known or not.                             *)
NamesIn(param) == CASE param.kind = "long" -> {param.of}
                    [] param.kind = "short" -> {param.of[i] : i \in DOMAIN param.of}
                    [] OTHER -> {}

ArgumentOf(param, n) == IF param.kind = "long" THEN LongNames[n] ELSE ShortNames[n]

Unknown(param) == {n \in NamesIn(param) :
                     n \notin DOMAIN (IF param.kind = "long" THEN LongNames
                                                             ELSE ShortNames)}

Named(param) == {ArgumentOf(param, n) : n \in NamesIn(param) \ Unknown(param)}

(* How often the element asks for a value: a letter may be repeated.       *)
Wanting(param) ==
    IF param.kind = "short"
    THEN {i \in DOMAIN param.of : /\ param.of[i] \in DOMAIN ShortNames
                                  /\ ShortNames[param.of[i]] \in Valued}
    ELSE {n \in NamesIn(param) \ Unknown(param) : LongNames[n] \in Valued}

HasValue == at < Len(params)

(* Mutants: the value of an option is looked at again; the index moves on  *)
(* although there is no value.                                             *)
MutNotSkipped == 0
MutSkippedAnyway == Cardinality(Wanting(params[at]))

(* i++ for every option that took the next element                         *)
Skipped == IF HasValue THEN Cardinality(Wanting(params[at])) ELSE 0

(* An option sets its argument; an option with a value takes the next      *)
(* element, whatever it looks like, and every option of a cluster takes    *)
(* the same one, while the index moves on once for each.  Parsing goes on  *)
(* after an error.                                                         *)
ParseOption ==
    /\ Parsing /\ params[at].kind \in {"long", "short"}
    /\ values' = [a \in Arguments |->
                    IF a \notin Named(params[at]) THEN values[a]
                    ELSE IF a \notin Valued THEN True
                    ELSE IF HasValue THEN params[at + 1] ELSE values[a]]
    /\ return_result' = \/ return_result
                        \/ Unknown(params[at]) # {}
                        \/ ~HasValue /\ Wanting(params[at]) # {}
    /\ at' = at + 1 + Skipped
    /\ UNCHANGED <<params, positional_args>>

ParseWord ==
    /\ Parsing /\ params[at].kind = "word"
    /\ IF positional_args = <<>>
       THEN return_result' = TRUE /\ UNCHANGED <<values, positional_args>>
       ELSE /\ values' = [values EXCEPT ![Head(positional_args)] = params[at]]
            /\ positional_args' = Tail(positional_args)
            /\ UNCHANGED return_result
    /\ at' = at + 1
    /\ UNCHANGED params

ParserNext == ParseOption \/ ParseWord

-----------------------------------------------------------------------------
(* What a command line says, without a parser.  Each option that takes a   *)
(* value is followed by it, unless it is a value itself: an element is the *)
(* value of the one before it if it ends an odd run of such options.       *)

TakesNext(param) == Wanting(param) # {}

RunBefore(i) == {j \in 1..(i - 1) : \A k \in j..(i - 1) : TakesNext(params[k])}

ReadAt(i) == Cardinality(RunBefore(i)) % 2 = 0

Words == {i \in 1..Len(params) : ReadAt(i) /\ params[i].kind = "word"}

(* What the n-th word says, if there are so many                           *)
Nth(n) == {i \in Words : Cardinality({j \in Words : j <= i}) = n}
Given(n) == IF Nth(n) = {} THEN Absent ELSE params[CHOOSE i \in Nth(n) : TRUE]

(* The elements that name an argument.                                     *)
Mentions(a) == {i \in 1..Len(params) : ReadAt(i) /\ a \in Named(params[i])}

(* Without an error, each argument has what the command line says: a flag  *)
(* is set if some element that is not a value names it, an option has the  *)
(* value that follows its last mention, and the positional arguments are   *)
(* the words that are left, in order.                                      *)
ParsedAsWritten ==
    ~Parsing /\ ~return_result =>
        /\ \A a \in Arguments \ {Positionals[i] : i \in DOMAIN Positionals} :
              values[a] = IF Mentions(a) = {} THEN Absent
                          ELSE IF a \notin Valued THEN True
                          ELSE params[1 + CHOOSE i \in Mentions(a) :
                                              \A j \in Mentions(a) : j <= i]
        /\ Cardinality(Words) <= Len(Positionals)
        /\ \A i \in DOMAIN Positionals : values[Positionals[i]] = Given(i)
=============================================================================
