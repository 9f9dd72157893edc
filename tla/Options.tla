------------------------------- MODULE Options -------------------------------
(***************************************************************************)
(* COptions and COptionManager, and the connection files of                *)
(* mysql_connect_file, which CHandleManager::CreateFromFile reads.         *)
(*                                                                         *)
(* The options are of three kinds: numbers (the pool size, which is        *)
(* limited, stands for them), booleans and texts.  Natives set them one by *)
(* one; a file sets those of an options instance of its own, line by line, *)
(* and is given up at the first line that is wrong.                        *)
(***************************************************************************)
EXTENDS Integers, Sequences, FiniteSetsExt

CONSTANTS
    PoolLimit,   \* 32, the limit of mysql_set_option
    Text,        \* texts, and names of hosts, users and databases
    Garbage,     \* what is found at an address that is none
    MaxOptions,  \* bound: options instances
    MaxSaid      \* bound: options and names that are given

ASSUME LimitAssumption == PoolLimit \in Nat /\ MaxOptions \in Nat /\ MaxSaid \in Nat

VARIABLES
    options,  \* COptionManager::m_Options, a function from ids
    reading,  \* mysql_connect_file: the instance of the file, or -1
    login,    \* the names in the file so far that must not be empty
    outcome,  \* how the last file has ended, and for which instance
    said,     \* history: for each id, what it was told, in order
    count     \* how much has been said

optionVars == <<options, reading, login, outcome, said, count>>

Option == {"number", "flag", "text"}
Login == {"hostname", "username", "database"}

\* What can be written for an option: -1 stands for what is no number, or is
\* negative.
Values(o) == CASE o = "number" -> {-1, 0, PoolLimit, PoolLimit + 1}
               [] o = "flag" -> {"true", "false", "neither"}
               [] OTHER -> Text

\* COptions::COptions
Defaults == [number |-> 2, flag |-> "false", text |-> ""]

NotReading == -1
NoOutcome == [id |-> NotReading, connected |-> FALSE]

Extended(f, i, value) == [x \in DOMAIN f \union {i} |-> IF x = i THEN value ELSE f[x]]

OptionsInit ==
    /\ options = [i \in {0} |-> Defaults] /\ said = [i \in {0} |-> <<>>]
    /\ reading = NotReading /\ login = {} /\ outcome = NoOutcome
    /\ count = 0

-----------------------------------------------------------------------------
\* COptionManager::Create: the first id that is free.
CreateOptions(i) ==
    /\ i \notin DOMAIN options /\ 1 .. i - 1 \subseteq DOMAIN options
    /\ options' = Extended(options, i, Defaults)
    /\ said' = Extended(said, i, <<>>)

\* mysql_init_options
InitOptions ==
    /\ reading = NotReading
    /\ \E i \in 1 .. MaxOptions : CreateOptions(i)
    /\ UNCHANGED <<reading, login, outcome, count>>

\* Mutant: a value is inserted, not assigned.
AssignOnce(i, o, value) == UNCHANGED options

\* COptions::SetOption
Assign(i, o, value) == options' = [options EXCEPT ![i][o] = value]

Says(i, what, value) ==
    /\ count < MaxSaid /\ count' = count + 1
    /\ said' = [said EXCEPT ![i] = Append(@, [what |-> what, value |-> value,
                                              file |-> reading = i])]

\* mysql_set_option.  A flag is any cell that is zero or not, and a text is
\* looked up at the address that its first character makes.
SetOption(i, o, value) ==
    /\ reading = NotReading /\ i \in DOMAIN options
    /\ Says(i, o, value)
    /\ CASE o = "number" /\ value \notin 0 .. PoolLimit -> UNCHANGED options
         [] o = "flag" /\ value = "neither" -> Assign(i, o, "true")
         [] o = "text" -> \E found \in Text \union {Garbage} : Assign(i, o, found)
         [] OTHER -> Assign(i, o, value)
    /\ UNCHANGED <<reading, login, outcome>>

-----------------------------------------------------------------------------
(***************************************************************************)
(* mysql_connect_file                                                      *)
(***************************************************************************)
FileOpen ==
    /\ reading = NotReading
    /\ \E i \in 1 .. MaxOptions : CreateOptions(i) /\ reading' = i
    /\ login' = {}
    /\ UNCHANGED <<outcome, count>>

\* A line with a host, user or database.  A value has at least one character.
FileLogin(l) ==
    /\ reading # NotReading
    /\ Says(reading, l, "")
    /\ login' = login \union {l}
    /\ UNCHANGED <<options, reading, outcome>>

\* ConvertStrToData
Converts(o, value) ==
    CASE o = "number" -> value # -1 [] o = "flag" -> value # "neither" [] OTHER -> TRUE

\* A line with an option.  There is no limit here, and a value that cannot be
\* converted is passed over.
FileOption(o, value) ==
    /\ reading # NotReading
    /\ Says(reading, o, value)
    /\ IF Converts(o, value) THEN Assign(reading, o, value) ELSE UNCHANGED options
    /\ UNCHANGED <<reading, login, outcome>>

\* UNKNOWN_FIELD or SYNTAX_ERROR (for a line of spaces, too).  The options
\* instance stays.
FileWrong ==
    /\ reading # NotReading
    /\ Says(reading, "wrong", "")
    /\ reading' = NotReading
    /\ outcome' = [id |-> reading, connected |-> FALSE]
    /\ UNCHANGED <<options, login>>

\* The end of the file: CHandleManager::Create and its checks.
FileConnect ==
    /\ reading # NotReading
    /\ reading' = NotReading
    /\ outcome' = [id |-> reading, connected |-> login = Login]
    /\ UNCHANGED <<options, login, said, count>>

OptionsNext ==
    \/ InitOptions
    \/ \E i \in 0 .. MaxOptions, o \in Option : \E value \in Values(o) :
          SetOption(i, o, value)
    \/ FileOpen
    \/ \E l \in Login : FileLogin(l)
    \/ \E o \in Option : \E value \in Values(o) : FileOption(o, value)
    \/ FileWrong \/ FileConnect

OptionsSpec == OptionsInit /\ [][OptionsNext]_optionVars

-----------------------------------------------------------------------------
\* What is said counts: where it says something the option can have.
Counts(s) ==
    CASE s.what = "number" -> IF s.file THEN s.value # -1 ELSE s.value \in 0 .. PoolLimit
      [] s.what = "flag" -> s.file => s.value # "neither"
      [] OTHER -> TRUE

\* The place of the last word on it, or 0.
LastWord(i, o) ==
    Max({0} \union {k \in DOMAIN said[i] : said[i][k].what = o /\ Counts(said[i][k])})

\* Whatever files and natives say in turn, and whether a file is given up or
\* not: each option of each instance has the last value that was said for it
\* and counts, or its default - a text, only if it was said by a file - and a
\* file connects exactly if no line of it is wrong and the host, the user and
\* the database are in it.
OptionsAreAsSaid ==
    /\ \A i \in DOMAIN options, o \in Option :
          LET k == LastWord(i, o)
              s == said[i][k]
          IN  IF k = 0 THEN options[i][o] = Defaults[o]
              ELSE CASE o = "text" -> s.file => options[i][o] = s.value
                     [] o = "flag" /\ s.value = "neither" -> options[i][o] = "true"
                     [] OTHER -> options[i][o] = s.value
    /\ outcome.id # NotReading =>
          (outcome.connected <=>
             /\ LastWord(outcome.id, "wrong") = 0
             /\ \A l \in Login : LastWord(outcome.id, l) # 0)
=============================================================================
