----------------------------- MODULE Arguments -----------------------------
(***************************************************************************)
(* The command line: parse_arguments.  getopt_long is the C library's, so  *)
(* the command line is what it returns, one option after the other: its    *)
(* letter, and its argument where it takes one.  A flag it does not know,  *)
(* or one that lacks its argument, is the letter '?'.                      *)
(***************************************************************************)
EXTENDS Integers, Sequences, FiniteSetsExt

CONSTANTS
  CommandLines,   \* sequences of options
  NumberOf,       \* the value of each word that strtol reads to its end
  MAX_PORT,       \* 65535
  IntSpace,       \* how many values an int has
  NULL            \* no argument

ASSUME NumberAssumption ==
  /\ MAX_PORT \in Nat /\ IntSpace \in Nat /\ 2 * MAX_PORT < IntSpace
  /\ \A word \in DOMAIN NumberOf : NumberOf[word] \in Int

\* A command line is a sequence; -a, -i and -o come with an argument.
ASSUME LineAssumption ==
  \A line \in CommandLines :
    /\ Len(line) \in Nat
    /\ \A i \in 1 .. Len(line) : line[i][1] \in {"a", "i", "o"} => line[i][2] # NULL

EX_OK      == "EX_OK"
EX_USAGE   == "EX_USAGE"
EX_DATAERR == "EX_DATAERR"

VARIABLES
  argv,     \* the command line
  optind,   \* the option getopt_long returns next
  config,   \* config
  pc,       \* "options", "checks", "accepted" or "exited"
  code      \* what exit() was called with

argVars == <<argv, optind, config, pc, code>>

DefaultConfig ==
  [ is_server |-> FALSE, is_client |-> FALSE, address |-> NULL, input_file |-> NULL,
    output_file |-> NULL, timeout |-> 1, port |-> -1 ]

ArgInit ==
  /\ argv \in CommandLines
  /\ optind = 1
  /\ config = DefaultConfig
  /\ pc = "options"
  /\ code = EX_OK

-----------------------------------------------------------------------------

opt    == argv[optind][1]
optarg == argv[optind][2]

\* getopt_long returns one of some letters.
Gets(letters) == pc = "options" /\ optind <= Len(argv) /\ opt \in letters

\* The next turn of the loop.
NextOption == optind' = optind + 1 /\ UNCHANGED <<argv, pc, code>>

Exit(status) == pc' = "exited" /\ code' = status /\ UNCHANGED <<argv, optind, config>>

SelectMode ==
  /\ Gets({"s", "c"})
  /\ config' = IF opt = "s" THEN [config EXCEPT !.is_server = TRUE]
                            ELSE [config EXCEPT !.is_client = TRUE]
  /\ NextOption

\* Mutant: an option that was given before keeps its first argument.
TakeWordOnce ==
  /\ Gets({"a", "i", "o"})
  /\ config' = CASE opt = "a" /\ config.address = NULL -> [config EXCEPT !.address = optarg]
                 [] opt = "i" /\ config.input_file = NULL -> [config EXCEPT !.input_file = optarg]
                 [] opt = "o" /\ config.output_file = NULL -> [config EXCEPT !.output_file = optarg]
                 [] OTHER -> config
  /\ NextOption

TakeWord ==
  /\ Gets({"a", "i", "o"})
  /\ config' = CASE opt = "a" -> [config EXCEPT !.address = optarg]
                 [] opt = "i" -> [config EXCEPT !.input_file = optarg]
                 [] opt = "o" -> [config EXCEPT !.output_file = optarg]
  /\ NextOption

\* What an int keeps of a long.
ToInt(n) == ((n + IntSpace \div 2) % IntSpace) - IntSpace \div 2

\* parse_number gives a long, which is assigned to an int.
TakeNumber ==
  /\ Gets({"p", "w"})
  /\ optarg \in DOMAIN NumberOf
  /\ config' = IF opt = "p" THEN [config EXCEPT !.port = ToInt(NumberOf[optarg])]
                            ELSE [config EXCEPT !.timeout = ToInt(NumberOf[optarg])]
  /\ NextOption

\* strtol does not reach the end of the word, or the number is no long.
NotANumber ==
  /\ Gets({"p", "w"})
  /\ optarg \notin DOMAIN NumberOf
  /\ Exit(EX_DATAERR)

Help == Gets({"h"}) /\ Exit(EX_OK)

UnknownFlag == Gets({"?"}) /\ Exit(EX_USAGE)

NoMoreOptions ==
  /\ pc = "options"
  /\ optind = Len(argv) + 1
  /\ pc' = "checks"
  /\ UNCHANGED <<argv, optind, config, code>>

\* Mutant: a timeout of zero passes.
ChecksWithTimeoutZero(c) ==
  << << c.is_server = c.is_client, EX_USAGE >>,
     << c.port = -1, EX_USAGE >>,
     << c.port < 0 \/ c.port > MAX_PORT, EX_DATAERR >>,
     << c.timeout < 0, EX_DATAERR >>,
     << c.is_client /\ c.address = NULL, EX_USAGE >>,
     << c.is_client /\ c.output_file # NULL, EX_USAGE >>,
     << c.is_server /\ c.input_file # NULL, EX_USAGE >> >>

\* Mutant: the range of the port is looked at first.
ChecksRangeFirst(c) ==
  << << c.is_server = c.is_client, EX_USAGE >>,
     << c.port < 0 \/ c.port > MAX_PORT, EX_DATAERR >>,
     << c.port = -1, EX_USAGE >>,
     << c.timeout <= 0, EX_DATAERR >>,
     << c.is_client /\ c.address = NULL, EX_USAGE >>,
     << c.is_client /\ c.output_file # NULL, EX_USAGE >>,
     << c.is_server /\ c.input_file # NULL, EX_USAGE >> >>

\* The checks of a configuration, in their order: when each fails, and the exit
\* code it then has.
Checks(c) ==
  << << c.is_server = c.is_client, EX_USAGE >>,
     << c.port = -1, EX_USAGE >>,
     << c.port < 0 \/ c.port > MAX_PORT, EX_DATAERR >>,
     << c.timeout <= 0, EX_DATAERR >>,
     << c.is_client /\ c.address = NULL, EX_USAGE >>,
     << c.is_client /\ c.output_file # NULL, EX_USAGE >>,
     << c.is_server /\ c.input_file # NULL, EX_USAGE >> >>

Failing(c) == { i \in DOMAIN Checks(c) : Checks(c)[i][1] }

Reject ==
  /\ pc = "checks"
  /\ Failing(config) # {}
  /\ Exit(Checks(config)[Min(Failing(config))][2])

Accept ==
  /\ pc = "checks"
  /\ Failing(config) = {}
  /\ pc' = "accepted"
  /\ UNCHANGED <<argv, optind, config, code>>

ArgNext ==
  \/ SelectMode \/ TakeWord \/ TakeNumber \/ NotANumber \/ Help \/ UnknownFlag
  \/ NoMoreOptions \/ Reject \/ Accept

ArgSpec == ArgInit /\ [][ArgNext]_argVars

-----------------------------------------------------------------------------
(* What the command line says, whatever the order of its options            *)

Given(letter)  == { i \in 1 .. Len(argv) : argv[i][1] = letter }
LastOf(letter) == argv[Max(Given(letter))][2]
Numbers        == { argv[i][2] : i \in Given("p") \cup Given("w") }

PortIsOne    == Given("p") # {} /\ NumberOf[LastOf("p")] \in 0 .. MAX_PORT
TimeoutIsOne == Given("w") # {} => NumberOf[LastOf("w")] > 0
ModeIsOne    == (Given("s") = {}) # (Given("c") = {})

\* A server has no input, a client an address and no output.
FitsItsMode ==
  /\ Given("s") # {} => Given("i") = {}
  /\ Given("c") # {} => Given("a") # {} /\ Given("o") = {}

Usable ==
  /\ Given("h") = {} /\ Given("?") = {} /\ Numbers \subseteq DOMAIN NumberOf
  /\ ModeIsOne /\ FitsItsMode
  /\ PortIsOne /\ TimeoutIsOne

\* A command line is accepted if it is usable and only then, wherever in it the
\* options stand and whichever are given twice (parse_arguments).
VerdictIsRight == pc \in {"accepted", "exited"} => (pc = "accepted" <=> Usable)

Or(letter, default) == IF Given(letter) = {} THEN default ELSE LastOf(letter)

\* The configuration is what was given, the last of each option where it was
\* given twice, and a default where it was not (parse_arguments).
ConfigIsGiven ==
  pc = "accepted" =>
    /\ config.is_server = (Given("s") # {})
    /\ config.address = Or("a", NULL)
    /\ config.input_file = Or("i", NULL)
    /\ config.output_file = Or("o", NULL)
    /\ config.port = NumberOf[LastOf("p")]
    /\ config.timeout = IF Given("w") = {} THEN 1 ELSE NumberOf[LastOf("w")]

\* The exit code names a reason that is there: EX_OK only help, EX_DATAERR a
\* number, EX_USAGE a flag that is missing, unknown or too many (exit in
\* parse_arguments and parse_number; -p -1 counts as no port).
CodeTellsWhy ==
  pc = "exited" =>
    /\ code = EX_OK => Given("h") # {}
    /\ code = EX_DATAERR =>
         \/ ~(Numbers \subseteq DOMAIN NumberOf)
         \/ Given("p") # {} /\ ~PortIsOne
         \/ ~TimeoutIsOne
    /\ code = EX_USAGE =>
         \/ Given("?") # {} \/ ~ModeIsOne \/ ~FitsItsMode
         \/ Given("p") = {} \/ NumberOf[LastOf("p")] = -1
=============================================================================
