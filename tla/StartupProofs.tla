--------------------------- MODULE StartupProofs ----------------------------
(***************************************************************************)
(* The command line, of any length and with options in any order, and what *)
(* the program leaves behind, on whatever host it runs.                    *)
(***************************************************************************)
EXTENDS Startup, TLAPS, FiniteSetTheorems

\* The numbers on the command line fit an int: none of them is cut by ToInt.
NumbersFit ==
  \A word \in DOMAIN NumberOf : NumberOf[word] + IntSpace \div 2 \in 0 .. IntSpace - 1

LEMMA IntKeepsNumber ==
  ASSUME NumbersFit, NEW word \in DOMAIN NumberOf
  PROVE  ToInt(NumberOf[word]) = NumberOf[word] /\ NumberOf[word] \in Int
<1> DEFINE half == IntSpace \div 2
           n    == NumberOf[word]
<1>1. n \in Int /\ IntSpace \in Nat /\ IntSpace > 0 /\ half \in Int /\ n + half \in 0 .. IntSpace - 1
  BY NumberAssumption DEF NumbersFit
<1> HIDE DEF half
<1> DEFINE m == n + half
<1>2. m \in 0 .. IntSpace - 1
  BY <1>1
<1>3. m % IntSpace = m
  <2> HIDE DEF m
  <2> QED BY <1>1, <1>2
<1>4. ToInt(n) = (m % IntSpace) - half
  BY DEF ToInt, half
<1> HIDE DEF n
<1>5. ToInt(n) = n
  BY <1>1, <1>3, <1>4
<1> QED BY <1>1, <1>5 DEF n

-----------------------------------------------------------------------------
(* What is known of a line whose options before the nth have been read     *)

NoneRead(line, n, letter) == \A j \in 1 .. n - 1 : line[j][1] # letter

\* i is the last option of this letter.
LastRead(line, n, letter, i) ==
  /\ i \in 1 .. n - 1 /\ line[i][1] = letter
  /\ \A j \in i + 1 .. n - 1 : line[j][1] # letter

\* A field holds the argument of the last option of its letter.
HoldsWord(line, n, field, letter) ==
  \/ NoneRead(line, n, letter) /\ field = NULL
  \/ \E i \in Nat : LastRead(line, n, letter, i) /\ field = line[i][2]

HoldsNumber(line, n, field, letter, default) ==
  \/ NoneRead(line, n, letter) /\ field = default
  \/ \E i \in Nat : /\ LastRead(line, n, letter, i) /\ line[i][2] \in DOMAIN NumberOf
                    /\ field = NumberOf[line[i][2]]

\* Nothing that was read has ended the program.
GoodSoFar(line, n) ==
  /\ NoneRead(line, n, "h") /\ NoneRead(line, n, "?")
  /\ \A j \in 1 .. n - 1 :
       line[j][1] \in {"p", "w"} => line[j][2] \in DOMAIN NumberOf

ConfigIsRead(line, n, c) ==
  /\ c.is_server = ~NoneRead(line, n, "s")
  /\ c.is_client = ~NoneRead(line, n, "c")
  /\ HoldsWord(line, n, c.address, "a")
  /\ HoldsWord(line, n, c.input_file, "i")
  /\ HoldsWord(line, n, c.output_file, "o")
  /\ HoldsNumber(line, n, c.port, "p", -1)
  /\ HoldsNumber(line, n, c.timeout, "w", 1)

\* The fields of a configuration.
IsConfig(c) ==
  c = [ is_server |-> c.is_server, is_client |-> c.is_client, address |-> c.address,
        input_file |-> c.input_file, output_file |-> c.output_file,
        timeout |-> c.timeout, port |-> c.port ]

\* One more option is read.
LEMMA ReadOne ==
  ASSUME NEW line, NEW n \in Nat, n >= 1, NEW letter
  PROVE  /\ line[n][1] = letter => /\ ~NoneRead(line, n + 1, letter)
                                   /\ LastRead(line, n + 1, letter, n)
         /\ line[n][1] # letter =>
              /\ NoneRead(line, n + 1, letter) = NoneRead(line, n, letter)
              /\ \A i \in Nat : LastRead(line, n, letter, i) => LastRead(line, n + 1, letter, i)
<1>1. CASE line[n][1] = letter
  <2>1. n \in 1 .. (n + 1) - 1 /\ n + 1 .. (n + 1) - 1 = {}
    OBVIOUS
  <2> QED BY <1>1, <2>1 DEF NoneRead, LastRead
<1>2. CASE line[n][1] # letter
  <2>1. \A j \in 1 .. (n + 1) - 1 : j \in 1 .. n - 1 \/ j = n
    OBVIOUS
  <2>2. \A j \in 1 .. n - 1 : j \in 1 .. (n + 1) - 1
    OBVIOUS
  <2>3. NoneRead(line, n + 1, letter) <=> NoneRead(line, n, letter)
    BY <1>2, <2>1, <2>2 DEF NoneRead
  <2>4. ASSUME NEW i \in Nat, LastRead(line, n, letter, i)
        PROVE  LastRead(line, n + 1, letter, i)
    <3>1. i \in 1 .. (n + 1) - 1 /\ \A j \in i + 1 .. (n + 1) - 1 : j \in i + 1 .. n - 1 \/ j = n
      BY <2>4 DEF LastRead
    <3> QED BY <1>2, <2>4, <3>1 DEF LastRead
  <2> QED BY <1>2, <2>3, <2>4 DEF NoneRead
<1> QED BY <1>1, <1>2

LEMMA ReadWord ==
  ASSUME NEW line, NEW n \in Nat, n >= 1, NEW letter, NEW field,
         HoldsWord(line, n, field, letter)
  PROVE  /\ line[n][1] = letter => HoldsWord(line, n + 1, line[n][2], letter)
         /\ line[n][1] # letter => HoldsWord(line, n + 1, field, letter)
BY ReadOne DEF HoldsWord

LEMMA ReadNumber ==
  ASSUME NEW line, NEW n \in Nat, n >= 1, NEW letter, NEW field, NEW default,
         HoldsNumber(line, n, field, letter, default)
  PROVE  /\ line[n][1] = letter /\ line[n][2] \in DOMAIN NumberOf =>
              HoldsNumber(line, n + 1, NumberOf[line[n][2]], letter, default)
         /\ line[n][1] # letter => HoldsNumber(line, n + 1, field, letter, default)
BY ReadOne DEF HoldsNumber

LEMMA ReadGood ==
  ASSUME NEW line, NEW n \in Nat, n >= 1, GoodSoFar(line, n),
         line[n][1] \notin {"h", "?"},
         line[n][1] \in {"p", "w"} => line[n][2] \in DOMAIN NumberOf
  PROVE  GoodSoFar(line, n + 1)
<1>1. NoneRead(line, n + 1, "h") /\ NoneRead(line, n + 1, "?")
  BY ReadOne DEF GoodSoFar
<1>2. \A j \in 1 .. (n + 1) - 1 : j \in 1 .. n - 1 \/ j = n
  OBVIOUS
<1> QED BY <1>1, <1>2 DEF GoodSoFar

-----------------------------------------------------------------------------
(* The invariant of parse_arguments                                        *)

\* Why the program has ended.
Ended ==
  \/ code = EX_OK /\ Given("h") # {}
  \/ code = EX_USAGE /\ Given("?") # {}
  \/ code = EX_DATAERR /\ ~(Numbers \subseteq DOMAIN NumberOf)
  \/ /\ GoodSoFar(argv, optind) /\ optind = Len(argv) + 1
     /\ Failing(config) # {}
     /\ code = Checks(config)[Min(Failing(config))][2]

ArgInv ==
  /\ argv \in CommandLines
  /\ pc \in {"options", "checks", "accepted", "exited"}
  /\ optind \in 1 .. Len(argv) + 1
  /\ IsConfig(config) /\ ConfigIsRead(argv, optind, config)
  /\ pc # "exited" => GoodSoFar(argv, optind)
  /\ pc \in {"checks", "accepted"} => optind = Len(argv) + 1
  /\ pc = "accepted" => Failing(config) = {}
  /\ pc = "exited" => Ended

LEMMA ArgInvInit == ArgInit => ArgInv
<1> SUFFICES ASSUME ArgInit PROVE ArgInv
  OBVIOUS
<1>1. argv \in CommandLines /\ optind = 1 /\ pc = "options" /\ Len(argv) \in Nat
  BY LineAssumption DEF ArgInit
<1>2. \A letter : NoneRead(argv, optind, letter)
  BY <1>1 DEF NoneRead
<1>3. config = DefaultConfig
  BY DEF ArgInit
<1>4. IsConfig(config) /\ ConfigIsRead(argv, optind, config)
  BY <1>2, <1>3 DEF DefaultConfig, IsConfig, ConfigIsRead, HoldsWord, HoldsNumber
<1>5. GoodSoFar(argv, optind)
  BY <1>1, <1>2 DEF GoodSoFar
<1> QED BY <1>1, <1>4, <1>5 DEF ArgInv

\* An option that goes into the configuration.
LEMMA ArgInvReads ==
  ASSUME ArgInv, SelectMode \/ TakeWord \/ TakeNumber, NumbersFit
  PROVE  ArgInv'
<1>1. /\ pc = "options" /\ pc' = pc /\ argv' = argv /\ optind' = optind + 1
      /\ argv \in CommandLines /\ optind \in 1 .. Len(argv) /\ Len(argv) \in Nat
  BY LineAssumption DEF ArgInv, SelectMode, TakeWord, TakeNumber, NextOption, Gets
<1>2. optind \in Nat /\ optind >= 1
  BY <1>1
<1>3. IsConfig(config) /\ ConfigIsRead(argv, optind, config) /\ GoodSoFar(argv, optind)
  BY <1>1 DEF ArgInv
<1>4. /\ opt \notin {"h", "?"}
      /\ opt \in {"p", "w"} => optarg \in DOMAIN NumberOf
  BY DEF SelectMode, TakeWord, TakeNumber, Gets
<1>5. GoodSoFar(argv, optind + 1)
  BY <1>2, <1>3, <1>4, ReadGood DEF opt, optarg
<1> DEFINE c == config
           d == config'
<1>6. /\ opt = "s" \/ d.is_server = c.is_server
      /\ opt = "c" \/ d.is_client = c.is_client
      /\ opt = "a" \/ d.address = c.address
      /\ opt = "i" \/ d.input_file = c.input_file
      /\ opt = "o" \/ d.output_file = c.output_file
      /\ opt = "p" \/ d.port = c.port
      /\ opt = "w" \/ d.timeout = c.timeout
      /\ opt = "s" => d.is_server = TRUE
      /\ opt = "c" => d.is_client = TRUE
      /\ opt = "a" => d.address = optarg
      /\ opt = "i" => d.input_file = optarg
      /\ opt = "o" => d.output_file = optarg
      /\ opt = "p" => d.port = NumberOf[optarg]
      /\ opt = "w" => d.timeout = NumberOf[optarg]
      /\ IsConfig(d)
  <2>0. c = [ is_server |-> c.is_server, is_client |-> c.is_client, address |-> c.address,
              input_file |-> c.input_file, output_file |-> c.output_file,
              timeout |-> c.timeout, port |-> c.port ]
    BY <1>3 DEF IsConfig
  <2>1. CASE SelectMode
    BY <2>0, <2>1 DEF SelectMode, Gets, IsConfig
  <2>2. CASE TakeWord
    BY <2>0, <2>2 DEF TakeWord, Gets, IsConfig
  <2>3. CASE TakeNumber
    <3>1. optarg \in DOMAIN NumberOf /\ ToInt(NumberOf[optarg]) = NumberOf[optarg]
      BY <2>3, IntKeepsNumber DEF TakeNumber
    <3> QED BY <2>0, <2>3, <3>1 DEF TakeNumber, Gets, IsConfig
  <2> QED BY <2>1, <2>2, <2>3
<1> HIDE DEF c, d
<1>7. /\ c.is_server = ~NoneRead(argv, optind, "s")
      /\ c.is_client = ~NoneRead(argv, optind, "c")
      /\ HoldsWord(argv, optind, c.address, "a")
      /\ HoldsWord(argv, optind, c.input_file, "i")
      /\ HoldsWord(argv, optind, c.output_file, "o")
      /\ HoldsNumber(argv, optind, c.port, "p", -1)
      /\ HoldsNumber(argv, optind, c.timeout, "w", 1)
  BY <1>3 DEF ConfigIsRead, c
<1>8. opt = argv[optind][1] /\ optarg = argv[optind][2]
  BY DEF opt, optarg
<1>9. d.is_server = ~NoneRead(argv, optind + 1, "s")
  BY <1>2, <1>6, <1>7, <1>8, ReadOne
<1>10. d.is_client = ~NoneRead(argv, optind + 1, "c")
  BY <1>2, <1>6, <1>7, <1>8, ReadOne
<1>11. HoldsWord(argv, optind + 1, d.address, "a")
  BY <1>2, <1>6, <1>7, <1>8, ReadWord
<1>12. HoldsWord(argv, optind + 1, d.input_file, "i")
  BY <1>2, <1>6, <1>7, <1>8, ReadWord
<1>13. HoldsWord(argv, optind + 1, d.output_file, "o")
  BY <1>2, <1>6, <1>7, <1>8, ReadWord
<1>14. HoldsNumber(argv, optind + 1, d.port, "p", -1)
  BY <1>2, <1>4, <1>6, <1>7, <1>8, ReadNumber
<1>15. HoldsNumber(argv, optind + 1, d.timeout, "w", 1)
  BY <1>2, <1>4, <1>6, <1>7, <1>8, ReadNumber
<1>16. IsConfig(config') /\ ConfigIsRead(argv, optind + 1, config')
  BY <1>6, <1>9, <1>10, <1>11, <1>12, <1>13, <1>14, <1>15 DEF ConfigIsRead, d
<1>17. optind' \in 1 .. Len(argv') + 1
  BY <1>1
<1>18. IsConfig(config)' /\ ConfigIsRead(argv, optind, config)' /\ GoodSoFar(argv, optind)'
  BY <1>1, <1>5, <1>16 DEF IsConfig, ConfigIsRead, GoodSoFar, NoneRead, HoldsWord,
                           HoldsNumber, LastRead
<1> QED BY <1>1, <1>17, <1>18 DEF ArgInv

\* An option that ends the program.
LEMMA ArgInvEnds ==
  ASSUME ArgInv, NotANumber \/ Help \/ UnknownFlag
  PROVE  ArgInv'
<1>1. /\ pc = "options" /\ pc' = "exited" /\ argv' = argv /\ optind' = optind
      /\ config' = config /\ optind \in 1 .. Len(argv)
  BY DEF ArgInv, NotANumber, Help, UnknownFlag, Exit, Gets
<1>2. Ended'
  <2>1. CASE NotANumber
    <3>1. optind \in Given("p") \cup Given("w") /\ argv[optind][2] \notin DOMAIN NumberOf
      BY <1>1, <2>1 DEF NotANumber, Gets, Given, opt, optarg
    <3>2. ~(Numbers \subseteq DOMAIN NumberOf)
      BY <3>1 DEF Numbers
    <3>3. code' = EX_DATAERR
      BY <2>1 DEF NotANumber, Exit
    <3> QED BY <1>1, <3>2, <3>3 DEF Ended, Numbers, Given
  <2>2. CASE Help
    <3>1. optind \in Given("h") /\ code' = EX_OK
      BY <1>1, <2>2 DEF Help, Gets, Given, opt, Exit
    <3> QED BY <1>1, <3>1 DEF Ended, Given
  <2>3. CASE UnknownFlag
    <3>1. optind \in Given("?") /\ code' = EX_USAGE
      BY <1>1, <2>3 DEF UnknownFlag, Gets, Given, opt, Exit
    <3> QED BY <1>1, <3>1 DEF Ended, Given
  <2> QED BY <2>1, <2>2, <2>3
<1> QED BY <1>1, <1>2 DEF ArgInv, IsConfig, ConfigIsRead, NoneRead, HoldsWord, HoldsNumber,
                          LastRead

\* The end of the options, and the checks.
LEMMA ArgInvChecks ==
  ASSUME ArgInv, NoMoreOptions \/ Reject \/ Accept
  PROVE  ArgInv'
<1>1. argv' = argv /\ optind' = optind /\ config' = config
  BY DEF NoMoreOptions, Reject, Accept, Exit
<1>2. /\ argv \in CommandLines /\ optind \in 1 .. Len(argv) + 1
      /\ IsConfig(config) /\ ConfigIsRead(argv, optind, config)
      /\ pc # "exited" => GoodSoFar(argv, optind)
      /\ pc \in {"checks", "accepted"} => optind = Len(argv) + 1
  BY DEF ArgInv
<1>3. IsConfig(config)' /\ ConfigIsRead(argv, optind, config)'
      /\ (GoodSoFar(argv, optind) => GoodSoFar(argv, optind)')
  BY <1>1, <1>2 DEF IsConfig, ConfigIsRead, NoneRead, HoldsWord, HoldsNumber, LastRead, GoodSoFar
<1>4. CASE NoMoreOptions
  <2>1. pc = "options" /\ pc' = "checks" /\ optind = Len(argv) + 1
    BY <1>4 DEF NoMoreOptions
  <2> QED BY <1>1, <1>2, <1>3, <2>1 DEF ArgInv
<1>5. CASE Accept
  <2>1. pc = "checks" /\ pc' = "accepted" /\ Failing(config) = {}
    BY <1>5 DEF Accept
  <2>2. Failing(config)' = {}
    BY <1>1, <2>1 DEF Failing, Checks
  <2> QED BY <1>1, <1>2, <1>3, <2>1, <2>2 DEF ArgInv
<1>6. CASE Reject
  <2>1. /\ pc = "checks" /\ pc' = "exited" /\ Failing(config) # {}
        /\ code' = Checks(config)[Min(Failing(config))][2]
    BY <1>6 DEF Reject, Exit
  <2>2. Failing(config') # {} /\ code' = Checks(config')[Min(Failing(config'))][2]
    BY <1>1, <2>1
  <2>3. Ended'
    BY <1>1, <1>2, <1>3, <2>1, <2>2 DEF Ended, Failing, Checks
  <2> QED BY <1>1, <1>2, <1>3, <2>1, <2>3 DEF ArgInv
<1> QED BY <1>4, <1>5, <1>6

LEMMA ArgInvNext == NumbersFit /\ ArgInv /\ [ArgNext]_argVars => ArgInv'
<1> SUFFICES ASSUME NumbersFit, ArgInv, [ArgNext]_argVars
             PROVE  ArgInv'
  OBVIOUS
<1>1. CASE ArgNext
  BY <1>1, ArgInvReads, ArgInvEnds, ArgInvChecks DEF ArgNext
<1>2. CASE UNCHANGED argVars
  <2>1. argv' = argv /\ optind' = optind /\ config' = config /\ pc' = pc /\ code' = code
    BY <1>2 DEF argVars
  <2>2. IsConfig(config)' /\ ConfigIsRead(argv, optind, config)'
        /\ (GoodSoFar(argv, optind) => GoodSoFar(argv, optind)')
    BY <2>1 DEF ArgInv, IsConfig, ConfigIsRead, NoneRead, HoldsWord, HoldsNumber, LastRead,
                GoodSoFar
  <2>3. Failing(config') = Failing(config) /\ Failing(config)' = Failing(config')
    BY <2>1 DEF Failing, Checks
  <2>4. Ended => Ended'
    <3>1. Checks(config)' = Checks(config) /\ Given("h")' = Given("h") /\ Given("?")' = Given("?")
          /\ Numbers' = Numbers
      BY <2>1 DEF Checks, Given, Numbers
    <3> QED BY <2>1, <2>2, <2>3, <3>1 DEF Ended, GoodSoFar, NoneRead, Failing
  <2> QED BY <2>1, <2>2, <2>3, <2>4 DEF ArgInv
<1> QED BY <1>1, <1>2

-----------------------------------------------------------------------------
(* What a line says that has been read to its end                          *)

\* The last option of a letter is the one of the greatest position.
LEMMA LastIsMax ==
  ASSUME optind = Len(argv) + 1, Len(argv) \in Nat, NEW letter
  PROVE  /\ NoneRead(argv, optind, letter) = (Given(letter) = {})
         /\ \A i \in Nat : LastRead(argv, optind, letter, i) =>
              Given(letter) # {} /\ i \in Given(letter) /\ LastOf(letter) = argv[i][2]
<1>1. NoneRead(argv, optind, letter) = (Given(letter) = {})
  <2>1. NoneRead(argv, optind, letter) <=> (Given(letter) = {})
    BY DEF NoneRead, Given
  <2> QED BY <2>1 DEF NoneRead
<1>2. ASSUME NEW i \in Nat, LastRead(argv, optind, letter, i)
      PROVE  Given(letter) # {} /\ i \in Given(letter) /\ LastOf(letter) = argv[i][2]
  <2>1. i \in Given(letter)
    BY <1>2 DEF LastRead, Given
  <2>2. \A j \in Given(letter) : i >= j /\ j \in Nat
    <3>1. SUFFICES ASSUME NEW j \in Given(letter), ~(i >= j)
                   PROVE  FALSE
      BY DEF Given
    <3>2. j \in 1 .. Len(argv) /\ argv[j][1] = letter
      BY DEF Given
    <3>3. j \in i + 1 .. optind - 1
      BY <3>1, <3>2
    <3> QED BY <1>2, <3>2, <3>3 DEF LastRead
  <2>3. \A j \in Given(letter) : (\A m \in Given(letter) : j >= m) => j = i
    BY <2>1, <2>2
  <2>4. Max(Given(letter)) = i
    <3> DEFINE P(x) == \A m \in Given(letter) : x >= m
    <3>1. i \in Given(letter) /\ P(i)
      BY <2>1, <2>2
    <3>2. Max(Given(letter)) \in Given(letter) /\ P(Max(Given(letter)))
      BY <3>1 DEF Max
    <3> QED BY <2>3, <3>2
  <2> QED BY <2>1, <2>4 DEF LastOf
<1> QED BY <1>1, <1>2

\* Every field of a configuration that was read to the end.
LEMMA WholeLine ==
  ASSUME ArgInv, optind = Len(argv) + 1
  PROVE  /\ config.is_server = (Given("s") # {}) /\ config.is_client = (Given("c") # {})
         /\ config.address = Or("a", NULL) /\ (config.address = NULL <=> Given("a") = {})
         /\ config.input_file = Or("i", NULL) /\ (config.input_file = NULL <=> Given("i") = {})
         /\ config.output_file = Or("o", NULL) /\ (config.output_file = NULL <=> Given("o") = {})
         /\ Given("p") = {} => config.port = -1
         /\ Given("p") # {} => config.port = NumberOf[LastOf("p")]
         /\ Given("w") = {} => config.timeout = 1
         /\ Given("w") # {} => config.timeout = NumberOf[LastOf("w")]
         /\ config.port \in Int /\ config.timeout \in Int
<1>1. /\ argv \in CommandLines /\ Len(argv) \in Nat /\ ConfigIsRead(argv, optind, config)
      /\ \A i \in 1 .. Len(argv) : argv[i][1] \in {"a", "i", "o"} => argv[i][2] # NULL
  BY LineAssumption DEF ArgInv
<1>2. \A letter : /\ NoneRead(argv, optind, letter) = (Given(letter) = {})
                  /\ \A i \in Nat : LastRead(argv, optind, letter, i) =>
                       Given(letter) # {} /\ i \in Given(letter) /\ LastOf(letter) = argv[i][2]
  BY <1>1, LastIsMax
<1>3. config.is_server = (Given("s") # {}) /\ config.is_client = (Given("c") # {})
  BY <1>1, <1>2 DEF ConfigIsRead
<1>4. ASSUME NEW letter \in {"a", "i", "o"}, NEW field, HoldsWord(argv, optind, field, letter)
      PROVE  field = Or(letter, NULL) /\ (field = NULL <=> Given(letter) = {})
  <2>1. CASE NoneRead(argv, optind, letter) /\ field = NULL
    BY <1>2, <2>1 DEF Or
  <2>2. CASE \E i \in Nat : LastRead(argv, optind, letter, i) /\ field = argv[i][2]
    <3>1. PICK i \in Nat : LastRead(argv, optind, letter, i) /\ field = argv[i][2]
      BY <2>2
    <3>2. Given(letter) # {} /\ i \in Given(letter) /\ LastOf(letter) = field
      BY <1>2, <3>1
    <3>3. field # NULL
      BY <1>1, <1>4, <3>1, <3>2 DEF Given
    <3> QED BY <3>2, <3>3 DEF Or
  <2> QED BY <1>4, <2>1, <2>2 DEF HoldsWord
<1>5. ASSUME NEW letter, NEW field, NEW default \in Int,
             HoldsNumber(argv, optind, field, letter, default)
      PROVE  /\ Given(letter) = {} => field = default
             /\ Given(letter) # {} => field = NumberOf[LastOf(letter)]
             /\ field \in Int
  <2>1. CASE NoneRead(argv, optind, letter) /\ field = default
    BY <1>2, <2>1
  <2>2. CASE \E i \in Nat : /\ LastRead(argv, optind, letter, i)
                            /\ argv[i][2] \in DOMAIN NumberOf /\ field = NumberOf[argv[i][2]]
    <3>1. PICK i \in Nat : /\ LastRead(argv, optind, letter, i)
                           /\ argv[i][2] \in DOMAIN NumberOf /\ field = NumberOf[argv[i][2]]
      BY <2>2
    <3>2. Given(letter) # {} /\ LastOf(letter) = argv[i][2]
      BY <1>2, <3>1
    <3>3. field \in Int
      BY <3>1, NumberAssumption
    <3> QED BY <3>1, <3>2, <3>3
  <2> QED BY <1>5, <2>1, <2>2 DEF HoldsNumber
<1>6. /\ HoldsWord(argv, optind, config.address, "a")
      /\ HoldsWord(argv, optind, config.input_file, "i")
      /\ HoldsWord(argv, optind, config.output_file, "o")
      /\ HoldsNumber(argv, optind, config.port, "p", -1)
      /\ HoldsNumber(argv, optind, config.timeout, "w", 1)
  BY <1>1 DEF ConfigIsRead
<1>7. config.address = Or("a", NULL) /\ (config.address = NULL <=> Given("a") = {})
  BY <1>4, <1>6
<1>8. config.input_file = Or("i", NULL) /\ (config.input_file = NULL <=> Given("i") = {})
  BY <1>4, <1>6
<1>9. config.output_file = Or("o", NULL) /\ (config.output_file = NULL <=> Given("o") = {})
  BY <1>4, <1>6
<1>10. /\ Given("p") = {} => config.port = -1
       /\ Given("p") # {} => config.port = NumberOf[LastOf("p")]
       /\ config.port \in Int
  BY <1>5, <1>6
<1>11. /\ Given("w") = {} => config.timeout = 1
       /\ Given("w") # {} => config.timeout = NumberOf[LastOf("w")]
       /\ config.timeout \in Int
  BY <1>5, <1>6
<1> QED BY <1>3, <1>7, <1>8, <1>9, <1>10, <1>11

\* Which checks fail, in terms of the line.
LEMMA WhatFails ==
  ASSUME ArgInv, optind = Len(argv) + 1
  PROVE  /\ 1 \in Failing(config) <=> ~ModeIsOne
         /\ 2 \in Failing(config) <=> config.port = -1
         /\ 2 \in Failing(config) => Given("p") = {} \/ NumberOf[LastOf("p")] = -1
         /\ 2 \in Failing(config) \/ 3 \in Failing(config) <=> ~PortIsOne
         /\ 3 \in Failing(config) /\ 2 \notin Failing(config) => Given("p") # {} /\ ~PortIsOne
         /\ 4 \in Failing(config) <=> ~TimeoutIsOne
         /\ 1 \notin Failing(config) =>
              ({5, 6, 7} \cap Failing(config) # {} <=> ~FitsItsMode)
         /\ {5, 6, 7} \cap Failing(config) # {} => ~FitsItsMode
         /\ Failing(config) \subseteq 1 .. 7
         /\ \A i \in {1, 2, 5, 6, 7} : Checks(config)[i][2] = EX_USAGE
         /\ \A i \in {3, 4} : Checks(config)[i][2] = EX_DATAERR
<1> DEFINE F == Failing(config)
<1>1. /\ config.is_server = (Given("s") # {}) /\ config.is_client = (Given("c") # {})
      /\ (config.address = NULL <=> Given("a") = {})
      /\ (config.input_file = NULL <=> Given("i") = {})
      /\ (config.output_file = NULL <=> Given("o") = {})
      /\ Given("p") = {} => config.port = -1
      /\ Given("p") # {} => config.port = NumberOf[LastOf("p")]
      /\ Given("w") = {} => config.timeout = 1
      /\ Given("w") # {} => config.timeout = NumberOf[LastOf("w")]
      /\ config.port \in Int /\ config.timeout \in Int
  BY WholeLine
<1>2. /\ F \subseteq 1 .. 7
      /\ 1 \in F <=> (config.is_server = config.is_client)
      /\ 2 \in F <=> config.port = -1
      /\ 3 \in F <=> config.port < 0 \/ config.port > MAX_PORT
      /\ 4 \in F <=> config.timeout <= 0
      /\ 5 \in F <=> config.is_client /\ config.address = NULL
      /\ 6 \in F <=> config.is_client /\ config.output_file # NULL
      /\ 7 \in F <=> config.is_server /\ config.input_file # NULL
      /\ \A i \in {1, 2, 5, 6, 7} : Checks(config)[i][2] = EX_USAGE
      /\ \A i \in {3, 4} : Checks(config)[i][2] = EX_DATAERR
  <2> DEFINE C == Checks(config)
  <2>1. /\ C[1] = << config.is_server = config.is_client, EX_USAGE >>
        /\ C[2] = << config.port = -1, EX_USAGE >>
        /\ C[3] = << config.port < 0 \/ config.port > MAX_PORT, EX_DATAERR >>
        /\ C[4] = << config.timeout <= 0, EX_DATAERR >>
        /\ C[5] = << config.is_client /\ config.address = NULL, EX_USAGE >>
        /\ C[6] = << config.is_client /\ config.output_file # NULL, EX_USAGE >>
        /\ C[7] = << config.is_server /\ config.input_file # NULL, EX_USAGE >>
        /\ DOMAIN C = 1 .. 7
    BY DEF Checks
  <2>2. F = { i \in DOMAIN C : C[i][1] }
    BY DEF Failing
  <2> HIDE DEF C
  <2>3. \A i \in 1 .. 7 : i \in F <=> C[i][1]
    BY <2>1, <2>2
  <2>4. F \subseteq 1 .. 7
    BY <2>1, <2>2
  <2> HIDE DEF F
  <2>5. /\ C[1][1] <=> (config.is_server = config.is_client)
        /\ C[2][1] <=> (config.port = -1)
        /\ C[3][1] <=> (config.port < 0 \/ config.port > MAX_PORT)
        /\ C[4][1] <=> (config.timeout <= 0)
        /\ C[5][1] <=> (config.is_client /\ config.address = NULL)
        /\ C[6][1] <=> (config.is_client /\ config.output_file # NULL)
        /\ C[7][1] <=> (config.is_server /\ config.input_file # NULL)
    <3>1. C[1][1] <=> (config.is_server = config.is_client)
      BY DEF C, Checks
    <3>2. C[2][1] <=> (config.port = -1)
      BY DEF C, Checks
    <3>3. C[3][1] <=> (config.port < 0 \/ config.port > MAX_PORT)
      BY DEF C, Checks
    <3>4. C[4][1] <=> (config.timeout <= 0)
      BY DEF C, Checks
    <3>5. C[5][1] <=> (config.is_client /\ config.address = NULL)
      BY DEF C, Checks
    <3>6. C[6][1] <=> (config.is_client /\ config.output_file # NULL)
      BY DEF C, Checks
    <3>7. C[7][1] <=> (config.is_server /\ config.input_file # NULL)
      BY DEF C, Checks
    <3> QED BY <3>1, <3>2, <3>3, <3>4, <3>5, <3>6, <3>7
  <2>6. /\ 1 \in F <=> (config.is_server = config.is_client)
        /\ 2 \in F <=> (config.port = -1)
        /\ 3 \in F <=> (config.port < 0 \/ config.port > MAX_PORT)
        /\ 4 \in F <=> (config.timeout <= 0)
        /\ 5 \in F <=> (config.is_client /\ config.address = NULL)
        /\ 6 \in F <=> (config.is_client /\ config.output_file # NULL)
        /\ 7 \in F <=> (config.is_server /\ config.input_file # NULL)
    BY <2>3, <2>5
  <2>7. /\ \A i \in {1, 2, 5, 6, 7} : C[i][2] = EX_USAGE
        /\ \A i \in {3, 4} : C[i][2] = EX_DATAERR
    BY <2>1
  <2> QED BY <2>4, <2>6, <2>7 DEF C
<1> HIDE DEF F
<1>3. 1 \in F <=> ~ModeIsOne
  BY <1>1, <1>2 DEF ModeIsOne
<1>4. /\ 2 \in F => Given("p") = {} \/ NumberOf[LastOf("p")] = -1
      /\ 2 \in F \/ 3 \in F <=> ~PortIsOne
      /\ 3 \in F /\ 2 \notin F => Given("p") # {} /\ ~PortIsOne
  BY <1>1, <1>2, NumberAssumption DEF PortIsOne
<1>5. 4 \in F <=> ~TimeoutIsOne
  BY <1>1, <1>2 DEF TimeoutIsOne
<1>6. /\ {5, 6, 7} \cap F # {} => ~FitsItsMode
      /\ 1 \notin F => ({5, 6, 7} \cap F # {} <=> ~FitsItsMode)
  <2>1. {5, 6, 7} \cap F # {} <=> 5 \in F \/ 6 \in F \/ 7 \in F
    OBVIOUS
  <2>2. FitsItsMode <=> /\ config.is_server => config.input_file = NULL
                        /\ config.is_client => config.address # NULL /\ config.output_file = NULL
    BY <1>1 DEF FitsItsMode
  <2> QED BY <1>1, <1>2, <2>1, <2>2
<1> QED BY <1>2, <1>3, <1>4, <1>5, <1>6 DEF F

\* A line passes every check if it is usable, and only then.
LEMMA PassesIfUsable ==
  ASSUME ArgInv, optind = Len(argv) + 1, GoodSoFar(argv, optind)
  PROVE  Failing(config) = {} <=> Usable
<1>1. Len(argv) \in Nat
  BY LineAssumption DEF ArgInv
<1>2. Given("h") = {} /\ Given("?") = {} /\ Numbers \subseteq DOMAIN NumberOf
  BY <1>1 DEF GoodSoFar, NoneRead, Given, Numbers
<1>3. Usable <=> ModeIsOne /\ FitsItsMode /\ PortIsOne /\ TimeoutIsOne
  BY <1>2 DEF Usable
<1> DEFINE F == Failing(config)
<1>4. /\ 1 \in F <=> ~ModeIsOne
      /\ 2 \in F \/ 3 \in F <=> ~PortIsOne
      /\ 4 \in F <=> ~TimeoutIsOne
      /\ 1 \notin F => ({5, 6, 7} \cap F # {} <=> ~FitsItsMode)
      /\ F \subseteq 1 .. 7
  BY WhatFails
<1> HIDE DEF F
<1>5. CASE F = {}
  BY <1>3, <1>4, <1>5 DEF F
<1>6. CASE F # {}
  <2>1. PICK i \in 1 .. 7 : i \in F
    BY <1>4, <1>6
  <2>2. i \in {5, 6, 7} => {5, 6, 7} \cap F # {}
    BY <2>1
  <2>3. i = 1 \/ i = 2 \/ i = 3 \/ i = 4 \/ i \in {5, 6, 7}
    OBVIOUS
  <2>4. ~Usable
    BY <1>3, <1>4, <2>1, <2>2, <2>3
  <2> QED BY <1>6, <2>4 DEF F
<1> QED BY <1>5, <1>6

\* The first check that fails.
LEMMA FirstFails ==
  ASSUME NEW F \in SUBSET (1 .. 7), F # {}
  PROVE  Min(F) \in F /\ \A i \in F : Min(F) <= i
<1>1. \E m \in F : \A i \in F : m <= i
  <2>1. CASE 1 \in F
    BY <2>1
  <2>2. CASE 1 \notin F /\ 2 \in F
    BY <2>2
  <2>3. CASE F \cap {1, 2} = {} /\ 3 \in F
    BY <2>3
  <2>4. CASE F \cap {1, 2, 3} = {} /\ 4 \in F
    BY <2>4
  <2>5. CASE F \cap {1, 2, 3, 4} = {} /\ 5 \in F
    BY <2>5
  <2>6. CASE F \cap {1, 2, 3, 4, 5} = {} /\ 6 \in F
    BY <2>6
  <2>7. CASE F \cap {1, 2, 3, 4, 5, 6} = {}
    <3>1. ASSUME NEW m \in F
          PROVE  m = 7
      <4>1. m \in 1 .. 7 /\ m \notin {1, 2, 3, 4, 5, 6}
        BY <2>7
      <4> QED BY <4>1
    <3>2. PICK m \in F : TRUE
      OBVIOUS
    <3> QED BY <3>1, <3>2
  <2> QED BY <2>1, <2>2, <2>3, <2>4, <2>5, <2>6, <2>7
<1> QED BY <1>1 DEF Min

\* The code of a line that has been rejected.
LEMMA WhyRejected ==
  ASSUME Failing(config) # {}
  PROVE  LET first == Min(Failing(config))
         IN  /\ first \in Failing(config) /\ \A i \in Failing(config) : first <= i
             /\ first \in 1 .. 7
             /\ first \in {1, 2, 5, 6, 7} => Checks(config)[first][2] = EX_USAGE
             /\ first \in {3, 4} => Checks(config)[first][2] = EX_DATAERR
             /\ Checks(config)[first][2] \in {EX_USAGE, EX_DATAERR}
<1> DEFINE first == Min(Failing(config))
<1>1. DOMAIN Checks(config) = 1 .. 7
  BY DEF Checks
<1>2. Failing(config) \in SUBSET (1 .. 7)
  BY <1>1 DEF Failing
<1>3. first \in Failing(config) /\ \A i \in Failing(config) : first <= i
  BY <1>2, FirstFails
<1>4. first \in 1 .. 7
  BY <1>2, <1>3
<1> HIDE DEF first
<1>5. first = 1 \/ first = 2 \/ first = 3 \/ first = 4 \/ first = 5 \/ first = 6 \/ first = 7
  BY <1>4
<1>6. \A i \in {1, 2, 5, 6, 7} : Checks(config)[i][2] = EX_USAGE
  BY DEF Checks
<1>7. \A i \in {3, 4} : Checks(config)[i][2] = EX_DATAERR
  BY DEF Checks
<1> QED BY <1>3, <1>4, <1>5, <1>6, <1>7 DEF first

-----------------------------------------------------------------------------
(* What the invariant says of the verdict                                  *)

LEMMA InvGivesVerdict == ArgInv => VerdictIsRight
<1> SUFFICES ASSUME ArgInv, pc \in {"accepted", "exited"}
             PROVE  pc = "accepted" <=> Usable
  BY DEF VerdictIsRight
<1>1. CASE pc = "accepted"
  <2>1. optind = Len(argv) + 1 /\ GoodSoFar(argv, optind) /\ Failing(config) = {}
    BY <1>1 DEF ArgInv
  <2> QED BY <1>1, <2>1, PassesIfUsable
<1>2. CASE pc = "exited"
  <2>1. Ended
    BY <1>2 DEF ArgInv
  <2>2. CASE Given("h") # {} \/ Given("?") # {} \/ ~(Numbers \subseteq DOMAIN NumberOf)
    BY <1>2, <2>2 DEF Usable
  <2>3. CASE /\ GoodSoFar(argv, optind) /\ optind = Len(argv) + 1
             /\ Failing(config) # {}
    BY <1>2, <2>3, PassesIfUsable
  <2> QED BY <2>1, <2>2, <2>3 DEF Ended
<1> QED BY <1>1, <1>2

LEMMA InvGivesConfig == ArgInv => ConfigIsGiven
<1> SUFFICES ASSUME ArgInv, pc = "accepted"
             PROVE  ConfigIsGiven
  BY DEF ConfigIsGiven
<1>1. optind = Len(argv) + 1 /\ Usable
  BY InvGivesVerdict DEF ArgInv, VerdictIsRight
<1>2. Given("p") # {}
  BY <1>1 DEF Usable, PortIsOne
<1> QED BY <1>1, <1>2, WholeLine DEF ConfigIsGiven

LEMMA InvGivesReason == ArgInv => CodeTellsWhy
<1> SUFFICES ASSUME ArgInv, pc = "exited"
             PROVE  CodeTellsWhy
  BY DEF CodeTellsWhy
<1>1. EX_OK # EX_USAGE /\ EX_OK # EX_DATAERR /\ EX_USAGE # EX_DATAERR
  BY DEF EX_OK, EX_USAGE, EX_DATAERR
<1>2. Ended
  BY DEF ArgInv
<1>3. CASE code = EX_OK /\ Given("h") # {}
  BY <1>1, <1>3 DEF CodeTellsWhy
<1>4. CASE code = EX_USAGE /\ Given("?") # {}
  BY <1>1, <1>4 DEF CodeTellsWhy
<1>5. CASE code = EX_DATAERR /\ ~(Numbers \subseteq DOMAIN NumberOf)
  BY <1>1, <1>5 DEF CodeTellsWhy
<1>6. CASE /\ optind = Len(argv) + 1
           /\ Failing(config) # {}
           /\ code = Checks(config)[Min(Failing(config))][2]
  <2> DEFINE F     == Failing(config)
             first == Min(F)
  <2>1. /\ first \in F /\ first \in 1 .. 7 /\ \A i \in F : first <= i
        /\ first \in {1, 2, 5, 6, 7} => code = EX_USAGE
        /\ first \in {3, 4} => code = EX_DATAERR
    BY <1>6, WhyRejected
  <2>2. /\ 1 \in F <=> ~ModeIsOne
        /\ 2 \in F => Given("p") = {} \/ NumberOf[LastOf("p")] = -1
        /\ 3 \in F /\ 2 \notin F => Given("p") # {} /\ ~PortIsOne
        /\ 4 \in F <=> ~TimeoutIsOne
        /\ {5, 6, 7} \cap F # {} => ~FitsItsMode
    BY <1>6, WhatFails
  <2> HIDE DEF first, F
  <2>3. first = 3 => 2 \notin F
    BY <2>1
  <2>4. CASE first = 3 \/ first = 4
    <3>1. code = EX_DATAERR
      BY <2>1, <2>4
    <3>2. (Given("p") # {} /\ ~PortIsOne) \/ ~TimeoutIsOne
      BY <2>1, <2>2, <2>3, <2>4
    <3> QED BY <1>1, <3>1, <3>2 DEF CodeTellsWhy
  <2>5. CASE first \in {1, 2, 5, 6, 7}
    <3>1. code = EX_USAGE
      BY <2>1, <2>5
    <3>2. first \in {5, 6, 7} => {5, 6, 7} \cap F # {}
      BY <2>1
    <3>3. ~ModeIsOne \/ ~FitsItsMode \/ Given("p") = {} \/ NumberOf[LastOf("p")] = -1
      BY <2>1, <2>2, <2>5, <3>2
    <3> QED BY <1>1, <3>1, <3>3 DEF CodeTellsWhy
  <2> QED BY <2>1, <2>4, <2>5
<1> QED BY <1>2, <1>3, <1>4, <1>5, <1>6 DEF Ended

-----------------------------------------------------------------------------
(* main, around them                                                       *)

LEMMA StartTakesArgSteps == [StartNext]_startVars => [ArgNext]_argVars
BY DEF StartNext, startVars, InstallHandlers, ParseArguments, Resolve, TryNext, TakeAddress,
       NoAddressLeft, OpenStream, RunSession, CleanUp

LEMMA AlwaysArgInv == ASSUME NumbersFit PROVE StartSpec => []ArgInv
<1>1. StartInit => ArgInv
  BY ArgInvInit DEF StartInit
<1>2. ArgInv /\ [StartNext]_startVars => ArgInv'
  BY ArgInvNext, StartTakesArgSteps
<1> QED BY <1>1, <1>2, PTL DEF StartSpec

\* Every command line that can be used is accepted and no other, however long it
\* is and in whatever order its options stand, unless a number on it is too large
\* for an int (parse_arguments).
THEOREM UsableLinesAreAccepted == ASSUME NumbersFit PROVE StartSpec => []VerdictIsRight
BY AlwaysArgInv, InvGivesVerdict, PTL

\* The configuration of an accepted line holds the last argument of each option
\* that was given, and the default of each that was not (parse_arguments).
THEOREM LastOptionCounts == ASSUME NumbersFit PROVE StartSpec => []ConfigIsGiven
BY AlwaysArgInv, InvGivesConfig, PTL

\* A line that is rejected has the fault that its exit code names (parse_arguments).
THEOREM ExitCodeIsTrue == ASSUME NumbersFit PROVE StartSpec => []CodeTellsWhy
BY AlwaysArgInv, InvGivesReason, PTL

-----------------------------------------------------------------------------
(* What main holds, at each stage                                          *)

Opened == {"open", "session", "cleanup"}   \* the stages with a socket

LeakInv ==
  /\ stage \in {"handlers", "arguments", "resolve", "setup", "exited"} \cup Opened
  /\ sockets = IF stage \in Opened THEN {my_socket} ELSE {}
  /\ stage \notin {"session", "cleanup"} => file = NULL
  /\ stage # "setup" => result = << >>

\* EX_OK is not returned before a session, but for help.
CodeInv ==
  /\ argv \in CommandLines /\ optind \in Nat \ {0}
  /\ pc = "exited" /\ code = EX_OK => Given("h") # {}
  /\ SuccessIsEarned

\* Where a step of parse_arguments takes main.
LEMMA WhereParsingLeads ==
  ASSUME ParseArguments
  PROVE  \/ stage' = "arguments" /\ pc' \notin {"accepted", "exited"}
         \/ stage' = "resolve" /\ pc' = "accepted"
         \/ stage' = "exited" /\ pc' = "exited" /\ status' = code'
<1>1. CASE pc' = "exited"
  BY <1>1 DEF ParseArguments, Return
<1>2. CASE pc' = "accepted"
  BY <1>2 DEF ParseArguments, GoOn
<1>3. CASE pc' \notin {"exited", "accepted"}
  <2>1. stage = "arguments" /\ stage' = stage
    BY <1>3 DEF ParseArguments
  <2> QED BY <1>3, <2>1
<1> QED BY <1>1, <1>2, <1>3

LEMMA LeakInvInit == StartInit => LeakInv
BY DEF StartInit, LeakInv, Opened

LEMMA LeakInvNext == LeakInv /\ [StartNext]_startVars => LeakInv'
<1> SUFFICES ASSUME LeakInv, [StartNext]_startVars
             PROVE  LeakInv'
  OBVIOUS
<1> USE DEF LeakInv, Opened, rest, host
<1>1. CASE InstallHandlers
  BY <1>1 DEF InstallHandlers, GoOn, Return
<1>2. CASE ParseArguments
  <2>1. stage = "arguments" /\ UNCHANGED rest
    BY <1>2 DEF ParseArguments
  <2>2. stage' \in {"arguments", "resolve", "exited"}
    BY <1>2, WhereParsingLeads
  <2> QED BY <2>1, <2>2
<1>3. CASE Resolve
  BY <1>3 DEF Resolve, GoOn, Return
<1>4. CASE TryNext
  BY <1>4 DEF TryNext, Searches, Closed
<1>5. CASE TakeAddress
  BY <1>5 DEF TakeAddress, Searches, GoOn
<1>6. CASE NoAddressLeft
  BY <1>6 DEF NoAddressLeft, Return
<1>7. CASE OpenStream
  BY <1>7 DEF OpenStream, GoOn, Return
<1>8. CASE RunSession
  BY <1>8 DEF RunSession, GoOn
<1>9. CASE CleanUp
  BY <1>9 DEF CleanUp, Return
<1>10. CASE UNCHANGED startVars
  BY <1>10 DEF startVars
<1> QED BY <1>1, <1>2, <1>3, <1>4, <1>5, <1>6, <1>7, <1>8, <1>9, <1>10 DEF StartNext

LEMMA InvGivesNothingLeaks == LeakInv => NothingLeaks
<1> SUFFICES ASSUME LeakInv PROVE NothingLeaks
  OBVIOUS
<1>1. sockets = {} \/ sockets = {my_socket}
  BY DEF LeakInv
<1>2. Cardinality(sockets) <= 1
  <2>1. CASE sockets = {}
    BY <2>1, FS_EmptySet
  <2>2. CASE sockets = {my_socket}
    BY <2>2, FS_Singleton
  <2> QED BY <1>1, <2>1, <2>2
<1> QED BY <1>2 DEF LeakInv, Opened, NothingLeaks

\* Whichever call of the setup fails, on a host with any addresses, the program
\* ends with no socket, stream or list of addresses left to it (run_client and
\* run_server with the setup of their sockets).
THEOREM NothingIsLeftOpen == StartSpec => []NothingLeaks
<1>1. StartSpec => []LeakInv
  BY LeakInvInit, LeakInvNext, PTL DEF StartSpec
<1> QED BY <1>1, InvGivesNothingLeaks, PTL

\* No check ends the program with EX_OK.
LEMMA HelpIsTheOnlySuccess ==
  ASSUME CodeInv, ArgNext
  PROVE  /\ argv' \in CommandLines /\ optind' \in Nat \ {0}
         /\ Given("h")' = Given("h")
         /\ pc' = "exited" /\ code' = EX_OK => Given("h") # {}
<1> USE DEF EX_OK, EX_USAGE, EX_DATAERR
<1>1. argv \in CommandLines /\ optind \in Nat \ {0} /\ Len(argv) \in Nat
  BY LineAssumption DEF CodeInv
<1>2. argv' = argv
  BY DEF ArgNext, SelectMode, TakeWord, TakeNumber, NotANumber, Help, UnknownFlag,
         NoMoreOptions, Reject, Accept, NextOption, Exit
<1>3. Given("h")' = Given("h")
  BY <1>2 DEF Given
<1>4. CASE SelectMode \/ TakeWord \/ TakeNumber
  <2>1. optind' = optind + 1 /\ pc' = pc /\ pc = "options"
    BY <1>4 DEF SelectMode, TakeWord, TakeNumber, NextOption, Gets
  <2> QED BY <1>1, <1>2, <1>3, <2>1
<1>5. CASE NotANumber \/ UnknownFlag \/ NoMoreOptions \/ Accept
  BY <1>1, <1>2, <1>3, <1>5 DEF NotANumber, UnknownFlag, NoMoreOptions, Accept, Exit
<1>6. CASE Help
  <2>1. optind \in Given("h") /\ optind' = optind
    BY <1>1, <1>6 DEF Help, Gets, Given, opt, Exit
  <2> QED BY <1>1, <1>2, <1>3, <2>1
<1>7. CASE Reject
  <2>1. optind' = optind /\ Failing(config) # {} /\ code' = Checks(config)[Min(Failing(config))][2]
    BY <1>7 DEF Reject, Exit
  <2>2. code' \in {EX_USAGE, EX_DATAERR}
    BY <2>1, WhyRejected
  <2> QED BY <1>1, <1>2, <1>3, <2>1, <2>2
<1> QED BY <1>4, <1>5, <1>6, <1>7 DEF ArgNext

LEMMA CodeInvInit == StartInit => CodeInv
BY DEF StartInit, ArgInit, CodeInv, SuccessIsEarned

LEMMA CodeInvNext == CodeInv /\ [StartNext]_startVars => CodeInv'
<1> SUFFICES ASSUME CodeInv, [StartNext]_startVars
             PROVE  CodeInv'
  OBVIOUS
<1>1. ASSUME UNCHANGED argVars, SuccessIsEarned'
      PROVE  CodeInv'
  BY <1>1 DEF CodeInv, argVars, Given
<1>2. ASSUME UNCHANGED argVars, stage' # "exited" \/ status' # EX_OK
      PROVE  CodeInv'
  BY <1>1, <1>2 DEF SuccessIsEarned
<1> USE DEF EX_OK, EX_OSERR, EX_NOHOST, EX_NOINPUT, EX_CANTCREAT, EX_IOERR, GoOn, Return
<1>3. CASE InstallHandlers
  <2>1. UNCHANGED argVars /\ (stage' # "exited" \/ status' # EX_OK)
    BY <1>3 DEF InstallHandlers
  <2> QED BY <1>2, <2>1
<1>4. CASE ParseArguments
  <2>1. stage = "arguments" /\ ArgNext
    BY <1>4 DEF ParseArguments
  <2>2. /\ argv' \in CommandLines /\ optind' \in Nat \ {0}
        /\ Given("h")' = Given("h")
        /\ pc' = "exited" /\ code' = EX_OK => Given("h") # {}
    BY <2>1, HelpIsTheOnlySuccess
  <2>3. stage' = "exited" => pc' = "exited" /\ status' = code'
    BY <1>4, WhereParsingLeads
  <2> QED BY <2>2, <2>3 DEF CodeInv, SuccessIsEarned
<1>5. CASE Resolve
  <2>1. UNCHANGED argVars /\ (stage' # "exited" \/ status' # EX_OK)
    BY <1>5 DEF Resolve
  <2> QED BY <1>2, <2>1
<1>6. CASE TryNext \/ TakeAddress
  <2>1. UNCHANGED argVars /\ stage' # "exited"
    BY <1>6 DEF TryNext, TakeAddress, Searches
  <2> QED BY <1>2, <2>1
<1>7. CASE NoAddressLeft
  <2>1. UNCHANGED argVars /\ status' # EX_OK
    BY <1>7 DEF NoAddressLeft
  <2> QED BY <1>2, <2>1
<1>8. CASE OpenStream
  <2>1. UNCHANGED argVars /\ (stage' # "exited" \/ status' # EX_OK)
    BY <1>8 DEF OpenStream
  <2> QED BY <1>2, <2>1
<1>9. CASE RunSession
  <2>1. UNCHANGED argVars /\ stage' # "exited"
    BY <1>9 DEF RunSession
  <2> QED BY <1>2, <2>1
<1>10. CASE CleanUp
  <2>1. UNCHANGED argVars /\ session' = session /\ status' \in {session, EX_OSERR, EX_IOERR}
    BY <1>10 DEF CleanUp, CloseCodes
  <2> QED BY <1>1, <2>1 DEF SuccessIsEarned
<1>11. CASE UNCHANGED startVars
  BY <1>1, <1>11 DEF startVars, rest, SuccessIsEarned, CodeInv, Given, argVars
<1> QED BY <1>3, <1>4, <1>5, <1>6, <1>7, <1>8, <1>9, <1>10, <1>11 DEF StartNext

\* The program ends with EX_OK only after a session that has ended well, or after
\* help: no failure on the way there, nor in the clean-up, is lost (main,
\* run_client, run_server, parse_arguments).
THEOREM SuccessIsAlwaysEarned == StartSpec => []SuccessIsEarned
<1>1. CodeInv => SuccessIsEarned
  BY DEF CodeInv
<1> QED BY <1>1, CodeInvInit, CodeInvNext, PTL DEF StartSpec

-----------------------------------------------------------------------------
(* The output file                                                         *)

Addresses == Wildcard \cup Local

\* The list is searched from its head, and the socket is one of the list's; the
\* output is touched only with such a socket, and by a server that has its session.
SpareInv ==
  /\ stage \in {"resolve", "setup"} \cup Opened => pc = "accepted"
  /\ stage = "setup" =>
       /\ result \in Seq(Addresses) /\ rider \in Nat \ {0}
  /\ stage \in Opened => my_socket \in Addresses
  /\ stage \in {"handlers", "arguments", "resolve", "setup", "open"} => ~truncated
  /\ stage = "cleanup" => session \in Sessions
  /\ truncated => /\ pc = "accepted" /\ config.is_server
                  /\ config.output_file \notin {NULL, "-"}
                  /\ my_socket \in Addresses
                  /\ stage = "exited" => session \in Sessions

LEMMA AddressesAreFinite == IsFiniteSet(Wildcard) /\ IsFiniteSet(Local)
<1>1. ASSUME NEW n
      PROVE  IsFiniteSet([ name : {n}, family : {"v4", "v6"} ])
  <2> DEFINE a == [ name |-> n, family |-> "v4" ]
             b == [ name |-> n, family |-> "v6" ]
  <2>1. [ name : {n}, family : {"v4", "v6"} ] = {a} \cup {b}
    <3>1. ASSUME NEW r \in [ name : {n}, family : {"v4", "v6"} ]
          PROVE  r \in {a} \cup {b}
      <4>1. r = [ name |-> r.name, family |-> r.family ] /\ r.name = n
            /\ (r.family = "v4" \/ r.family = "v6")
        OBVIOUS
      <4> QED BY <4>1
    <3>2. a \in [ name : {n}, family : {"v4", "v6"} ] /\ b \in [ name : {n}, family : {"v4", "v6"} ]
      OBVIOUS
    <3> HIDE DEF a, b
    <3> QED BY <3>1, <3>2
  <2>2. IsFiniteSet({a})
    BY FS_Singleton
  <2>3. IsFiniteSet({a} \cup {b})
    BY <2>2, FS_AddElement
  <2> QED BY <2>1, <2>3
<1> QED BY <1>1 DEF Wildcard, Local

\* The answers of getaddrinfo are lists of addresses.
LEMMA ListsOfAddresses ==
  ASSUME NEW list \in Resolutions
  PROVE  list \in Seq(Addresses)
<1>1. ASSUME NEW S, IsFiniteSet(S), S \subseteq Addresses, NEW f \in SetToSeqs(S)
      PROVE  f \in Seq(Addresses)
  <2>1. Cardinality(S) \in Nat
    BY <1>1, FS_CardinalityType
  <2>2. f \in [1 .. Cardinality(S) -> S]
    BY DEF SetToSeqs
  <2>3. f \in [1 .. Cardinality(S) -> Addresses]
    BY <1>1, <2>2
  <2> QED BY <2>1, <2>3
<1>2. CASE config.is_server /\ config.address \in {NULL, ""}
  <2>1. list \in SetToSeqs(Wildcard)
    BY <1>2 DEF Resolutions
  <2> QED BY <1>1, <2>1, AddressesAreFinite DEF Addresses
<1>3. CASE ~(config.is_server /\ config.address \in {NULL, ""})
  <2>1. list \in SetToAllKPermutations(Local)
    BY <1>3 DEF Resolutions
  <2>2. PICK S \in SUBSET Local : list \in SetToSeqs(S)
    BY <2>1 DEF SetToAllKPermutations
  <2>3. IsFiniteSet(S)
    BY AddressesAreFinite, FS_Subset
  <2> QED BY <1>1, <2>2, <2>3 DEF Addresses
<1> QED BY <1>2, <1>3

LEMMA SpareInvInit == StartInit => SpareInv
BY DEF StartInit, SpareInv, Opened

LEMMA SpareInvNext == LeakInv /\ SpareInv /\ [StartNext]_startVars => SpareInv'
<1> SUFFICES ASSUME LeakInv, SpareInv, [StartNext]_startVars
             PROVE  SpareInv'
  OBVIOUS
<1>11. ParseArguments =>
         stage' \in {"arguments", "exited"} \/ (stage' = "resolve" /\ pc' = "accepted")
  BY WhereParsingLeads
<1> USE DEF Opened, rest, host, argVars, Addresses
<1>0. ~truncated \/ stage \notin {"handlers", "arguments", "resolve", "setup", "open"}
  BY DEF SpareInv
<1>1. CASE InstallHandlers
  BY <1>0, <1>1 DEF SpareInv, InstallHandlers, GoOn, Return
<1>2. CASE ParseArguments
  <2>1. stage = "arguments" /\ UNCHANGED <<host, rest>> /\ ~truncated
    BY <1>0, <1>2 DEF ParseArguments
  <2>2. stage' \in {"arguments", "exited"} \/ (stage' = "resolve" /\ pc' = "accepted")
    BY <1>2, <1>11
  <2> QED BY <2>1, <2>2 DEF SpareInv
<1>3. CASE Resolve
  <2>1. /\ stage = "resolve" /\ pc = "accepted" /\ ~truncated
        /\ UNCHANGED <<argVars, sockets, my_socket, file, truncated, session>>
    BY <1>0, <1>3 DEF SpareInv, Resolve
  <2>2. CASE result' \in Resolutions /\ rider' = 1 /\ stage' = "setup"
    <3>1. result' \in Seq(Addresses)
      BY <2>2, ListsOfAddresses
    <3> QED BY <2>1, <2>2, <3>1 DEF SpareInv
  <2>3. CASE stage' = "exited"
    BY <2>1, <2>3 DEF SpareInv
  <2> QED BY <1>3, <2>2, <2>3 DEF Resolve, GoOn, Return
<1>4. CASE TryNext
  <2>1. /\ stage = "setup" /\ UNCHANGED <<argVars, stage, host, result, my_socket, truncated>>
        /\ rider' = rider + 1
    BY <1>4 DEF TryNext, Searches
  <2> QED BY <1>0, <2>1 DEF SpareInv
<1>5. CASE TakeAddress
  <2>1. /\ stage = "setup" /\ rider \in 1 .. Len(result) /\ result \in Seq(Addresses)
        /\ pc = "accepted" /\ ~truncated
    BY <1>0, <1>5 DEF SpareInv, TakeAddress, Searches
  <2>2. result[rider] \in Addresses
    BY <2>1
  <2>3. /\ my_socket' = result[rider] /\ stage' = "open"
        /\ UNCHANGED <<argVars, host, truncated>>
    BY <1>5 DEF TakeAddress, GoOn
  <2> QED BY <2>1, <2>2, <2>3 DEF SpareInv
<1>6. CASE NoAddressLeft
  BY <1>0, <1>6 DEF SpareInv, NoAddressLeft, Return
<1>7. CASE OpenStream
  <2>1. /\ stage = "open" /\ pc = "accepted" /\ my_socket \in Addresses /\ ~truncated
        /\ UNCHANGED <<argVars, host, result, rider, my_socket, session>>
    BY <1>7 DEF SpareInv, OpenStream
  <2>2. stage' \in {"session", "exited"}
    BY <1>7 DEF OpenStream, GoOn, Return
  <2>3. truncated' => /\ config.is_server /\ config.output_file \notin {NULL, "-"}
                      /\ stage' = "session"
    BY <1>7, <2>1 DEF OpenStream, stream, GoOn, Return
  <2> QED BY <2>1, <2>2, <2>3 DEF SpareInv
<1>8. CASE RunSession
  BY <1>8 DEF SpareInv, RunSession, GoOn
<1>9. CASE CleanUp
  BY <1>9 DEF SpareInv, CleanUp, Return
<1>10. CASE UNCHANGED startVars
  BY <1>10 DEF SpareInv, startVars
<1> QED BY <1>1, <1>2, <1>3, <1>4, <1>5, <1>6, <1>7, <1>8, <1>9, <1>10 DEF StartNext

\* A server that is started with a line that cannot be used, that finds no address
\* to bind or that fails in any other way before its session has not emptied the
\* file of an earlier transfer (run_server opens its output after parse_arguments
\* and setup_server_socket).
THEOREM OutputIsAlwaysSpared == ASSUME NumbersFit PROVE StartSpec => []OutputIsSpared
<1>1. StartSpec => []LeakInv
  BY LeakInvInit, LeakInvNext, PTL DEF StartSpec
<1>2. StartSpec => []SpareInv
  BY <1>1, SpareInvInit, SpareInvNext, PTL DEF StartSpec
<1>3. ArgInv /\ SpareInv => OutputIsSpared
  <2> SUFFICES ASSUME ArgInv, SpareInv, truncated
               PROVE  OutputIsSpared
    BY DEF OutputIsSpared
  <2>1. /\ pc = "accepted" /\ config.is_server /\ config.output_file \notin {NULL, "-"}
        /\ my_socket \in Addresses /\ (stage = "exited" => session \in Sessions)
    BY DEF SpareInv
  <2>2. Usable
    BY <2>1, InvGivesVerdict DEF VerdictIsRight
  <2>3. optind = Len(argv) + 1
    BY <2>1 DEF ArgInv
  <2>4. Given("s") # {} /\ config.output_file = Or("o", NULL)
    BY <2>1, <2>3, WholeLine
  <2>5. LastOf("o") # "-"
    BY <2>1, <2>4 DEF Or
  <2>6. my_socket # NULL /\ (stage = "exited" => session # NULL)
    BY <2>1, NullAssumption DEF Addresses
  <2> QED BY <2>1, <2>2, <2>4, <2>5, <2>6 DEF OutputIsSpared
<1> QED BY <1>2, <1>3, AlwaysArgInv, PTL
=============================================================================
