------------------------------- MODULE GetOpt -------------------------------
(***************************************************************************)
(* The option parser of the scons branch, util/fugetopt.cc: getopt()       *)
(* called until it returns -1, as main() of stub/console/stub.cc does.     *)
(*                                                                         *)
(* A word is a sequence of letters.  argv holds the words' numbers, so     *)
(* that a permutation of it shows; its first element here is argv[1], and  *)
(* place is the rest of the word it points into, <<>> for EMSG.  optreset, *)
(* optind = 0 and `W;' have no caller and are left out.                    *)
(***************************************************************************)
EXTENDS Integers, Sequences

CONSTANTS Chars,      \* letters
          Lines,      \* the command lines: sequences of words
          OptStrings  \* the option strings, as records of
                      \*   first: "-", "+" or "", what it starts with
                      \*   colon: does ":" follow
                      \*   arg: what each letter takes: no, yes or maybe
                      \*   posix: is POSIXLY_INCORRECT_GETOPT unset

ASSUME GetOptAssumption ==
  /\ Lines \subseteq Seq(Seq(Chars))
  /\ \A o \in OptStrings :
       \A c \in DOMAIN o.arg : o.arg[c] \in {"no", "yes", "maybe"}

VARIABLES words, options,            \* the call's arguments
          argv, optind, place,       \* where the parser is
          nonopt_start, nonopt_end,  \* the words skipped, -1 for none
          returned,                  \* what it returned: letters and optargs
          done                       \* the last return was -1

getoptVars == <<words, options, argv, optind, place, nonopt_start, nonopt_end,
                returned, done>>

GetOptStart(line, optstring) ==
  /\ words = line /\ options = optstring
  /\ argv = [i \in 1 .. Len(words) |-> i]
  /\ optind = 1 /\ place = <<>>
  /\ nonopt_start = -1 /\ nonopt_end = -1
  /\ returned = <<>> /\ done = FALSE

GetOptInit == \E l \in Lines, o \in OptStrings : GetOptStart(l, o)

IN_ORDER == ~options.posix /\ options.first = "-"
PERMUTE == ~options.posix /\ options.first = ""

NoArg == <<"NULL">>
BADCH == [ret |-> "?", optarg |-> NoArg]
BADARG == [ret |-> IF options.colon THEN ":" ELSE "?", optarg |-> NoArg]
INORDER(word) == [ret |-> "1", optarg |-> word]
-----------------------------------------------------------------------------
\* The loop of gcd(), unrolled: gcd(a, b) is gcd[b][a].
gcd[b \in Nat \ {0}] == [a \in Nat |-> IF a % b = 0 THEN b ELSE gcd[a % b][b]]

Swap(s, i, j) == [s EXCEPT ![i] = s[j], ![j] = s[i]]

\* After each number of turns of a cycle that starts at cstart: where it is,
\* and what has become of the arguments.
Turns(start, end, opt_end, cstart, nargv) ==
  LET turn[j \in Nat] ==
        IF j = 0 THEN [pos |-> cstart, args |-> nargv]
        ELSE LET before == turn[j - 1]
                 pos == IF before.pos >= end THEN before.pos - (end - start)
                                             ELSE before.pos + (opt_end - end)
             IN [pos |-> pos, args |-> Swap(before.args, pos, cstart)]
  IN turn

\* Mutant: one cycle, whatever the lengths of the blocks.
PermuteOnce(start, end, opt_end, nargv) ==
  Turns(start, end, opt_end, end, nargv)[opt_end - start].args

\* The cycles of permute_args().
Permuted(start, end, opt_end, nargv) ==
  LET ncycle == gcd[opt_end - end][end - start]
      cyclelen == (opt_end - start) \div ncycle
      cycle[i \in 0 .. ncycle] ==
        IF i = 0 THEN nargv
        ELSE Turns(start, end, opt_end, end + i - 1, cycle[i - 1])[cyclelen].args
  IN cycle[ncycle]

\* permute_args(), called with what was skipped and the options behind it,
\* up to opt_end; skipped words then start where the options end.
permute_args(opt_end) ==
  argv' = Permuted(nonopt_start, nonopt_end, opt_end, argv)

Skipped == nonopt_end - nonopt_start

ForgetSkipped == nonopt_start' = -1 /\ nonopt_end' = -1

Return(r) == returned' = Append(returned, r)
-----------------------------------------------------------------------------
Scanning == ~done /\ place = <<>>

Word == words[argv[optind]]

IsOption(w) == Len(w) > 1 /\ w[1] = "-"

\* The end of the argument vector.
EndOfArgs ==
  /\ Scanning /\ optind > Len(argv)
  /\ IF nonopt_end # -1
     THEN permute_args(optind) /\ optind' = optind - Skipped
     ELSE /\ optind' = IF nonopt_start # -1 THEN nonopt_start ELSE optind
          /\ UNCHANGED argv
  /\ ForgetSkipped
  /\ done' = TRUE
  /\ UNCHANGED <<words, options, place, returned>>

AtNonOption == Scanning /\ optind <= Len(argv) /\ ~IsOption(Word)

\* A non-option, returned as the argument of option 1.
NonOptionInOrder ==
  /\ AtNonOption /\ IN_ORDER
  /\ optind' = optind + 1
  /\ Return(INORDER(Word))
  /\ UNCHANGED <<words, options, argv, place, nonopt_start, nonopt_end, done>>

\* A non-option ends the options.
NonOptionStops ==
  /\ AtNonOption /\ ~IN_ORDER /\ ~PERMUTE
  /\ done' = TRUE
  /\ UNCHANGED <<words, options, argv, optind, place, nonopt_start, nonopt_end,
                 returned>>

\* A non-option is skipped; those skipped before are brought up to it.
NonOptionSkipped ==
  /\ AtNonOption /\ PERMUTE
  /\ IF nonopt_start # -1 /\ nonopt_end # -1
     THEN /\ permute_args(optind)
          /\ nonopt_start' = optind - Skipped
          /\ nonopt_end' = -1
     ELSE /\ nonopt_start' = IF nonopt_start = -1 THEN optind ELSE nonopt_start
          /\ UNCHANGED <<argv, nonopt_end>>
  /\ optind' = optind + 1
  /\ UNCHANGED <<words, options, place, returned, done>>

AtOption == Scanning /\ optind <= Len(argv) /\ IsOption(Word)

\* Mutant: also when nothing was skipped.
OptionsBeginAlways == IF nonopt_end = -1 THEN optind ELSE nonopt_end

\* nonopt_end, when an option is found: the skipped words end here.
OptionsBegin ==
  IF nonopt_start # -1 /\ nonopt_end = -1 THEN optind ELSE nonopt_end

\* A word that starts with "--", whatever follows, ends the options: getopt()
\* steps over it and permutes.
DashDash ==
  /\ AtOption /\ Word[2] = "-"
  /\ place' = SubSeq(Word, 3, Len(Word))
  /\ IF OptionsBegin # -1
     THEN /\ argv' = Permuted(nonopt_start, OptionsBegin, optind + 1, argv)
          /\ optind' = optind + 1 - (OptionsBegin - nonopt_start)
     ELSE optind' = optind + 1 /\ UNCHANGED argv
  /\ ForgetSkipped
  /\ done' = TRUE
  /\ UNCHANGED <<words, options, returned>>

\* A word of option letters.
Letters ==
  /\ AtOption /\ Word[2] # "-"
  /\ nonopt_end' = OptionsBegin
  /\ place' = Tail(Word)
  /\ UNCHANGED <<words, options, argv, optind, nonopt_start, returned, done>>

NextWordIf(finished) == optind' = IF finished THEN optind + 1 ELSE optind

AtLetter == ~done /\ place # <<>>

Takes(letter) ==
  IF letter \in DOMAIN options.arg THEN options.arg[letter] ELSE "unknown"

\* A letter that takes no argument, or one that is not an option.
PlainLetter ==
  /\ AtLetter /\ Takes(Head(place)) \in {"unknown", "no"}
  /\ place' = Tail(place)
  /\ NextWordIf(Tail(place) = <<>>)
  /\ Return(IF Takes(Head(place)) = "unknown" THEN BADCH
            ELSE [ret |-> Head(place), optarg |-> NoArg])
  /\ UNCHANGED <<words, options, argv, nonopt_start, nonopt_end, done>>

\* A letter that takes an argument: the rest of the word, or the next word.
LetterWithArg ==
  /\ AtLetter /\ Takes(Head(place)) \in {"yes", "maybe"}
  /\ place' = <<>>
  /\ LET here == Tail(place) # <<>>
         letter(arg) == [ret |-> Head(place), optarg |-> arg]
     IN \/ /\ here \/ Takes(Head(place)) = "maybe"
           /\ Return(letter(IF here THEN Tail(place) ELSE NoArg))
           /\ optind' = optind + 1
        \/ /\ ~here /\ Takes(Head(place)) = "yes"
           /\ IF optind = Len(argv)
              THEN Return(BADARG) /\ optind' = optind + 1
              ELSE Return(letter(words[argv[optind + 1]])) /\ optind' = optind + 2
  /\ UNCHANGED <<words, options, argv, nonopt_start, nonopt_end, done>>

GetOptNext ==
  \/ EndOfArgs
  \/ NonOptionInOrder \/ NonOptionStops \/ NonOptionSkipped
  \/ DashDash \/ Letters
  \/ PlainLetter \/ LetterWithArg

GetOptSpec == GetOptInit /\ [][GetOptNext]_getoptVars
-----------------------------------------------------------------------------
Nothing == [opts |-> <<>>, operands |-> <<>>]

\* What is to come from letter k of word i on, the options and the numbers of
\* the operands, given what comes from the next letter on, from the next word
\* on and from the word after that on.
Follow(i, k, nextLetter, nextWord, overNext) ==
  LET n == Len(words)
      w == words[i]
      c == w[k]
      rest == SubSeq(w, k + 1, Len(w))
      From(j) == [x \in 1 .. n - j + 1 |-> j + x - 1]
      With(r, next) == [next EXCEPT !.opts = <<r>> \o @]
      letter(arg) == [ret |-> c, optarg |-> arg]
  IN CASE i > n -> Nothing
       [] i <= n /\ k = 1 /\ ~IsOption(w) ->
            IF IN_ORDER THEN With(INORDER(w), nextWord)
            ELSE IF PERMUTE THEN [nextWord EXCEPT !.operands = <<i>> \o @]
            ELSE [opts |-> <<>>, operands |-> From(i)]
       [] i <= n /\ k = 1 /\ IsOption(w) ->
            IF w[2] = "-" THEN [opts |-> <<>>, operands |-> From(i + 1)]
                          ELSE nextLetter
       [] i <= n /\ k > 1 /\ k > Len(w) -> nextWord
       [] i <= n /\ k > 1 /\ k <= Len(w) ->
            CASE Takes(c) = "unknown" -> With(BADCH, nextLetter)
              [] Takes(c) = "no" -> With(letter(NoArg), nextLetter)
              [] rest # <<>> /\ Takes(c) \in {"yes", "maybe"} ->
                   With(letter(rest), nextWord)
              [] rest = <<>> /\ Takes(c) = "maybe" -> With(letter(NoArg), nextWord)
              [] rest = <<>> /\ Takes(c) = "yes" ->
                   IF i = n THEN With(BADARG, nextWord)
                            ELSE With(letter(words[i + 1]), overNext)

\* What is to come from each letter of each word on, and from the end.
ReadFrom ==
  LET read[i \in 1 .. Len(words) + 2] ==
        [k \in Nat \ {0} |->
           Follow(i, k, read[i][k + 1], read[i + 1][1], read[i + 2][1])]
  IN read

Reading == ReadFrom[1][1]

Increasing(s) == \A i, j \in DOMAIN s : i < j => s[i] < s[j]

\* When getopt() has returned -1, it has returned every option with its
\* argument, in order, and argv from optind on is the operands in their order;
\* the words before it kept theirs, so that nothing was lost or doubled by
\* the cycles of swaps.
ParseExact ==
  done => /\ returned = Reading.opts
          /\ SubSeq(argv, optind, Len(argv)) = Reading.operands
          /\ Increasing(SubSeq(argv, 1, optind - 1))
          /\ {argv[i] : i \in DOMAIN argv} = 1 .. Len(words)

\* The blocks permute_args() exchanges both have something in them: gcd() of
\* an empty one would divide by zero.
BlocksNotEmpty ==
  nonopt_end # -1 =>
    /\ 1 <= nonopt_start /\ nonopt_start < nonopt_end
    /\ nonopt_end < optind \/ place # <<>>
=============================================================================
