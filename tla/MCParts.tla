------------------------------- MODULE MCParts -------------------------------
(***************************************************************************)
(* What the protocols rest on, each exercised on its own: the sequential   *)
(* structures, the semaphore, and the handles to a queue.  A behaviour     *)
(* takes up one and leaves the others as they were made.                   *)
(***************************************************************************)
EXTENDS Stock, ListUt, Pageman, Packet, Ftspec, GetOpt, Seml, MsgqRef

VARIABLE which

\* Three attachments of sizes 1, 2 and 0, in messages of up to two.
Atts == {[data |-> "a", size |-> 1], [data |-> "b", size |-> 2],
         [data |-> "nothing", size |-> 0]}

MCInfos == [id : Codes, attv : {<<>>} \cup [1 .. 1 -> Atts] \cup [1 .. 2 -> Atts]]

\* NULL, two addresses that differ in the order of their bytes, and the last.
MCSenders == {0, 27, 228, 255}

MCNow == [sec |-> 5, msec |-> 3]

\* Option strings: "d", main()'s, which POSIX rules apply to; and one with
\* every kind of letter, for each way to treat what is not an option.
MainOptions ==
  [first |-> "", colon |-> FALSE, arg |-> [d |-> "no"], posix |-> TRUE]

FullOptions(first, colon) ==
  [first |-> first, colon |-> colon, posix |-> FALSE,
   arg |-> [d |-> "no", f |-> "yes", o |-> "maybe"]]

MCOptStrings ==
  {MainOptions, FullOptions("", FALSE), FullOptions("-", FALSE),
   FullOptions("+", TRUE)}

\* Long lines of few kinds of words, for the permutations, and short lines of
\* many.
FewWords == {<<"m">>, <<"-", "d">>, <<"-", "f">>, <<"-", "-">>}

MoreWords ==
  FewWords \cup
    {<<>>, <<"-">>, <<"-", "-", "d">>, <<"-", "f", "m">>, <<"-", "d", "f">>,
     <<"-", "o">>, <<"-", "o", "m">>, <<"-", "x">>, <<"-", "d", "-">>}

MCLines ==
  UNION ({[1 .. n -> FewWords] : n \in 4 .. 6}
           \cup {[1 .. n -> MoreWords] : n \in 0 .. 3})

Parts ==
  {"table", "list", "pool", "packet", "time", "options", "semaphore", "handles"}

DataInit ==
  /\ which \in Parts
  /\ StockInit /\ ListInit /\ PageInit /\ PacketInit /\ TimeInit
  /\ SemlInit /\ RefInit
  /\ which # "list" => upward
  /\ which # "handles" => fresh = 1
  /\ IF which = "options" THEN GetOptInit ELSE GetOptStart(<<>>, MainOptions)

Still(name) ==
  /\ name # "table" => UNCHANGED stockVars
  /\ name # "list" => UNCHANGED listVars
  /\ name # "pool" => UNCHANGED pageVars
  /\ name # "packet" => UNCHANGED packetVars
  /\ name # "time" => UNCHANGED timeVars
  /\ name # "options" => UNCHANGED getoptVars
  /\ name # "semaphore" => UNCHANGED semlVars
  /\ name # "handles" => UNCHANGED vars

\* The line is read; the module has gone.
Finished ==
  \/ which = "options" /\ done /\ UNCHANGED getoptVars
  \/ which = "handles" /\ pc[Owner] = "gone" /\ UNCHANGED vars

DataNext ==
  /\ UNCHANGED which
  /\ \/ which = "table" /\ StockNext
     \/ which = "list" /\ ListNext
     \/ which = "pool" /\ PageNext
     \/ which = "packet" /\ PacketNext
     \/ which = "time" /\ TimeNext
     \/ which = "options" /\ GetOptNext
     \/ which = "semaphore" /\ SemlNext
     \/ which = "handles" /\ RefNext
     \/ Finished
  /\ Still(which)

\* The semaphore's, where it is what runs.
DataFairness ==
  \A t \in Threads : WF_semlVars(which = "semaphore" /\ (Resume(t) \/ Resleep(t)))

DataSpec ==
  /\ DataInit
  /\ [][DataNext]_<<which, stockVars, listVars, pageVars, packetVars, timeVars,
                    getoptVars, semlVars, vars>>
  /\ DataFairness
=============================================================================
