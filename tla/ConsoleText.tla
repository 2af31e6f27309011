------------------------------ MODULE ConsoleText ------------------------------
(***************************************************************************)
(* How the mod takes a console line apart: explode and ExplodeAndReturn    *)
(* (utils.cpp), with which it finds a command and its parameters, and      *)
(* Cmd_TokenizeString (engine.cpp) with COM_Parse (common.cpp), which it   *)
(* offers to other modules.                                                *)
(*                                                                         *)
(* A text is a sequence of characters; a whole word may stand for one.     *)
(* Position Len(text) + 1 holds the terminating zero.                      *)
(*                                                                         *)
(* The operators marked "Slip" are no part of the specification: they say  *)
(* what plausible mistakes would make of the definition that follows them. *)
(***************************************************************************)
EXTENDS Naturals, Sequences, FiniteSets, SequencesExt

CONSTANT MaxArgs \* MAX_ARGS: the tokens that are kept

ASSUME ConsoleTextAssumption == MaxArgs \in Nat /\ MaxArgs > 1

Space == " "
NewLine == "\n"
Quote == "\""
Slash == "/"
Zero == "zero"

-----------------------------------------------------------------------------
(* Fields: what lies between single spaces.                                 *)

\* Slip: the next field begins at the delimiter, not after it.
ExplodeWithSpaces(str) ==
    LET upto[i \in 0 .. Len(str)] ==
            IF i = 0 THEN << <<>> >>
            ELSE LET arr == upto[i - 1]
                 IN  IF str[i] = Space THEN Append(arr, <<Space>>)
                     ELSE [arr EXCEPT ![Len(arr)] = Append(@, str[i])]
    IN  upto[Len(str)]

\* The fields of the first i characters: a delimiter begins another field.
explode(str) ==
    LET upto[i \in 0 .. Len(str)] ==
            IF i = 0 THEN << <<>> >>
            ELSE LET arr == upto[i - 1]
                 IN  IF str[i] = Space THEN Append(arr, <<>>)
                     ELSE [arr EXCEPT ![Len(arr)] = Append(@, str[i])]
    IN  upto[Len(str)]

\* The empty text has no parameters, but explode makes one field of it.
returnCommandParamCount(params) ==
    IF params = <<>> THEN 0 ELSE 1 + Cardinality({i \in DOMAIN params : params[i] = Space})

-----------------------------------------------------------------------------
(* Tokens.                                                                  *)

At(text, i) == IF i \in DOMAIN text THEN text[i] ELSE Zero

\* The first position from i on where the text does not go on with "set".
After(text, i, set) == Min({j \in i .. Len(text) + 1 : At(text, j) \notin set})

\* The first position from i on with a character of "set", or the zero.
Find(text, i, set) ==
    Min({j \in i .. Len(text) + 1 : At(text, j) \in set \cup {Zero}})

\* Where COM_Parse begins to read a token: past blanks, line ends and
\* comments.  Len(text) + 1 when there is none.
SkipWhite(text, i) ==
    LET skip[j \in 1 .. Len(text) + 1] ==
            LET k == After(text, j, {Space, NewLine})
            IN  IF At(text, k) = Slash /\ At(text, k + 1) = Slash
                THEN skip[Find(text, k, {NewLine})]
                ELSE k
    IN  skip[i]

\* Slip: a word ends with a line only.
WordEndAtLine(text, i) == Find(text, i, {NewLine})

\* A word ends with the first blank; the set of single characters is empty.
WordEnd(text, i) == Find(text, i, {Space, NewLine})

\* The token that begins at i.  A quoted text that is not closed takes its
\* reader past the zero ("over").
COM_Parse(text, i) ==
    IF At(text, i) = Quote
    THEN LET k == Find(text, i + 1, {Quote})
         IN  [token |-> SubSeq(text, i + 1, k - 1), next |-> k + 1,
              over |-> At(text, k) = Zero]
    ELSE LET k == WordEnd(text, i)
         IN  [token |-> SubSeq(text, i, k - 1), next |-> k, over |-> FALSE]

\* Slip: cmd_args is taken when no token has been read.
TakesArgsFirst(argc) == argc = 0

\* cmd_args is taken when one token has been read.
TakesArgs(argc) == argc = 1

\* What is left to find from position i on with argc tokens kept: the tokens,
\* the position cmd_args is set to (0: it stays NULL), whether the reader
\* leaves the text.  A line end between tokens ends the command.
Tokens(text) ==
    LET rest[i \in 1 .. Len(text) + 1] ==
            LET j == After(text, i, {Space})
                k == SkipWhite(text, j)
                p == COM_Parse(text, k)
                More(argc) ==
                    LET args == IF TakesArgs(argc) THEN j ELSE 0
                        kept == IF argc < MaxArgs THEN <<p.token>> ELSE <<>>
                        r == rest[p.next][argc + Len(kept)]
                    IN  IF At(text, j) \in {NewLine, Zero}
                        THEN [argv |-> <<>>, args |-> 0, over |-> FALSE]
                        ELSE IF At(text, k) = Zero
                        THEN [argv |-> <<>>, args |-> args, over |-> FALSE]
                        ELSE IF p.over
                        THEN [argv |-> kept, args |-> args, over |-> TRUE]
                        ELSE [argv |-> kept \o r.argv,
                              args |-> IF args # 0 THEN args ELSE r.args,
                              over |-> r.over]
            IN  [argc \in 0 .. MaxArgs |-> More(argc)]
    IN  rest[1][0]
=============================================================================
